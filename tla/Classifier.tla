----------------------------- MODULE Classifier -----------------------------
(***************************************************************************)
(* chrollo/classifier.py: a scaler and a model that are fitted together,   *)
(* used together, and kept in two files.  train replaces them in place, a  *)
(* step at a time, while other threads classify; a crash may come between  *)
(* the two files or within one.                                            *)
(*                                                                         *)
(* A fitted object is the number of the training it comes from; what it    *)
(* answers is scikit-learn's.                                              *)
(***************************************************************************)
EXTENDS Integers, Sequences

CONSTANTS
    Readers,        \* threads that classify
    MaxTrainings, MaxClassified, MaxFalls    \* bounds: trainings, calls, crashes

VARIABLES
    mem,            \* _scaler, _model and _loaded
    files,          \* the files of the model and of the scaler
    trainer,        \* the step train is at
    reader,         \* reader[r]: where it is, the scaler it used, whether train ran
    result,         \* history: the last classification
    halved,         \* history: this process loaded the files of two trainings
    count           \* bounds used up

vars == <<mem, files, trainer, reader, result, halved, count>>

None == -2          \* no object, no file
Torn == -1          \* a file that was not written to its end
Raw  == 0           \* an object that was not fitted

Down   == [scaler |-> None, model |-> None, loaded |-> FALSE]
Idle   == [pc |-> "idle", scaler |-> None, trained |-> FALSE]
Steps  == <<"scaler", "fit_scaler", "model", "fit_model", "truncate_model", "dump_model",
            "truncate_scaler", "dump_scaler", "loaded">>

Init ==
    /\ mem = Down /\ files = [model |-> None, scaler |-> None]
    /\ trainer = 0 /\ reader = [r \in Readers |-> Idle]
    /\ result = [scaler |-> None, model |-> None, excused |-> FALSE]
    /\ halved = FALSE /\ count = [trainings |-> 0, calls |-> 0, falls |-> 0]

Usable(object) == object > 0
Training == trainer # 0
Now      == count.trainings

TrainBegins ==
    /\ ~Training /\ Now < MaxTrainings
    /\ trainer' = 1
    /\ count'   = [count EXCEPT !.trainings = @ + 1]
    /\ reader'  = [r \in Readers |-> IF reader[r].pc = "idle" THEN reader[r]
                                     ELSE [reader[r] EXCEPT !.trained = TRUE]]
    /\ UNCHANGED <<mem, files, result, halved>>

Step == Steps[trainer]
Goes == trainer' = IF trainer = Len(Steps) THEN 0 ELSE trainer + 1

(* _save writes the model's file and then the scaler's, each truncated first. *)
Saves ==
    files' = [model  |-> IF Step = "truncate_model" THEN Torn
                         ELSE IF Step = "dump_model" THEN mem.model ELSE files.model,
              scaler |-> IF Step = "truncate_scaler" THEN Torn
                         ELSE IF Step = "dump_scaler" THEN mem.scaler ELSE files.scaler]

(* MUTANT: a scaler that is there is not fitted anew. *)
TrainStep_scaler_kept ==
    /\ Training /\ Goes /\ Saves
    /\ mem' = [scaler |-> IF Step = "scaler" /\ mem.scaler = None THEN Now ELSE mem.scaler,
               model  |-> IF Step = "model" THEN Raw ELSE IF Step = "fit_model" THEN Now ELSE mem.model,
               loaded |-> mem.loaded \/ Step = "loaded"]
    /\ UNCHANGED <<reader, result, halved, count>>

(* train and _save, one assignment, fit or write at a time.                 *)
TrainStep ==
    /\ Training /\ Goes /\ Saves
    /\ mem' = [scaler |-> IF Step = "scaler" THEN Raw ELSE IF Step = "fit_scaler" THEN Now ELSE mem.scaler,
               model  |-> IF Step = "model" THEN Raw ELSE IF Step = "fit_model" THEN Now ELSE mem.model,
               loaded |-> mem.loaded \/ Step = "loaded"]
    /\ UNCHANGED <<reader, result, halved, count>>

(* The cross-validation raises: both are fitted, neither is saved.          *)
TrainRaises ==
    /\ Training /\ Step = "truncate_model"
    /\ trainer' = 0
    /\ UNCHANGED <<mem, files, reader, result, halved, count>>

Transform(r) ==
    /\ reader[r].pc = "idle" /\ count.calls < MaxClassified
    /\ mem.loaded /\ mem.model # None
    /\ count'  = [count EXCEPT !.calls = @ + 1]
    /\ reader' = [reader EXCEPT ![r] =
                    IF Usable(mem.scaler)
                    THEN [pc |-> "predict", scaler |-> mem.scaler, trained |-> Training]
                    ELSE Idle]
    /\ UNCHANGED <<mem, files, trainer, result, halved>>

Predict(r) ==
    /\ reader[r].pc = "predict"
    /\ reader' = [reader EXCEPT ![r] = Idle]
    /\ result' = IF Usable(mem.model)
                 THEN [scaler |-> reader[r].scaler, model |-> mem.model,
                       excused |-> reader[r].trained \/ halved]
                 ELSE result
    /\ UNCHANGED <<mem, files, trainer, halved, count>>

(* The process ends, and _load takes what it finds: of a scaler that is not *)
(* there it makes one that was never fitted; a file that does not load      *)
(* leaves the classifier as it was at that point.                           *)
Fall ==
    /\ count.falls < MaxFalls
    /\ count'  = [count EXCEPT !.falls = @ + 1]
    /\ halved' = (files.model > 0 /\ files.scaler > 0 /\ files.model # files.scaler)
    /\ mem' = IF files.model \in {None, Torn} THEN Down
              ELSE IF files.scaler = Torn THEN [Down EXCEPT !.model = files.model]
              ELSE [model |-> files.model, loaded |-> TRUE,
                    scaler |-> IF files.scaler = None THEN Raw ELSE files.scaler]
    /\ trainer' = 0 /\ reader' = [r \in Readers |-> Idle]
    /\ UNCHANGED <<files, result>>

Next == \/ TrainBegins \/ TrainStep \/ TrainRaises \/ Fall
        \/ \E r \in Readers : Transform(r) \/ Predict(r)
Spec == Init /\ [][Next]_vars

-----------------------------------------------------------------------------
(* A classification scales with the scaler of the model's own training,     *)
(* but for a call that a training overlapped, and for a process that was    *)
(* restarted between the two files (classifier.py:54-113, 157-183).         *)
ScaledAsTrained ==
    result.excused \/ result.scaler = result.model
=============================================================================
