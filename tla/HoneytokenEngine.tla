-------------------------- MODULE HoneytokenEngine --------------------------
(***************************************************************************)
(* One HoneytokenEngine and the attacker it watches: texts with tokens are *)
(* sent out, and what was sent comes back as an input, a login attempt or  *)
(* a requested address.                                                    *)
(***************************************************************************)
EXTENDS Honeytokens

CONSTANTS MaxPlants,    \* bound: injections and deployments
          MaxAlerts     \* bound: alerts kept

VARIABLES engine,       \* tokens and alerts of the engine
          read,         \* texts the attacker was given since the last clear
          planted,      \* history: injections since the last clear
          last          \* history: the last use, and the alerts it raised

vars == <<engine, read, planted, last>>
Nothing == [what |-> "none", text |-> <<>>, alerts |-> 0]

Init == engine = NewEngine /\ read = {} /\ planted = 0 /\ last = Nothing

Plant(context) ==
    /\ planted < MaxPlants
    /\ engine'  = Inject(engine, context)
    /\ read'    = read \cup {InjectedText(context)}
    /\ planted' = planted + 1
    /\ last'    = Nothing

Deploy ==
    /\ planted < MaxPlants
    /\ engine'  = DeployAll(engine)
    /\ planted' = planted + 1
    /\ last'    = Nothing
    /\ UNCHANGED read

Use(what, text, e) ==
    /\ Len(engine.alerts) < MaxAlerts
    /\ engine' = e
    /\ last'   = [what |-> what, text |-> text,
                  alerts |-> Len(e.alerts) - Len(engine.alerts)]
    /\ UNCHANGED <<read, planted>>

Paste == \E text \in read : Use("paste", text, CheckTriggers(engine, text))
LogIn == \E u \in {"user", "other"}, p \in {"password", "guess"} :
            Use("login", <<u, p>>, CredentialUse(engine, u, p))
Fetch == \E url \in {Watched("url"), <<"https", "elsewhere">>} :
            Use("fetch", url, UrlAccess(engine, url))

(* clear() forgets the tokens, but what the attacker read stays with him.   *)
Clear ==
    /\ engine.tokens # <<>>
    /\ engine' = NewEngine /\ planted' = 0 /\ last' = Nothing
    /\ UNCHANGED read

Next == \/ \E context \in {"", "c2", "recon", "execution"} : Plant(context)
        \/ Deploy \/ Paste \/ LogIn \/ Fetch \/ Clear
Spec == Init /\ [][Next]_vars

-----------------------------------------------------------------------------
Holds(t) == \E i \in DOMAIN engine.tokens : engine.tokens[i] = t

(* Every use of a live token fires, whichever way it comes in: an address   *)
(* or a file of a response that is sent back, an address that is fetched,   *)
(* and a login with either half of a planted pair (check_triggers,          *)
(* check_credential_use, check_url_access).  A pasted credential or record  *)
(* is not claimed: it is registered in another form than it is shown.       *)
UsesFire ==
    LET pasted(t) == last.what = "paste" /\ Holds(t) /\ Within(Shown(t), last.text) IN
    \/ \E t \in {"url", "file_path"} : pasted(t)
    \/ last.what = "login" /\ Holds("credential")
          /\ (last.text[1] = "user" \/ last.text[2] = "password")
    \/ last.what = "fetch" /\ Holds("url") /\ last.text = Watched("url")
    => last.alerts > 0
=============================================================================
