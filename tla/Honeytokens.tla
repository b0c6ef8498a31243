---------------------------- MODULE Honeytokens ----------------------------
(***************************************************************************)
(* hisoka/honeytokens.py: the engine that mints canary tokens, writes them *)
(* into a response, and looks for them in what the attacker sends.         *)
(*                                                                         *)
(* A text is a sequence of atoms.  A seed and a type determine a token, so *)
(* that in one engine a token is its type; it is registered as one text    *)
(* (Watched) and written into the response as another (Shown).             *)
(***************************************************************************)
EXTENDS Naturals, Sequences, SequencesExt

(* HoneytokenConfig.enabled_types, in its order.                            *)
EnabledTypes == <<"credential", "url", "api_key", "file_path", "database_record", "ssh_key">>

(* MUTANT: a file token is registered by its name before its directory, a   *)
(* text that is in no response.                                             *)
Watched_name_only(t) ==
    CASE t = "credential"      -> <<"user", ":", "password">>
      [] t = "url"             -> <<"https", "host", "path">>
      [] t = "api_key"         -> <<"key">>
      [] t = "file_path"       -> <<"file", "dir">>
      [] t = "database_record" -> <<"table", ":", "id", ":", "email">>
      [] t = "ssh_key"         -> <<"key path">>

(* The token_value the six generators register.                             *)
Watched(t) ==
    CASE t = "credential"      -> <<"user", ":", "password">>
      [] t = "url"             -> <<"https", "host", "path">>
      [] t = "api_key"         -> <<"key">>
      [] t = "file_path"       -> <<"dir", "file">>
      [] t = "database_record" -> <<"table", ":", "id", ":", "email">>
      [] t = "ssh_key"         -> <<"key path">>

(* The sentence inject writes for a token.                                  *)
Shown(t) ==
    CASE t = "credential"      -> <<"btw", "user", " / ", "password">>
      [] t = "url"             -> <<"docs", "https", "host", "path">>
      [] t = "api_key"         -> <<"the key", "key">>
      [] t = "file_path"       -> <<"notes", "dir", "file">>
      [] t = "database_record" -> <<"shows", "name", "email", "role", "api_token">>
      [] t = "ssh_key"         -> <<"ssh", "user", "key path">>

(* The tokens inject selects for a context, in order.                       *)
Selected(context) ==
    LET wanted(t) ==
          CASE t = "credential"      -> context \in {"lateral_movement", "credential_access", "initial_access", ""}
            [] t = "database_record" -> context \in {"discovery", "recon", "lateral_movement", ""}
            [] t = "url"             -> context \in {"exfiltration", "c2", "credential_access", ""}
            [] t = "file_path"       -> context \in {"persistence", "defense_evasion", "execution", ""}
    IN  SelectSeq(<<"credential", "database_record", "url", "file_path">>, wanted)

NewEngine == [tokens |-> <<>>, alerts |-> <<>>]

(* _register_token, once per token: an entry of its own each time.          *)
Register(e, ts) == [e EXCEPT !.tokens = @ \o ts]

Inject(e, context) == Register(e, Selected(context))
InjectedText(context) ==
    FlattenSeq([i \in DOMAIN Selected(context) |-> Shown(Selected(context)[i])])
DeployAll(e) == Register(e, EnabledTypes)

Within(part, text) ==
    \E i \in 0 .. Len(text) :
        i + Len(part) <= Len(text) /\ SubSeq(text, i + 1, i + Len(part)) = part

(* check_triggers: an alert for every entry that is found, so as many for   *)
(* one use as the token was planted times.                                  *)
Triggered(e, text) ==
    SelectSeq(e.tokens, LAMBDA t : Within(Watched(t), text))
CheckTriggers(e, text) == [e EXCEPT !.alerts = @ \o Triggered(e, text)]

(* MUTANT: both the name and the password must match. *)
CredentialUse_both(e, user, password) ==
    IF \E i \in DOMAIN e.tokens :
          e.tokens[i] = "credential" /\ user = "user" /\ password = "password"
    THEN [e EXCEPT !.alerts = Append(@, "credential_use")] ELSE e

(* check_credential_use: half of a planted pair is enough, and one alert is *)
(* raised whatever the number of entries.                                   *)
CredentialUse(e, user, password) ==
    IF \E i \in DOMAIN e.tokens :
          e.tokens[i] = "credential" /\ (user = "user" \/ password = "password")
    THEN [e EXCEPT !.alerts = Append(@, "credential_use")] ELSE e

(* check_url_access: the planted address is part of the one requested.      *)
UrlAccess(e, url) ==
    IF \E i \in DOMAIN e.tokens : e.tokens[i] = "url" /\ Within(Watched("url"), url)
    THEN [e EXCEPT !.alerts = Append(@, "url_access")] ELSE e
=============================================================================
