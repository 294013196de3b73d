------------------------------- MODULE Files -------------------------------
(***************************************************************************)
(* What the supervisor may rely on about settings.json, ezviz_token.json   *)
(* and ezviz_auth.json, whoever writes them: one file changes at a time, a *)
(* token is only replaced while nothing is bound, and a camera is only     *)
(* bound to the token that was verified for it.  Binding implements this;  *)
(* Supervisor reads the files while it goes on.                            *)
(***************************************************************************)
CONSTANTS Ids, None

VARIABLES settings, token, auth, touched

files == <<settings, token, auth, touched>>

Init ==
    /\ settings \in Ids \cup {None}
    /\ \/ token = None /\ auth = None
       \/ token \in Ids /\ auth \in {None, token}
    /\ touched = FALSE

\* A save.
Select(i) == settings' = i /\ UNCHANGED <<token, auth>>

\* The three steps of a commit.
Unbind    == auth' = "updating" /\ UNCHANGED <<settings, token>>
Replace(i) == auth = "updating" /\ token' = i /\ UNCHANGED <<settings, auth>>
Bind      == auth = "updating" /\ token \in Ids /\ auth' = token /\ UNCHANGED <<settings, token>>

Change ==
    /\ touched' = TRUE
    /\ Unbind \/ Bind \/ \E i \in Ids : Select(i) \/ Replace(i)

\* The supervisor takes note of the state of the files.
Noted == touched' = FALSE /\ UNCHANGED <<settings, token, auth>>

Next == Change \/ Noted

Spec == Init /\ [][Next]_files

\* token_matches_identity, read at one instant.
Matches(i) == token # None /\ auth = i
=============================================================================
