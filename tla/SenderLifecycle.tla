--------------------------- MODULE SenderLifecycle ---------------------------
(***************************************************************************)
(* What the gatekeeper promises about one sender, without saying how: the  *)
(* standings a sender can have, which of them may follow which, and when   *)
(* the conversation may be deleted.  There is no lock, timer, job, phase,  *)
(* failure or crash here; GatekeeperLifecycle maps the service onto it.    *)
(***************************************************************************)
CONSTANT Senders

VARIABLES
  standing,   \* what the sender is to the gatekeeper
  deleting    \* the conversation with the sender is being deleted

lifecycleVars == <<standing, deleting>>

\* A sender who passed the challenge is still screened, an allowed one is not.
\* temporary, permanent and archived are suppressions; archived is a permanent one
\* that the operator has confirmed.
Suppressions == {"temporary", "permanent", "archived"}
Standings == {"unknown", "challenged", "passed", "allowed", "quarantined"}
               \cup Suppressions

LifecycleInit ==
  /\ standing = [s \in Senders |-> "unknown"]
  /\ deleting = [s \in Senders |-> FALSE]

Moves(s, from, to) == standing[s] \in from /\ standing'[s] = to

\* A challenge is put to a sender who is not yet trusted, as a whole: it is
\* either open with the dialog put aside, or it was never there.
Challenge(s) == Moves(s, {"unknown"}, "challenged")

\* A sender who passed is looked at again when new evidence arrives.
Rescreen(s) == Moves(s, {"passed"}, "unknown")

Pass(s) == Moves(s, {"challenged"}, "passed")

\* Held without a deletion, for the operator to decide: no prompt or no warning
\* could be sent.
Quarantine(s) ==
  Moves(s, {"unknown", "passed", "challenged", "temporary"}, "quarantined")

\* A challenge that was failed or not answered.
Fail(s) == Moves(s, {"challenged"}, "temporary")

\* Corroborated evidence; a temporary suppression may just have ended.
Condemn(s) ==
  Moves(s, {"unknown", "passed", "challenged", "temporary"}, "permanent")

\* Only the operator condemns a sender who is allowed or held; the operator may
\* also confirm a permanent suppression, or take the confirmation back.
OperatorCondemns(s) == Moves(s, Standings, "archived")
Unarchive(s) == Moves(s, {"archived"}, "permanent")

\* Only a temporary suppression ends by itself, and a permanent one is forgotten
\* without allowing the sender only once it was confirmed.
Lapse(s) == Moves(s, {"temporary"}, "unknown")
Forget(s) == Moves(s, {"archived"}, "unknown")

\* Contacts, the owner's own message, the operator.
Allow(s) == Moves(s, Standings, "allowed")

\* The conversation is deleted under a suppression, never under a quarantine,
\* and the standing stays as it is until the deletion has ended.
ChangeStanding(s) ==
  /\ \/ Challenge(s) \/ Rescreen(s) \/ Pass(s) \/ Quarantine(s) \/ Fail(s)
     \/ Condemn(s) \/ OperatorCondemns(s) \/ Unarchive(s) \/ Lapse(s) \/ Forget(s)
     \/ Allow(s)
  /\ ~deleting[s] /\ ~deleting'[s]

BeginDeletion(s) ==
  /\ standing[s] \in Suppressions
  /\ ~deleting[s] /\ deleting'[s]
  /\ standing'[s] = standing[s]

EndDeletion(s) ==
  /\ deleting[s] /\ ~deleting'[s]
  /\ standing'[s] = standing[s]

Rest(s) == standing'[s] = standing[s] /\ deleting'[s] = deleting[s]

\* Several senders may change at once: maintenance ends many restrictions in one
\* transaction, and a crash stops every deletion that is under way.
LifecycleNext ==
  \A s \in Senders :
    ChangeStanding(s) \/ BeginDeletion(s) \/ EndDeletion(s) \/ Rest(s)

LifecycleSpec == LifecycleInit /\ [][LifecycleNext]_lifecycleVars
=============================================================================
