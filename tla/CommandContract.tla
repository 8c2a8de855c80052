--------------------------- MODULE CommandContract ---------------------------
(***************************************************************************)
(* What a command tool promises of one call, in the words of the outcome   *)
(* field every command tool returns (tools/support/commands.py, Outcome    *)
(* and CommandResult): "not_sent: nothing was sent", "sent_not_visible_yet: *)
(* the engine has the command", "done: the object shows the change now".   *)
(* A call may also raise, and then nothing is promised.                    *)
(***************************************************************************)
CONSTANT Calls
VARIABLES
    sent,     \* calls that have had at least one command queued
    outcome   \* outcome[c]: what the call returned, "open" until it does

Outcomes == {"open", "not_sent", "sent_not_visible_yet", "done", "raised"}

Init ==
    /\ sent = {}
    /\ outcome = [c \in Calls |-> "open"]

Open(c) == outcome[c] = "open"
Return(c, o) == outcome' = [outcome EXCEPT ![c] = o] /\ UNCHANGED sent

Send(c) == Open(c) /\ sent' = sent \cup {c} /\ UNCHANGED outcome

(* The command is queued and its answer is lost: the call raises.          *)
SendAndRaise(c) ==
    /\ Open(c)
    /\ sent' = sent \cup {c}
    /\ outcome' = [outcome EXCEPT ![c] = "raised"]

Refuse(c) == Open(c) /\ c \notin sent /\ Return(c, "not_sent")
Report(c) == Open(c) /\ c \in sent /\ \E o \in {"done", "sent_not_visible_yet"} : Return(c, o)
Raise(c) == Open(c) /\ Return(c, "raised")

Next == \E c \in Calls : Send(c) \/ SendAndRaise(c) \/ Refuse(c) \/ Report(c) \/ Raise(c)

Spec == Init /\ [][Next]_<<sent, outcome>>
=============================================================================
