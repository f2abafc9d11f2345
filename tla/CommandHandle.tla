--------------------------- MODULE CommandHandle ---------------------------
(***************************************************************************)
(* What SerialSession promises the caller of send (SerialCommand.kt:25-33),*)
(* without threads, channels, generations or ports: the life of each       *)
(* CommandHandle.  A handle is refused at once or queued; a queued command *)
(* is taken by one writer or lost; a taken one is tried at most            *)
(* 1 + maxRetries times and then reported, or left awaiting its response,  *)
(* or lost with the writer; an awaited one is answered or timed out.       *)
(***************************************************************************)
EXTENDS Naturals

CONSTANTS Commands, Matched, MaxRetries

VARIABLES
    phase,      \* command -> where it is
    tries,      \* command -> writes begun for it
    outcome     \* command -> its CommandResult, or "none"

Phases == {"new", "queued", "taken", "awaiting", "lost", "done"}

HandleInit ==
    /\ phase = [c \in Commands |-> "new"]
    /\ tries = [c \in Commands |-> 0]
    /\ outcome = [c \in Commands |-> "none"]

Move(c, from, to) == phase[c] = from /\ phase' = [phase EXCEPT ![c] = to]
Report(c, results) == \E r \in results : outcome' = [outcome EXCEPT ![c] = r]

Refuse(c) ==
    /\ Move(c, "new", "done")
    /\ Report(c, {"AlreadyClosed", "NotConnected", "QueueFull"})
    /\ UNCHANGED tries

Enqueue(c) == Move(c, "new", "queued") /\ UNCHANGED <<tries, outcome>>

\* Dropped by an overflow or by a disconnect: the handle never completes.
Drop(c) == Move(c, "queued", "lost") /\ UNCHANGED <<tries, outcome>>

Take(c) == Move(c, "queued", "taken") /\ UNCHANGED <<tries, outcome>>

Try(c) ==
    /\ phase[c] = "taken" /\ tries[c] <= MaxRetries
    /\ tries' = [tries EXCEPT ![c] = @ + 1]
    /\ UNCHANGED <<phase, outcome>>

Settle(c) ==
    /\ tries[c] > 0
    /\ Move(c, "taken", "done")
    /\ Report(c, {"WriteFailed", "TimedOut"} \cup
                 (IF c \in Matched THEN {} ELSE {"Sent"}))
    /\ UNCHANGED tries

Await(c) ==
    /\ c \in Matched /\ tries[c] > 0
    /\ Move(c, "taken", "awaiting")
    /\ UNCHANGED <<tries, outcome>>

\* Cancelled together with its writer: the handle never completes.
Lose(c) == Move(c, "taken", "lost") /\ UNCHANGED <<tries, outcome>>

Answer(c) ==
    /\ Move(c, "awaiting", "done")
    /\ Report(c, {"Response", "TimedOut"})
    /\ UNCHANGED tries

HandleNext ==
    \E c \in Commands :
        \/ Refuse(c) \/ Enqueue(c) \/ Drop(c) \/ Take(c) \/ Try(c)
        \/ Settle(c) \/ Await(c) \/ Lose(c) \/ Answer(c)

HandleSpec == HandleInit /\ [][HandleNext]_<<phase, tries, outcome>>
=============================================================================
