----------------------------- MODULE Broadcast ------------------------------
(***************************************************************************)
(* Broadcasts (internal/broadcast and internal/handlers/admin.go): an      *)
(* admin stages a message and confirms it; a goroutine of its own then     *)
(* sends it to everyone, one at a time, while users join, other admins     *)
(* give commands and further deliveries run beside it.                     *)
(*                                                                         *)
(* A handler runs under the lock of the admin and touches nothing that a   *)
(* delivery changes, so it is one step; a delivery takes a step for each   *)
(* target.  A command of somebody who is no admin never gets here          *)
(* (bot.Resolve), and one that finds nothing to do changes nothing.        *)
(*                                                                         *)
(* A message is a text, which is kept as it is, or an original in a chat,  *)
(* which is copied as it stands at that moment: its author may edit it.    *)
(***************************************************************************)
EXTENDS Integers, FiniteSets

CONSTANTS
    Users,          \* everyone who may ever write to the bot
    Admins,
    Texts,          \* messages written in the command
    Originals,      \* messages replied to with the command
    Nothing,        \* no message is staged
    Deliveries,     \* bound: confirmed broadcasts
    MaxStaged,      \* bound: messages each admin stages
    MaxEdits,       \* bound: edits of each original
    MaxRestarts     \* bound

Payloads == Texts \cup Originals

ASSUME BroadcastAssumption ==
    /\ IsFiniteSet(Users) /\ IsFiniteSet(Deliveries)
    /\ Admins \subseteq Users
    /\ Nothing \notin Payloads \cup Admins
    /\ MaxStaged \in Nat
    /\ MaxEdits \in Nat
    /\ MaxRestarts \in Nat

VARIABLES
    rows,           \* the users the database knows
    pending,        \* Service.pending
    job,            \* the deliveries, by the confirmation that started each
    edition,        \* how often an original has been edited
    previewed,      \* what each admin was shown by this process
    chats,          \* what has arrived with each user who is no admin
    staged,         \* how many messages each admin has staged
    restarts

vars == <<rows, pending, job, edition, previewed, chats, staged, restarts>>

(* What a message says at a moment.                                        *)
Contents == Payloads \X (0 .. MaxEdits)

Content(p) == <<p, IF p \in Originals THEN edition[p] ELSE 0>>

(* A delivery: at is "unused", "running", at its end "reported", or        *)
(* "unreported" if the report did not arrive, or, when a restart or a      *)
(* panic has cut it off, "gone";                                           *)
(* left are the targets it has not come to; tick is whether one waits in   *)
(* the channel of its ticker.  Total, delivered and failed are the Report. *)
(* The rest is what there is to be said of it: ticks is how many there     *)
(* were, shown how its admin had been shown it when they confirmed, sent   *)
(* what went out, copies to whom.                                          *)
JobStates ==
    [at : {"unused", "running", "reported", "unreported", "gone"},
     admin : Admins \cup {Nothing},
     payload : Payloads \cup {Nothing}, left : SUBSET Users,
     tick : BOOLEAN, ticks : Nat, total : Nat, delivered : Nat, failed : Nat,
     shown : SUBSET Contents, sent : SUBSET Contents, copies : [Users -> Nat]]

TypeOK ==
    /\ rows \subseteq Users
    /\ pending \in [Admins -> Payloads \cup {Nothing}]
    /\ job \in [Deliveries -> JobStates]
    /\ edition \in [Originals -> 0 .. MaxEdits]
    /\ previewed \in [Admins -> SUBSET Contents]
    /\ chats \in [Users \ Admins -> SUBSET Contents]
    /\ staged \in [Admins -> 0 .. MaxStaged]
    /\ restarts \in 0 .. MaxRestarts

Unused ==
    [at |-> "unused", admin |-> Nothing, payload |-> Nothing, left |-> {},
     tick |-> FALSE, ticks |-> 0, total |-> 0, delivered |-> 0, failed |-> 0,
     shown |-> {}, sent |-> {}, copies |-> [u \in Users |-> 0]]

Init ==
    /\ rows = Admins
    /\ pending = [a \in Admins |-> Nothing]
    /\ job = [d \in Deliveries |-> Unused]
    /\ edition = [m \in Originals |-> 0]
    /\ previewed = [a \in Admins |-> {}]
    /\ chats = [u \in Users \ Admins |-> {}]
    /\ staged = [a \in Admins |-> 0]
    /\ restarts = 0

-----------------------------------------------------------------------------
(* A send gets through, fails, or gets through with the answer lost.       *)
Sends == {send \in [arrived : BOOLEAN, ok : BOOLEAN] : send.ok => send.arrived}

Arrive(send, u, c) ==
    chats' = IF send.arrived /\ u \notin Admins
             THEN [chats EXCEPT ![u] = @ \cup {c}] ELSE chats

(* Service.Prepare.                                                        *)
Prepare(a, p) ==
    /\ pending' = [pending EXCEPT ![a] = p]
    /\ staged' = [staged EXCEPT ![a] = @ + 1]

(* Mutant: staged first, and shown then.                                   *)
StagedWhenSeen(send) == TRUE

(* A preview that fails ends the command.                                  *)
StagedWhen(send) == send.ok

(* BroadcastPrepare: preview, count the audience, stage, say so.           *)
BroadcastPrepare(a, p) ==
    \E send \in Sends, counted \in BOOLEAN :
        /\ Arrive(send, a, Content(p))
        /\ previewed' = IF send.arrived
                        THEN [previewed EXCEPT ![a] = @ \cup {Content(p)}]
                        ELSE previewed
        /\ IF StagedWhen(send) /\ counted
           THEN staged[a] < MaxStaged /\ Prepare(a, p)
           ELSE UNCHANGED <<pending, staged>>
        /\ UNCHANGED <<rows, job, edition, restarts>>

(* Mutant: the test goes to the audience.                                  *)
TestTargetsAll(a) == rows

(* []int64{req.User.ID}.                                                   *)
TestTargets(a) == {a}

(* BroadcastTest: a delivery to the admin alone, without staging.          *)
BroadcastTest(a, p) ==
    /\ \E send \in Sends, u \in TestTargets(a) : Arrive(send, u, Content(p))
    /\ UNCHANGED <<rows, pending, job, edition, previewed, staged, restarts>>

(* Mutant: what is taken stays staged.                                     *)
TakeLeaving(a) == UNCHANGED pending

(* Service.Take, of what is there.                                         *)
Take(a) == pending' = [pending EXCEPT ![a] = Nothing]

(* Service.Audience, by Users.IDs.                                         *)
Audience == rows

Started(a, p) ==
    [at |-> "running", admin |-> a, payload |-> p, left |-> Audience,
     tick |-> FALSE, ticks |-> 0, total |-> Cardinality(Audience),
     delivered |-> 0, failed |-> 0,
     shown |-> {s \in previewed[a] : s[1] = p}, sent |-> {},
     copies |-> [u \in Users |-> 0]]

(* Deliveries differ in nothing, so any unused one will do.                *)
Fresh == CHOOSE d \in Deliveries : job[d].at = "unused"

(* BroadcastConfirm: take, read the audience, deliver in the background.   *)
(* If the audience cannot be read the message is gone.                     *)
BroadcastConfirm(a) ==
    /\ pending[a] # Nothing
    /\ Take(a)
    /\ \/ \E d \in Deliveries :
              /\ d = Fresh /\ job[d].at = "unused"
              /\ job' = [job EXCEPT ![d] = Started(a, pending[a])]
       \/ UNCHANGED job
    /\ UNCHANGED <<rows, edition, previewed, chats, staged, restarts>>

BroadcastCancel(a) ==
    /\ pending[a] # Nothing
    /\ Take(a)
    /\ UNCHANGED <<rows, job, edition, previewed, chats, staged, restarts>>

-----------------------------------------------------------------------------
(* Mutant: the ticker is made and not waited for.                          *)
DueAtOnce(j) == TRUE

(* The first target is due at once, the others one tick each.              *)
Due(j) == j.delivered + j.failed = 0 \/ j.tick

(* What was waited for is no longer in the channel.                        *)
Awaited(j) == [j EXCEPT !.tick = @ /\ j.delivered + j.failed = 0]

(* deliverOne, as far as Telegram is concerned.                            *)
Sent(j, u, c, send) ==
    IF send.arrived
    THEN [j EXCEPT !.sent = j.sent \cup {c},
                   !.copies = [j.copies EXCEPT ![u] = @ + 1]]
    ELSE j

(* Mutant: a failure is counted, and then the delivery as well.            *)
CountedTwice(j, send) ==
    [j EXCEPT !.failed = IF send.ok THEN @ ELSE @ + 1, !.delivered = @ + 1]

(* A failure does not count as a delivery.                                 *)
Counted(j, send) ==
    IF send.ok THEN [j EXCEPT !.delivered = @ + 1]
    ELSE [j EXCEPT !.failed = @ + 1]

(* Whatever came of it, the next target follows.                           *)
Passed(j, u) == [j EXCEPT !.left = @ \ {u}]

(* Deliver, for one target, in whatever order the audience was read.       *)
DeliverOne(d) ==
    \E u \in job[d].left, send \in Sends :
        LET c == Content(job[d].payload)
        IN  /\ job[d].at = "running" /\ Due(job[d])
            /\ job' = [job EXCEPT
                   ![d] = Passed(Counted(Sent(Awaited(@), u, c, send), send), u)]
            /\ Arrive(send, u, c)
            /\ UNCHANGED <<rows, pending, edition, previewed, staged, restarts>>

(* The ticker of a delivery fires: another pace has gone by for it.  Its   *)
(* channel holds one tick, and one more is dropped; what it does once      *)
(* nothing is left to wait for it is left out.                             *)
Pace(d) ==
    /\ job[d].at = "running" /\ job[d].left # {} /\ ~job[d].tick
    /\ job' = [job EXCEPT ![d].tick = TRUE, ![d].ticks = @ + 1]
    /\ UNCHANGED <<rows, pending, edition, previewed, chats, staged, restarts>>

(* Mutant: only a full delivery comes to an end.                           *)
FinishedInFull(j) == j.delivered = j.total

(* Deliver has come to the end of the targets.                             *)
Finished(j) == j.left = {}

(* The admin is told, by one send: if that fails it is logged, and nobody  *)
(* tries again.                                                            *)
SendReport(d) ==
    /\ job[d].at = "running"
    /\ Finished(job[d])
    /\ \E send \in Sends :
           job' = [job EXCEPT
                      ![d].at = IF send.arrived THEN "reported" ELSE "unreported",
                      ![d].tick = FALSE]
    /\ UNCHANGED <<rows, pending, edition, previewed, chats, staged, restarts>>

(* A panic in a delivery is recovered where background started it, and     *)
(* ends it there: the targets it has left get nothing, and the admin no    *)
(* report.                                                                 *)
Panic(d) ==
    /\ job[d].at = "running"
    /\ job' = [job EXCEPT ![d].at = "gone", ![d].tick = FALSE]
    /\ UNCHANGED <<rows, pending, edition, previewed, chats, staged, restarts>>

-----------------------------------------------------------------------------
(* The world around.                                                       *)

(* Somebody writes to the bot for the first time (Users.Ensure).           *)
Join(u) ==
    /\ u \notin rows
    /\ rows' = rows \cup {u}
    /\ UNCHANGED <<pending, job, edition, previewed, chats, staged, restarts>>

Edit(m) ==
    /\ edition[m] < MaxEdits
    /\ edition' = [edition EXCEPT ![m] = @ + 1]
    /\ UNCHANGED <<rows, pending, job, previewed, chats, staged, restarts>>

(* Mutant: what is staged survives.                                        *)
StagedAfterRestartKept == pending

(* The map is made anew.                                                   *)
StagedAfterRestart == [a \in Admins |-> Nothing]

(* The process is replaced, in the middle of whatever it was doing.        *)
Restart ==
    /\ restarts < MaxRestarts
    /\ restarts' = restarts + 1
    /\ pending' = StagedAfterRestart
    /\ previewed' = [a \in Admins |-> {}]
    /\ job' = [d \in Deliveries |->
                  IF job[d].at = "running"
                  THEN [job[d] EXCEPT !.at = "gone", !.tick = FALSE] ELSE job[d]]
    /\ UNCHANGED <<rows, edition, chats, staged>>

Next ==
    \/ \E a \in Admins :
           \/ \E p \in Payloads : BroadcastPrepare(a, p) \/ BroadcastTest(a, p)
           \/ BroadcastConfirm(a)
           \/ BroadcastCancel(a)
    \/ \E d \in Deliveries :
           DeliverOne(d) \/ Pace(d) \/ SendReport(d) \/ Panic(d)
    \/ \E u \in Users : Join(u)
    \/ \E m \in Originals : Edit(m)
    \/ Restart

Spec == Init /\ [][Next]_vars

(* A goroutine runs, a ticker fires, a send returns.                       *)
Fairness ==
    \A d \in Deliveries :
        /\ WF_vars(DeliverOne(d)) /\ WF_vars(SendReport(d))
        /\ WF_vars(Pace(d))

FairSpec == Spec /\ Fairness

-----------------------------------------------------------------------------
(* What goes out is what the admin who confirmed it had been shown, in the *)
(* life of this very process: no failure between preview, staging and      *)
(* confirming, and no restart, slips in another message, and a text is the *)
(* one that was shown.  An original is copied anew for every target, and   *)
(* may have been edited since it was shown (BroadcastPrepare, preview).    *)
SentWasPreviewed ==
    \A d \in Deliveries : \A c \in job[d].sent :
        \E s \in job[d].shown : s[1] = c[1] /\ s[2] <= c[2]

(* A staged message goes out once: neither a second confirmation, nor one  *)
(* that crosses a cancellation or a restart, starts another delivery, and  *)
(* a delivery gives nobody two copies (Take, Deliver).                     *)
OncePerStaging ==
    /\ \A a \in Admins :
           Cardinality({d \in Deliveries : job[d].admin = a})
               + (IF pending[a] = Nothing THEN 0 ELSE 1) <= staged[a]
    /\ \A d \in Deliveries, u \in Users : job[d].copies[u] <= 1

(* The report adds up to the audience, claims no delivery that did not     *)
(* take place, and is off only by the failures that went through all the   *)
(* same (Deliver).                                                         *)
ReportAddsUp ==
    \A d \in Deliveries :
        LET j       == job[d]
            reached == Cardinality({u \in Users : j.copies[u] > 0})
        IN  /\ j.delivered + j.failed + Cardinality(j.left) = j.total
            /\ j.delivered <= reached
            /\ reached <= j.delivered + j.failed

(* Nothing leaves the chat of the admins until it is confirmed (README).   *)
NothingLeavesUnconfirmed ==
    \A u \in Users \ Admins :
        chats[u] \subseteq UNION {job[d].sent : d \in Deliveries}

(* A failure for one user does not keep the rest from theirs: unless the   *)
(* process is replaced, or the delivery panics, it comes to its end and a  *)
(* report is sent off.  Whether that arrives rests on the one send it is given (Deliver,  *)
(* BroadcastConfirm).                                                      *)
EveryDeliveryEnds ==
    \A d \in Deliveries :
        job[d].at = "running" ~> job[d].at \in {"reported", "unreported", "gone"}

(* Of all targets but the first each takes up a tick of the delivery's own *)
(* ticker: one to n of them lasts for n - 1 ticks at least, whatever other *)
(* deliveries are under way and however long a send takes (Deliver).       *)
DeliveriesSpaced ==
    \A d \in Deliveries : job[d].delivered + job[d].failed <= job[d].ticks + 1

=============================================================================
