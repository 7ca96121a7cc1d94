----------------------------- MODULE ActorMail -----------------------------
(***************************************************************************)
(* Actors as mailboxes: what a turn of one actor does to the mailboxes of   *)
(* all.  `box' maps every actor to the queue of its messages; a turn takes  *)
(* the head of one queue and tells messages to other actors.  A Tell to an  *)
(* actor that is not running returns ErrDead and changes nothing.           *)
(***************************************************************************)
LOCAL INSTANCE Sequences
LOCAL INSTANCE Integers

Msg(t) == [t |-> t]

\* tells is a sequence of pairs <<actor, message>>.
MessagesTo(q, tells) ==
    LET mine == SelectSeq(tells, LAMBDA e : e[1] = q) IN [i \in DOMAIN mine |-> mine[i][2]]

Told(box, live, tells) ==
    [q \in DOMAIN box |-> IF q \in live THEN box[q] \o MessagesTo(q, tells) ELSE box[q]]

\* After a turn of p; a stopped actor's mailbox is gone.
AfterTurn(box, live, p, stops, tells) ==
    [q \in DOMAIN box |->
        IF q = p THEN IF stops THEN <<>> ELSE Tail(box[p]) \o MessagesTo(p, tells)
        ELSE IF q \in live THEN box[q] \o MessagesTo(q, tells) ELSE box[q]]
===========================================================================
