------------------------------ MODULE MCMailbox ------------------------------
(***************************************************************************)
(* Topologies of mailboxes for model checking: the hardware daemon sends   *)
(* commands to the main application, which sends requests to the database  *)
(* gateway, which sends its replies back.                                  *)
(***************************************************************************)
EXTENDS MailboxProps

CONSTANTS hw, main, db, watchdog

(* The way of a command without the replies: two senders share a receiver, *)
(* which is itself a sender.                                               *)
CommandLinks == {<<hw, main>>, <<watchdog, main>>, <<main, db>>}
HwNotice == {<<hw, main>>}

(* Two senders that share a receiver; one of them sends notices as well.   *)
StarLinks == {<<hw, main>>, <<db, main>>}
DbNotice == {<<db, main>>}

(* main sends requests and the gateway sends its replies: both with send() *)
RequestReplyLinks == {<<main, db>>, <<db, main>>}

(* The links of the running system.                                        *)
SystemLinks == {<<hw, main>>} \cup RequestReplyLinks

MainDb == {main, db}
MainOnly == {main}
NoPairs == {}
Timed == {{"TIMED"}}
Mixed == {{"NORMAL"}, {"TIMED"}, {"NONBLOCKING"}, {"TIMED", "IGNORE_QUEUE"}}
=============================================================================
