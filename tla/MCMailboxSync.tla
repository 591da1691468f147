---------------------------- MODULE MCMailboxSync ----------------------------
(***************************************************************************)
(* A small instance of MailboxSync for TLC: two messages, the second of    *)
(* which has the file of the first, one of its own and one that is no      *)
(* financial document.  Gmail's full scan finds both of them in a mailbox  *)
(* connected when it was empty, or only the first, which was there before; *)
(* so it was in Outlook's.                                                 *)
(***************************************************************************)
EXTENDS MailboxSync

MCAttached == <<{"invoice"}, {"invoice", "bill", "cv"}>>

MCInit ==
  /\ Init
  /\ inbox = IF provider = "gmail" /\ financial = Message THEN 0 ELSE 1
  /\ provider = "outlook" => financial = Message
MCSpec == MCInit /\ [][Next]_vars /\ Fairness
=============================================================================
