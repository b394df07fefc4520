----------------------------- MODULE MCAccounts -----------------------------
(***************************************************************************)
(* Small instances of Accounts, with a history of the e-mails for which a  *)
(* call failed or the 24 hours of a token passed.                          *)
(***************************************************************************)
EXTENDS Accounts

VARIABLE unlucky

HistoryInit == Init /\ unlucky = {}

\* The e-mail a request is about once there is a row.
Subject(r) == IF pc[r] \in {"get", "del", "update", "setToken"} THEN {issued[token[r]]} ELSE {}

HistoryNext ==
  \/ \E r \in Requests :
       \/ (Ask(r) \/ Work(r)) /\ UNCHANGED unlucky
       \/ CallFails(r) /\ unlucky' = unlucky \cup Subject(r)
  \/ \E t \in Tokens :
       \/ (Follow(t) \/ SendMail(t, TRUE)) /\ UNCHANGED unlucky
       \/ (MailFails(t) \/ TokenExpires(t)) /\ unlucky' = unlucky \cup {issued[t]}
  \/ \E e \in Emails : (LogOutUser(e) \/ SecretExpires(e)) /\ UNCHANGED unlucky

FairHistorySpec == HistoryInit /\ [][HistoryNext]_<<vars, unlucky>> /\ Fairness

\* Nobody who registers is stuck with a row he cannot verify, for the name and
\* the address are taken for ever: not by following a link twice or at the same
\* time, only by a call that failed or a token that expired.
NotStuckUnlessUnlucky ==
  \A e \in Registered \ verified : e \in unlucky \/ Hopeful(e)

\* Who registers and follows the link is verified in the end.
EveryoneVerified ==
  \A e \in Emails : e \in Registered ~> (e \in verified \/ e \in unlucky)
=============================================================================
