------------------------------ MODULE MCAlerts ------------------------------
(* TLC instances of Alerts: the job of a payment, one replay job, one       *)
(* operator and two processes, for some users' channels and fault sets.     *)
EXTENDS Alerts, TLC

CONSTANTS job, replay, operator, p1, p2
AllJobs == { job, replay }
TwoProcesses == { p1, p2 }
Setup(channels, kinds, n, m) ==
  [ route |-> channels, faults |-> kinds, attempts |-> n, manual |-> m ]
SomeSetups ==
  { Setup(<< >>, {}, 1, 0),
    Setup(<< "webhook", "email" >>, { "lostReply" }, 2, 1),
    Setup(<< "email" >>, {}, 1, 2),
    Setup(<< "whatsapp", "email" >>, {}, 1, 1),
    Setup(<< "telegram", "discord", "email" >>, {}, 1, 1),
    Setup(<< "email", "push" >>, {}, 1, 1),
    Setup(<< "email" >>, { "crash" }, 2, 1),
    Setup(<< "webhook", "push" >>, { "db" }, 1, 1),
    Setup(<< "slack" >>, { "db" }, 1, 1) }
=============================================================================
