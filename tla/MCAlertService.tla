---------------------------- MODULE MCAlertService ----------------------------
(* Finite instances of AlertService for TLC.                               *)
EXTENDS AlertService, TLC

AllChannels == <<"webhook", "email", "telegram", "unusable">>
OneChannel == <<"webhook">>
OneLevel == {7}
MCDirect == {DowntimeAlert, PerformanceAlert}

(* Callers are interchangeable.                                            *)
SenderSymmetry == Permutations(Senders)
=============================================================================
