----------------------------- MODULE MCRuntime -----------------------------
(***************************************************************************)
(* Hosts of GameRuntime for TLC: each has its own runs and its own         *)
(* repertoire of calls.                                                    *)
(*   lanes     aborts, submissions, abortAll and failing writes            *)
(*   retire    retirement and registration again of an actor with work     *)
(*   deferred  a run that defers, is resumed, abandoned or retired; the    *)
(*             provider's evidence may fail                                *)
(*   pause     work of two actors behind a deferred run                    *)
(*   abort     abortAll while a run is submitted and an actor retired; a   *)
(*             model call may never answer                                 *)
(*   turns     runs of two actors, one of which defers; no model call      *)
(*             takes for ever                                              *)
(*   again     an actor retired and registered again around a deferred run *)
(*   resume    abortAll while a deferred run is resumed                    *)
(***************************************************************************)
EXTENDS GameRuntime

Guard == "guard"
Merchant == "merchant"
MCActorOf == [r \in Runs |-> IF r = "m1" THEN Merchant ELSE Guard]

Quiet ==
  [name |-> "", started |-> {}, submitted |-> {}, abortable |-> {}, deferrable |-> {},
   abandonable |-> {}, retirable |-> {}, reregistered |-> {}, abortsAll |-> FALSE,
   storeFails |-> FALSE, evidenceFails |-> FALSE, modelsAnswer |-> FALSE]

LanesHost ==
  [Quiet EXCEPT !.name = "lanes", !.started = {"g1", "g2"}, !.submitted = {"m1"},
                !.abortable = {"g2"}, !.abortsAll = TRUE, !.storeFails = TRUE]
RetireHost ==
  [Quiet EXCEPT !.name = "retire", !.started = {"g1", "g2", "m1"}, !.retirable = {Guard},
                !.reregistered = {Guard}, !.storeFails = TRUE]
DeferredHost ==
  [Quiet EXCEPT !.name = "deferred", !.started = {"g2"}, !.submitted = {"g1"}, !.abortable = {"g2"},
                !.deferrable = {"g1"}, !.abandonable = {Guard}, !.retirable = {Guard},
                !.storeFails = TRUE, !.evidenceFails = TRUE]
PauseHost ==
  [Quiet EXCEPT !.name = "pause", !.started = {"g1", "g2", "m1"}, !.abortable = {"g2"},
                !.deferrable = {"g1"}, !.retirable = {Guard}, !.storeFails = TRUE]
AbortHost ==
  [Quiet EXCEPT !.name = "abort", !.started = {"g1"}, !.submitted = {"m1"}, !.retirable = {Guard},
                !.reregistered = {Guard}, !.abortsAll = TRUE]
TurnsHost ==
  [Quiet EXCEPT !.name = "turns", !.started = {"g1", "g2", "m1"}, !.abortable = {"g2"},
                !.deferrable = {"g1"}, !.modelsAnswer = TRUE]
AgainHost ==
  [Quiet EXCEPT !.name = "again", !.started = {"g1", "g2", "g3", "m1"}, !.deferrable = {"g2"},
                !.retirable = {Guard}, !.reregistered = {Guard}]
ResumeHost ==
  [Quiet EXCEPT !.name = "resume", !.started = {"g1", "m1"}, !.deferrable = {"g1"}, !.abortsAll = TRUE]

SafetyHosts == {LanesHost, RetireHost, DeferredHost, PauseHost, AgainHost, ResumeHost}
ProgressHosts == {AbortHost, TurnsHost}
AbandonHosts == {DeferredHost}
=============================================================================
