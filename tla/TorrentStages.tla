---------------------------- MODULE TorrentStages ----------------------------
(***************************************************************************)
(* What Session promises about each torrent, whatever jobs and alerts are  *)
(* under way: the stages of its life and the order of the stages.          *)
(***************************************************************************)
CONSTANT Hashes
VARIABLE stage

Stages == {"unknown", "adding", "preloading", "preloaded", "added"}

\* The steps from one stage to another.
Steps == {<<"unknown", "adding">>, <<"adding", "added">>,
          <<"unknown", "preloading">>, <<"preloading", "preloaded">>,
          <<"preloaded", "unknown">>,
          \* a preloaded torrent is added, or its loading is cancelled
          <<"preloading", "added">>, <<"preloaded", "added">>, <<"preloading", "unknown">>,
          \* a torrent is deleted
          <<"added", "unknown">>}

Move(h) ==
  \E to \in Stages : <<stage[h], to>> \in Steps /\ stage' = [stage EXCEPT ![h] = to]

\* What was asked for happens in the end.
Leaves(h, from) == stage[h] = from ~> stage[h] # from

StagesInit == stage = [h \in Hashes |-> "unknown"]

StagesSpec ==
  /\ StagesInit
  /\ [][\E h \in Hashes : Move(h)]_stage
  /\ \A h \in Hashes : Leaves(h, "adding") /\ Leaves(h, "preloading") /\ Leaves(h, "preloaded")
=============================================================================
