---------------------------- MODULE MCClientLife ----------------------------
(* Instances of ClientLife for TLC. A cast is what meets in one behaviour.  *)
EXTENDS ClientLife

TwoZones == <<"spamhaus", "spamcop">>

Meetings == {
  [claude |-> 3, fault |-> 2],
  [ask |-> 2, fault |-> 1],
  [night |-> 0, close |-> 1, delete |-> 1, fault |-> 1],
  [night |-> 0, close |-> 1, row |-> 1, fault |-> 1],
  [delete |-> 2, mail |-> 2, row |-> 1, fault |-> 1],
  [drift |-> 0, record |-> 2, lookup |-> 1, fault |-> 1],
  [hunt |-> 3, listing |-> 1, tick |-> 1, fault |-> 1],
  [hunt |-> 2, listing |-> 2, tick |-> 2, fault |-> 0],
  [hunt |-> 1, listing |-> 1, tick |-> 2, sweep |-> 1, fault |-> 1],
  [answer |-> 2, preview |-> 1, optout |-> 1, retire |-> 1, lost |-> 2, refused |-> 2, fault |-> 1],
  [nightly |-> 0, event |-> 2, backfill |-> 1, fault |-> 0],
  [nightly |-> 0, event |-> 1, erase |-> 1, backfill |-> 1, fault |-> 0],
  [nightly |-> 0, event |-> 1, backfill |-> 1, fault |-> 1] }
=============================================================================
