----------------------------- MODULE MCCheckpoint -----------------------------
(* A small program for TLC: two meshes, a function and two vectors.        *)
EXTENDS Checkpoint

(* One program writes one checkpoint over and over and resets the counter   *)
(* as it likes; a careful one writes two checkpoints.                      *)
MCPrograms ==
  { [objects |-> [mesh |-> <<"fluid", "solid">>, function |-> <<"u">>, vector |-> <<"x">>],
     last |-> 0, careful |-> FALSE],
    [objects |-> [mesh |-> <<>>, function |-> <<>>, vector |-> <<"y">>],
     last |-> 1, careful |-> TRUE] }

Alone(k) == [r \in 0 .. 0 |-> k]
Both(k, l) == [r \in 0 .. 1 |-> IF r = 0 THEN k ELSE l]

MCSizes ==
  [p \in {1, 2} |->
    IF p = 1
    THEN [mesh |-> [fluid |-> [coords |-> Alone(2), cells |-> Alone(1)],
                    solid |-> [coords |-> Alone(1), cells |-> Alone(1)]],
          function |-> [u |-> [values |-> Alone(2)]],
          vector |-> [x |-> [values |-> Alone(1)], y |-> [values |-> Alone(2)]]]
    ELSE [mesh |-> [fluid |-> [coords |-> Both(2, 1), cells |-> Both(1, 1),
                               mapping |-> Both(2, 1), ghosts |-> Both(0, 2)],
                    solid |-> [coords |-> Both(1, 0), cells |-> Both(1, 0),
                               mapping |-> Both(1, 0), ghosts |-> Both(0, 0)]],
          function |-> [u |-> [values |-> Both(1, 1)]],
          vector |-> [x |-> [values |-> Both(0, 1)], y |-> [values |-> Both(1, 1)]]]]

MCSizeOf == [checkpoint |-> 2, uint |-> 1, mesh |-> 3, function |-> 2, vector |-> 2,
             coords |-> 2, cells |-> 1, mapping |-> 1, ghosts |-> 1, values |-> 2]
MCParamSize == [i \in 0 .. 2 |-> 1 + (i % 2)]
===============================================================================
