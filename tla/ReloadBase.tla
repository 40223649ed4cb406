----------------------------- MODULE ReloadBase -----------------------------
(***************************************************************************)
(* What the air-attack base promises its tankers: at most Slots of them    *)
(* reload at once, those that find no slot wait in one line, the line is   *)
(* served in order of arrival, and nobody is turned into the line while a  *)
(* slot is free and the line is empty.  ARCHITECTURE.md states the order   *)
(* ("queue order is FIFO"); Wildfire.tla is shown to implement it.         *)
(***************************************************************************)
EXTENDS Naturals, Sequences, FiniteSets

CONSTANTS Tanker,   \* the tankers that may come to reload
          Slots     \* the number of reload positions

VARIABLES serving,  \* the tankers on a reload position
          line      \* the tankers waiting for one, in order of arrival

vars == <<serving, line>>

InLine == {line[i] : i \in DOMAIN line}

Room == Cardinality(serving) < Slots

Init ==
  /\ serving = {}
  /\ line = <<>>

(* A tanker goes straight to a free position when nobody is ahead of it. *)
Admit(t) ==
  /\ t \notin serving
  /\ line = <<>>
  /\ Room
  /\ serving' = serving \union {t}
  /\ UNCHANGED line

(* A tanker that finds no position, or others ahead of it, joins the line. *)
Join(t) ==
  /\ t \notin serving \union InLine
  /\ line # <<>> \/ ~Room
  /\ line' = Append(line, t)
  /\ UNCHANGED serving

(* The tanker at the front of the line takes a position that became free. *)
Serve ==
  /\ line # <<>>
  /\ Room
  /\ serving' = serving \union {Head(line)}
  /\ line' = Tail(line)

Leave(t) ==
  /\ t \in serving
  /\ serving' = serving \ {t}
  /\ UNCHANGED line

Next ==
  \/ \E t \in Tanker : Admit(t) \/ Join(t) \/ Leave(t)
  \/ Serve

Spec ==
  /\ Init
  /\ [][Next]_vars
  /\ WF_vars(Serve)
  /\ \A t \in Tanker : WF_vars(Leave(t))

Safe == Init /\ [][Next]_vars
=============================================================================
