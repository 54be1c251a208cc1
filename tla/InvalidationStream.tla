-------------------------- MODULE InvalidationStream --------------------------
(***************************************************************************)
(* The events that tell an open browser page to read again.                *)
(*                                                                         *)
(* The server numbers its events from 1, keeps the last of them and        *)
(* replays some to a page that connects; a restart forgets them all.  The  *)
(* page asks for everything after 0 on every connection, drops what it has *)
(* seen on this one, and collects what arrives within 25 ms into a batch.  *)
(* A page is notified when a connection opens and with every batch; what   *)
(* its hooks then do is up to the module that extends this one.  Events    *)
(* are numbers here: the hook modelled reads again on an event of any kind *)
(***************************************************************************)
EXTENDS Integers, Sequences, FiniteSetsExt

CONSTANTS
  Keep,       \* events the server retains
  Replay      \* events it replays to a new connection

ASSUME StreamAssumption == {Keep, Replay} \subseteq Nat \ {0}

VARIABLES
  sequence,   \* events the server published since it started
  link,       \* the page's EventSource: down, accepted by the server, or open
  wire,       \* numbers of the events on their way to the page
  after       \* the last number the connection delivered

stream == <<sequence, link, wire, after>>

StreamTypeOK ==
  /\ sequence \in Nat /\ after \in Nat
  /\ link \in {"down", "accepted", "open"}
  /\ wire \in Seq(1..sequence)

StreamInit == sequence = 0 /\ link = "open" /\ wire = <<>> /\ after = 0

\* publish(): the listener of a connection writes the event to it.
Publishes ==
  /\ sequence' = sequence + 1
  /\ wire' = IF link = "down" THEN wire ELSE Append(wire, sequence + 1)
  /\ UNCHANGED <<link, after>>

\* list(0): the oldest of the events that are kept.
Replayed ==
  LET first == Max({0, sequence - Keep})
  IN  [i \in 1..Min({Replay, sequence - first}) |-> first + i]

\* Every connection starts from nothing: the numbers of an earlier server
\* process mean nothing to the next.
FirstCursor(seen) == 0

\* The page asks for all events; the server replays and subscribes in one
\* stretch of its event loop.
Connects ==
  /\ link = "down"
  /\ link' = "accepted" /\ wire' = Replayed
  /\ UNCHANGED <<sequence, after>>

\* onopen: the page is notified.
Opens ==
  /\ link = "accepted"
  /\ link' = "open"
  /\ UNCHANGED <<sequence, wire, after>>

\* A batch of events arrives; the page is notified of those it has not seen.
Arrives(count) ==
  /\ link = "open" /\ count \in DOMAIN wire
  /\ wire' = SubSeq(wire, count + 1, Len(wire))
  /\ after' = Max({after} \cup {wire[i] : i \in 1..count})
  /\ UNCHANGED <<sequence, link>>

Unseen(count) == \E i \in 1..count : wire[i] > after

Drops ==
  /\ link # "down"
  /\ link' = "down" /\ wire' = <<>> /\ after' = FirstCursor(after)
  /\ UNCHANGED sequence

ServerRestarts ==
  /\ sequence' = 0 /\ link' = "down" /\ wire' = <<>>
  /\ after' = FirstCursor(after)
=============================================================================
