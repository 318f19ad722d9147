---------------------------- MODULE EvidenceFeed ----------------------------
(***************************************************************************)
(* What federation promises the readers of an importing instance: they see *)
(* exactly one signed snapshot of the source, move along its chain from a  *)
(* snapshot to one that continues it, and never skip or merge any.         *)
(***************************************************************************)
EXTENDS Naturals, Sequences

CONSTANT Nothing   \* what readers see before the first snapshot

VARIABLES feed,       \* the snapshots the source has signed: [prev, rows, ...]
          position,   \* the snapshot the reader is at, 0 before the first
          kept,       \* the positions of older copies of its file
          shown       \* what the reader sees

feedVars == <<feed, position, kept, shown>>

Content(s) == IF s = 0 THEN Nothing ELSE feed[s].rows

FeedInit ==
  /\ feed = << >>
  /\ position = 0 /\ kept = {}
  /\ shown = Nothing

\* The source signs one more snapshot; nobody sees it yet.
SignNext ==
  /\ Len(feed') = Len(feed) + 1
  /\ \A s \in 1..Len(feed) : feed'[s] = feed[s]
  /\ UNCHANGED <<position, kept, shown>>

\* The reader goes on to a snapshot that continues its own, from nothing to any.
Advance(s) ==
  /\ position = 0 \/ feed[s].prev = position
  /\ position' = s
  /\ shown' = Content(s)
  /\ UNCHANGED <<feed, kept>>

\* A copy of the reader's file is taken, to be put back later.
Keep ==
  /\ kept' = kept \union {position}
  /\ UNCHANGED <<feed, position, shown>>

FallBack(s) ==
  /\ s \in kept
  /\ position' = s /\ shown' = Content(s)
  /\ UNCHANGED <<feed, kept>>

FeedNext ==
  \/ SignNext
  \/ \E s \in 1..Len(feed) : Advance(s)
  \/ Keep
  \/ \E s \in kept : FallBack(s)

FeedSpec == FeedInit /\ [][FeedNext]_feedVars
=============================================================================
