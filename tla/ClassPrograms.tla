--------------------------- MODULE ClassPrograms ---------------------------
(***************************************************************************)
(* The classes and the exercises that run in one thread, and the parallel  *)
(* loop of test_ppl(): ScopeGuards, Buffers, Blobs, Chapter3, Chapter16.   *)
(* They share nothing; one of them is used.                                *)
(***************************************************************************)
EXTENDS Integers, SequencesExt

CONSTANTS Resources, MaxGuards,
          Objects, Sizes, DefaultSize,
          Handles, Vectors, Elements, MaxSize,
          Numbers, Book, Words, MaxWords, Many,
          Values, Letters, MaxLength, MaxString,
          Nothing

ASSUME ClassAssumption ==
  /\ MaxGuards \in Nat /\ MaxSize \in Nat \ {0} /\ MaxWords \in Nat /\ Many \in Nat
  /\ MaxLength \in Nat /\ MaxString \in Nat
  /\ Sizes \subseteq Nat /\ DefaultSize \in Nat \ {0} /\ Nothing \notin Nat \cup Vectors
  /\ Nothing \notin Seq(Elements)
  /\ Numbers \in Seq(Nat) /\ \A i, j \in DOMAIN Numbers : i < j => Numbers[i] < Numbers[j]
  /\ Book \in Seq([name : Nat, number : Nat]) /\ Words \subseteq Nat
  /\ Values \subseteq Int /\ \A ch \in Letters : ch.letter \in Int

VARIABLES gpc, acquired, guards, released, kept, unguarded, moved,
          size, array, broken, outcome,
          data, vector, access,
          test, at, results1, results2, todo, words, histogram, shown,
          call, result

guardVars == <<gpc, acquired, guards, released, kept, unguarded, moved>>
bufferVars == <<size, array, broken, outcome>>
blobVars == <<data, vector, access>>
ch3Vars == <<test, at, results1, results2, todo, words, histogram, shown>>
ch16Vars == <<call, result>>
classVars == <<guardVars, bufferVars, blobVars, ch3Vars, ch16Vars>>

Guards == INSTANCE ScopeGuards
Buffer == INSTANCE Buffers WITH None <- Nothing
Blob == INSTANCE Blobs WITH None <- Nothing
Ch3 == INSTANCE Chapter3 WITH printed <- shown
Ch16 == INSTANCE Chapter16

ClassLaunched(program) ==
  /\ Guards!Launched(program = "guards") /\ Buffer!Launched(program = "buffers")
  /\ Blob!Launched(program = "blobs") /\ Ch3!Launched(program = "chapter_3")
  /\ Ch16!Launched(program = "chapter_16")

ClassInit == \E program \in {"guards", "buffers", "blobs", "chapter_3", "chapter_16"} :
               ClassLaunched(program)

\* The scope is left, the test or the function has returned, or nothing goes on.
ClassReturned == \/ gpc \in {"left", "terminated"} \/ outcome \in {"aborted", "crashed"}
                 \/ at \in {"end", "crashed"} \/ result # << >>

ClassNext ==
  \/ Guards!Next /\ UNCHANGED <<bufferVars, blobVars, ch3Vars, ch16Vars>>
  \/ Buffer!Next /\ UNCHANGED <<guardVars, blobVars, ch3Vars, ch16Vars>>
  \/ Blob!Next /\ UNCHANGED <<guardVars, bufferVars, ch3Vars, ch16Vars>>
  \/ Ch3!Next /\ UNCHANGED <<guardVars, bufferVars, blobVars, ch16Vars>>
  \/ Ch16!Next /\ UNCHANGED <<guardVars, bufferVars, blobVars, ch3Vars>>
  \/ ClassReturned /\ UNCHANGED classVars

-----------------------------------------------------------------------------
\* The type invariants.
ClassTypeOK == Guards!TypeOK /\ Buffer!TypeOK /\ Blob!TypeOK

\* ~ScopeGuard() (ScopeGuard.h:22), Buffer (chapter_10.cpp:54) and Blob
\* (Blob.hpp:41): through every sequence of copies, moves, assignments and
\* failures what an object owns is released once, its size is right unless an
\* operator= has thrown, and what several handles share outlives none of them.
ObjectsAreSound == Guards!ReleasedOnce /\ Buffer!SizesAreRight /\ Blob!SharedSafely

\* test_ppl() and others (chapter_3.cpp:182, 222, 250, 292) and the functions of
\* chapter_16.cpp: what they compute is what its definition says, in whatever
\* order parallel tasks end and equal elements are sorted.
ResultsRight == Ch3!ResultsRight /\ Ch16!ResultsRight
=============================================================================
