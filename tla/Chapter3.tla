----------------------------- MODULE Chapter3 -----------------------------
(***************************************************************************)
(* The test functions of source/chapter_3.cpp that compute: test_ppl(),    *)
(* with one task per number, test_alg(), test_map() and test_rwf().        *)
(***************************************************************************)
EXTENDS Naturals, SequencesExt, Selection

CONSTANTS Numbers,   \* test_ppl()'s array a, ascending
          Book,      \* test_alg()'s phone_book_vec: entries [name, number]
          Words, MaxWords,  \* words are numbers, in their order
          Many       \* the 4 of gt_4()

VARIABLES test,      \* the test that runs, or "off"
          at,        \* "run", "sort", "end" or "crashed"
          results1,  \* test_ppl(): the serial results
          results2,  \* the parallel ones
          todo,      \* the numbers whose task has not pushed its result
          words,     \* the words test_map() or test_rwf() has read
          histogram,
          printed    \* what test_alg(), test_map() and test_rwf() put out

vars == <<test, at, results1, results2, todo, words, histogram, printed>>

Launched(on) ==
  /\ test \in IF on THEN {"test_ppl", "test_alg", "test_map", "test_rwf"} ELSE {"off"}
  /\ at = "run" /\ results1 = << >> /\ results2 = << >> /\ todo = Range(Numbers)
  /\ words = << >> /\ histogram = [w \in Words |-> 0] /\ printed = << >>

-----------------------------------------------------------------------------
(* The algorithms.                                                         *)

\* sort() is not stable: any order of equal elements.
SortedBy(s, Less(_, _)) ==
  {b \in [DOMAIN s -> Range(s)] :
     /\ \A i, j \in DOMAIN s : i < j => ~Less(b[j], b[i])
     /\ \A x \in Range(s) : Cardinality({i \in DOMAIN s : b[i] = x})
                              = Cardinality({i \in DOMAIN s : s[i] = x})}

\* unique_copy(): the first of each run of equal elements.
UniqueCopy(s, Equal(_, _)) ==
  Selected(s, {i \in DOMAIN s : i = 1 \/ ~Equal(s[i - 1], s[i])})

-----------------------------------------------------------------------------
(* test_ppl().                                                             *)

fibonacci[n \in Nat] == IF n < 2 THEN n ELSE fibonacci[n - 1] + fibonacci[n - 2]

Result(n) == <<n, fibonacci[n]>>

ForEach == /\ test = "test_ppl" /\ at = "run" /\ results1 = << >>
           /\ results1' = [i \in DOMAIN Numbers |-> Result(Numbers[i])]
           /\ UNCHANGED <<test, at, results2, todo, words, histogram, printed>>

\* A task of parallel_for_each() is done; push_back() is atomic.
Task(n) == /\ test = "test_ppl" /\ results1 # << >> /\ n \in todo
           /\ results2' = Append(results2, Result(n)) /\ todo' = todo \ {n}
           /\ UNCHANGED <<test, at, results1, words, histogram, printed>>

TupleLess(s, t) == s[1] < t[1] \/ (s[1] = t[1] /\ s[2] < t[2])

\* Faulty variant: the results stay in the order in which they came.
SortedNot(s) == {s}
Sorted(s) == SortedBy(s, TupleLess)

\* parallel_for_each() has returned.
Sort == /\ test = "test_ppl" /\ at = "run" /\ results1 # << >> /\ todo = {}
        /\ results2' \in Sorted(results2) /\ at' = "end"
        /\ UNCHANGED <<test, results1, todo, words, histogram, printed>>

-----------------------------------------------------------------------------
(* test_alg(), with the operators of Entry.                                *)

EntryLess(d, e) == d.name < e.name
EntryEqual(d, e) == d.name = e.name

TestAlg == /\ test = "test_alg" /\ at = "run" /\ at' = "end"
           /\ \E book \in SortedBy(Book, EntryLess) : printed' = UniqueCopy(book, EntryEqual)
           /\ UNCHANGED <<test, results1, results2, todo, words, histogram>>

-----------------------------------------------------------------------------
(* test_map() and test_rwf().                                              *)

Read == /\ test \in {"test_map", "test_rwf"} /\ at = "run" /\ Len(words) < MaxWords
        /\ \E w \in Words :
             /\ words' = Append(words, w)
             /\ histogram' = IF test = "test_map" THEN [histogram EXCEPT ![w] = @ + 1] ELSE histogram
        /\ UNCHANGED <<test, at, results1, results2, todo, printed>>

\* Faulty variant: the word is common enough with 4 occurrences.
Ge4(w) == histogram[w] >= Many
Gt4(w) == histogram[w] > Many

\* The end of the file, and find_if(): it dereferences what it finds, the end
\* of the map if no word is common.
FindIf == /\ test = "test_map" /\ at = "run"
          /\ IF \E w \in Words : Gt4(w)
             THEN /\ at' = "end"
                  /\ printed' = <<CHOOSE w \in Words : Gt4(w) /\ \A v \in Words : Gt4(v) => w <= v>>
             ELSE at' = "crashed" /\ UNCHANGED printed
          /\ UNCHANGED <<test, results1, results2, todo, words, histogram>>

WordLess(v, w) == v < w
WordEqual(v, w) == v = w

SortAndWrite == /\ test = "test_rwf" /\ at = "run" /\ at' = "end"
                /\ \E b \in SortedBy(words, WordLess) : printed' = UniqueCopy(b, WordEqual)
                /\ UNCHANGED <<test, results1, results2, todo, words, histogram>>

Next == \/ ForEach \/ (\E n \in Range(Numbers) : Task(n)) \/ Sort
        \/ TestAlg \/ Read \/ FindIf \/ SortAndWrite

-----------------------------------------------------------------------------
Ascending(s) == \A i, j \in DOMAIN s : i < j => s[i] < s[j]
Occurrences(w) == Cardinality({i \in DOMAIN words : words[i] = w})

\* In whatever order the tasks end, the parallel results are the serial ones;
\* of the entries of one name one is listed; the most of a word is found where
\* there is one, and only there; every word is written once.
ResultsRight ==
  /\ test = "test_ppl" /\ at = "end" => results2 = results1
  /\ test = "test_alg" /\ at = "end" =>
       /\ Ascending([i \in DOMAIN printed |-> printed[i].name])
       /\ Range(printed) \subseteq Range(Book)
       /\ {e.name : e \in Range(printed)} = {e.name : e \in Range(Book)}
  /\ test = "test_map" /\ at = "end" => Occurrences(printed[1]) > Many
  /\ test = "test_map" /\ at = "crashed" => \A w \in Words : Occurrences(w) <= Many
  /\ test = "test_rwf" /\ at = "end" => Ascending(printed) /\ Range(printed) = Range(words)
=============================================================================
