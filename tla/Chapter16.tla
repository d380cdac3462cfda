----------------------------- MODULE Chapter16 -----------------------------
(***************************************************************************)
(* The algorithms of source/chapter_16.cpp: sum(), distance() and count(), *)
(* the order Nocase, and what its tests do with lists and a stack; with    *)
(* them my_count() (include/util.h), which counts with find().  An         *)
(* iterator is a position, end() the one behind the last element.  Each    *)
(* function is called with every input within the bounds.                  *)
(***************************************************************************)
EXTENDS Integers, SequencesExt, Selection

CONSTANTS Values,    \* elements of the containers
          Letters,   \* characters: [letter, upper]
          MaxLength, MaxString

VARIABLES call,      \* the function and its arguments
          result     \* its result, << >> until it returns

vars == <<call, result>>

Containers == SeqOf(Values, MaxLength)
Strings == SeqOf(Letters, MaxString)

Call(f, x, y, z) == [function |-> f, x |-> x, y |-> y, z |-> z]

\* The calls that are made; the containers of test_lst() are its two lists.
Called == \E c \in Containers, v \in Values :
  \/ \E f \in {"sum", "distance", "test_stk"} : call = Call(f, c, << >>, << >>)
  \/ \E f \in {"count", "my_count"} : call = Call(f, c, <<v>>, << >>)
  \/ \E d \in Containers : call = Call("test_lst", c, d, <<v>>)

Compared == \E x \in Strings, y \in Strings, z \in Strings : call = Call("Nocase", x, y, z)

Launched(on) == /\ IF on THEN Called \/ Compared ELSE call = Call("off", << >>, << >>, << >>)
                /\ result = << >>

-----------------------------------------------------------------------------
sum(c) == FoldLeft(LAMBDA s, x : s + x, 0, c)

\* dist_helper() for input iterators: the steps from first to last.
dist_helper(first, last) ==
  LET d[i \in first..last] == IF i = last THEN 0 ELSE 1 + d[i + 1] IN d[first]

count(c, val) ==
  LET res[first \in 1..(Len(c) + 1)] ==
        IF first = Len(c) + 1 THEN 0
        ELSE res[first + 1] + (IF c[first] = val THEN 1 ELSE 0)
  IN res[1]

\* find(): the first place of val from first on, or end().
find(c, first, val) ==
  LET found == {i \in first..Len(c) : c[i] = val} IN
  IF found = {} THEN Len(c) + 1 ELSE CHOOSE i \in found : \A j \in found : i <= j

\* Faulty variant: the search goes on behind the next element.
AfterTwo(iter) == iter + 2
\* ++iter
After(iter) == iter + 1

my_count(c, val) ==
  LET n[iter \in 1..(Len(c) + 2)] ==
        IF iter > Len(c) THEN 0 ELSE 1 + n[find(c, After(iter), val)]
  IN n[find(c, 1, val)]

toupper(ch) == ch.letter

\* Nocase: p and q stop together, at the first difference or an end.
Nocase(x, y) ==
  LET p == CHOOSE i \in 1..(Len(x) + 1) :
             /\ \A j \in 1..(i - 1) : j <= Len(y) /\ toupper(x[j]) = toupper(y[j])
             /\ i > Len(x) \/ i > Len(y) \/ toupper(x[i]) # toupper(y[i])
  IN IF p > Len(x) THEN p <= Len(y)
                   ELSE p <= Len(y) /\ toupper(x[p]) < toupper(y[p])

\* test_stk(): what top() shows until the stack is empty.
test_stk(c) ==
  LET shown[s \in {SubSeq(c, 1, i) : i \in 0..Len(c)}] ==
        IF s = << >> THEN << >> ELSE <<Last(s)>> \o shown[Front(s)]
  IN shown[c]

\* list::merge(): an element of the other list goes before the first one it is
\* less than; behind an end it takes the rest.
merge(c, d) ==
  LET m[at \in (1..(Len(c) + 1)) \X (1..(Len(d) + 1))] ==
        LET i == at[1]
            j == at[2]
        IN IF i > Len(c) THEN SubSeq(d, j, Len(d))
           ELSE IF j > Len(d) THEN SubSeq(c, i, Len(c))
           ELSE IF d[j] < c[i] THEN <<d[j]>> \o m[<<i, j + 1>>] ELSE <<c[i]>> \o m[<<i + 1, j>>]
  IN m[<<1, 1>>]

remove(c, val) == Selected(c, {i \in DOMAIN c : c[i] # val})

\* test_lst(): merge(), remove() and reverse().
test_lst(fruit, citrus, removed) == Reverse(remove(merge(fruit, citrus), removed))

Value(c) ==
  CASE c.function = "sum" -> sum(c.x)
    [] c.function = "distance" -> dist_helper(1, Len(c.x) + 1)
    [] c.function = "count" -> count(c.x, c.y[1])
    [] c.function = "my_count" -> my_count(c.x, c.y[1])
    [] c.function = "test_stk" -> test_stk(c.x)
    [] c.function = "test_lst" -> test_lst(c.x, c.y, c.z[1])
    [] c.function = "Nocase" -> <<Nocase(c.x, c.y), Nocase(c.y, c.z), Nocase(c.x, c.z)>>

Return == /\ call.function # "off" /\ result = << >>
          /\ result' = <<Value(call)>> /\ UNCHANGED call

Next == Return

-----------------------------------------------------------------------------
Occurrences(c, v) == Cardinality({i \in DOMAIN c : c[i] = v})
Ascends(c) == \A i, j \in DOMAIN c : i < j => c[i] <= c[j]
Upper(x) == [i \in DOMAIN x |-> toupper(x[i])]
Precedes(x, y) == \/ IsStrictPrefix(Upper(x), Upper(y))
                  \/ \E i \in DOMAIN x \cap DOMAIN y :
                       /\ SubSeq(Upper(x), 1, i - 1) = SubSeq(Upper(y), 1, i - 1)
                       /\ toupper(x[i]) < toupper(y[i])

\* A loop over iterators gives what the containers hold, both ways of counting
\* agree, Nocase is the order of the upper-case strings and so what sort() needs,
\* and the lists of test_lst() lose what is removed and nothing else, although
\* merge() is given a list that is not sorted.
ResultsRight == result # << >> =>
  LET r == result[1]
      c == call.x IN
  CASE call.function = "sum" -> r = FoldSet(LAMBDA v, s : s + v * Occurrences(c, v), 0, Range(c))
    [] call.function = "distance" -> r = Len(c)
    [] call.function \in {"count", "my_count"} -> r = Occurrences(c, call.y[1])
    [] call.function = "test_stk" -> r = Reverse(c)
    [] call.function = "test_lst" ->
         /\ \A v \in Values : Occurrences(r, v) = IF <<v>> = call.z THEN 0
                                                  ELSE Occurrences(c, v) + Occurrences(call.y, v)
         /\ Ascends(c) /\ Ascends(call.y) => Ascends(Reverse(r))
    [] call.function = "Nocase" ->
         /\ r = <<Precedes(c, call.y), Precedes(call.y, call.z), Precedes(c, call.z)>>
         /\ r[1] /\ r[2] => r[3]
         /\ r[3] => r[1] \/ r[2]
=============================================================================
