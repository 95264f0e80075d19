------------------------------ MODULE FilterGraph ------------------------------
(***************************************************************************)
(* The filter objects of an application: it holds some of them, chains them *)
(* with operator|, which changes its left side, drops them, and has          *)
(* discoveries call them. Objects live as long as they are referenced.       *)
(*                                                                         *)
(* Filters takes a chain for a sequence; here it is what one finds going     *)
(* depth-first through the objects. An application that chains a filter to   *)
(* one it is reached from gets a call without end; it is assumed not to.     *)
(***************************************************************************)
EXTENDS Naturals, Sequences, FiniteSets, SequencesExt

CONSTANTS
  Filter,    \* the objects there may be at one time
  Variable,  \* the application's variables of type FilterPtr
  MaxNext,   \* bound on the filters chained to one object
  Null       \* a FilterPtr without an object

ASSUME ObjectsAssumption ==
  /\ IsFiniteSet(Filter) /\ IsFiniteSet(Variable)
  /\ Null \notin Filter

VARIABLES
  next_,       \* next_[f]: the filters chained to f
  references,  \* references[f]: its count of lunchbox::Referenced, 0 for no object
  ptr,         \* ptr[v]: the object the variable refers to, or Null
  dropped,     \* the references being given up, the next one first
  frames,      \* the calls of operator() in progress, the innermost last
  verdict,     \* "pass" or "fail" while one of them has returned it, else "none"
  passing,     \* the filters whose own test the candidate passes
  called       \* history: the filters called for the candidate

callVars == <<frames, verdict, passing, called>>
vars == <<next_, references, ptr, dropped, callVars>>

Init ==
  /\ next_ = [f \in Filter |-> << >>]
  /\ references = [f \in Filter |-> 0]
  /\ ptr = [v \in Variable |-> Null]
  /\ dropped = << >>
  /\ frames = << >> /\ verdict = "none" /\ passing = {} /\ called = << >>

Exists(f) == references[f] > 0

\* The application runs: no call and no assignment is in progress.
Idle == dropped = << >> /\ called = << >>

Closed(objects) == \A f \in objects : ToSet(next_[f]) \subseteq objects

\* The given objects and everything chained to them.
Reached(objects) ==
  {f \in Filter : \A all \in SUBSET Filter : objects \subseteq all /\ Closed(all) => f \in all}

\* The filters a call of each filter calls while all of them pass, in their order.
FlatIn(chains) ==
  LET flat[n \in 0 .. Cardinality(Filter)] ==
        [g \in Filter |->
           IF n = 0 THEN << >>
           ELSE <<g>> \o FlattenSeq([i \in DOMAIN chains[g] |-> flat[n - 1][chains[g][i]]])]
  IN flat[Cardinality(Filter)]

Flat(f) == FlatIn(next_)[f]

-------------------------------------------------------------------------------
(* What the application does with its variables.                            *)

\* Referring to f, v gives up the object it referred to.
Refer(v, f) ==
  /\ ptr' = [ptr EXCEPT ![v] = f]
  /\ dropped' = IF ptr[v] = Null THEN << >> ELSE <<ptr[v]>>

\* v = new ...Filter
New(v) ==
  /\ Idle
  /\ \E f \in Filter :
       /\ ~Exists(f)
       /\ references' = [references EXCEPT ![f] = 1]
       /\ Refer(v, f)
  /\ UNCHANGED <<next_, callVars>>

\* v = w
Assign(v, w) ==
  /\ Idle
  /\ ptr[w] # Null
  /\ references' = [references EXCEPT ![ptr[w]] = @ + 1]
  /\ Refer(v, ptr[w])
  /\ UNCHANGED <<next_, callVars>>

\* v = 0, or the end of its scope
Reset(v) ==
  /\ Idle
  /\ ptr[v] # Null
  /\ Refer(v, Null)
  /\ UNCHANGED <<next_, references, callVars>>

ReferencedOnce(left, right) ==
  [f \in Filter |-> references[f] + IF f = left THEN 1 ELSE 0]

ChainedInFront(left, right) == [next_ EXCEPT ![left] = <<right>> \o @]

\* operator| keeps a reference to its right side and returns one to its left.
Chained(left, right) == [next_ EXCEPT ![left] = Append(@, right)]
Referenced(left, right) ==
  [f \in Filter |->
     references[f] + (IF f = left THEN 1 ELSE 0) + (IF f = right THEN 1 ELSE 0)]

\* v = a | b; with v = a it is a |= b.
Chain(v, a, b) ==
  /\ Idle
  /\ ptr[a] # Null /\ ptr[b] # Null
  /\ Len(next_[ptr[a]]) < MaxNext
  /\ ptr[a] \notin Reached({ptr[b]})
  /\ next_' = Chained(ptr[a], ptr[b])
  /\ references' = Referenced(ptr[a], ptr[b])
  /\ Refer(v, ptr[a])
  /\ UNCHANGED callVars

\* A discovery calls its filter with a candidate, which each filter may pass.
Call(v) ==
  /\ Idle
  /\ ptr[v] # Null
  /\ passing' \in SUBSET Reached({ptr[v]})
  /\ frames' = <<[filter |-> ptr[v], i |-> 0]>>
  /\ called' = <<ptr[v]>>
  /\ references' = [references EXCEPT ![ptr[v]] = @ + 1]
  /\ UNCHANGED <<next_, ptr, dropped, verdict>>

\* ... and goes on with what it returned.
TakeVerdict ==
  /\ verdict # "none" /\ frames = << >> /\ dropped = << >>
  /\ verdict' = "none" /\ passing' = {} /\ called' = << >>
  /\ UNCHANGED <<next_, references, ptr, dropped, frames>>

-------------------------------------------------------------------------------
\* One reference is given up. With the last one the object is deleted, and
\* gives up the filters chained to it.
KeptNext(f) == << >>

DeletedNext(f) == next_[f]

Unref ==
  /\ dropped # << >>
  /\ LET f == Head(dropped)
         last == references[f] = 1
     IN /\ references' = [references EXCEPT ![f] = @ - 1]
        /\ next_' = IF last THEN [next_ EXCEPT ![f] = << >>] ELSE next_
        /\ dropped' = (IF last THEN DeletedNext(f) ELSE << >>) \o Tail(dropped)
  /\ UNCHANGED <<ptr, callVars>>

Frame == frames[Len(frames)]
Running == frames # << >> /\ verdict = "none" /\ dropped = << >>
AtTest == Running /\ Frame.i = 0

\* operator() of the innermost call returns; its caller gives up the reference
\* it has held for the time of the call.
ReturnVerdict(result) ==
  /\ verdict' = result
  /\ frames' = Front(frames)
  /\ dropped' = <<Frame.filter>>
  /\ UNCHANGED <<next_, references, ptr, passing, called>>

TestFails ==
  /\ AtTest
  /\ Frame.filter \notin passing
  /\ ReturnVerdict("fail")

CalledAgain == [frames EXCEPT ![Len(frames)].i = 0]

\* A filter that passes the candidate calls Filter::operator().
CalledBase == [frames EXCEPT ![Len(frames)].i = 1]

TestPasses ==
  /\ AtTest
  /\ Frame.filter \in passing
  /\ frames' = CalledBase
  /\ UNCHANGED <<next_, references, ptr, dropped, verdict, passing, called>>

InLoop == Running /\ Frame.i > 0

CallNext ==
  /\ InLoop
  /\ Frame.i <= Len(next_[Frame.filter])
  /\ LET f == next_[Frame.filter][Frame.i] IN
       /\ frames' = Append(frames, [filter |-> f, i |-> 0])
       /\ called' = Append(called, f)
       /\ references' = [references EXCEPT ![f] = @ + 1]
  /\ UNCHANGED <<next_, ptr, dropped, verdict, passing>>

EndLoop ==
  /\ InLoop
  /\ Frame.i > Len(next_[Frame.filter])
  /\ ReturnVerdict("pass")

NextReturned == frames # << >> /\ dropped = << >> /\ verdict # "none"

NextPassed == frames # << >> /\ dropped = << >> /\ verdict = "pass"

NextFailed == frames # << >> /\ dropped = << >> /\ verdict = "fail"

\* The next filter of the loop has passed the candidate ...
GoOn ==
  /\ NextPassed
  /\ frames' = [frames EXCEPT ![Len(frames)].i = @ + 1]
  /\ verdict' = "none"
  /\ UNCHANGED <<next_, references, ptr, dropped, passing, called>>

\* ... or not.
ReturnFalse == NextFailed /\ ReturnVerdict("fail")

\* The steps of a call or an assignment once it was begun.
Step ==
  \/ Unref
  \/ TestFails \/ TestPasses \/ CallNext \/ EndLoop \/ GoOn \/ ReturnFalse
  \/ TakeVerdict

Next ==
  \/ \E v \in Variable : New(v) \/ Reset(v) \/ Call(v)
  \/ \E v, w \in Variable : Assign(v, w)
  \/ \E v, a, b \in Variable : Chain(v, a, b)
  \/ Step

Spec == Init /\ [][Next]_vars /\ WF_vars(Step)

-------------------------------------------------------------------------------
Objects == {ptr[v] : v \in Variable} \ {Null}
Frames == {frames[k].filter : k \in DOMAIN frames}

(* Whatever can still be reached exists, in the middle of a deletion too: of *)
(* shared filters a chain that goes away takes only what it alone refers to.  *)
NothingDangles ==
  \A f \in Reached(Objects \cup Frames \cup ToSet(dropped)) : Exists(f)

(* What the application no longer reaches has been deleted: reference counts *)
(* suffice, because no filter is ever chained behind itself.                  *)
NothingLeaks == Idle => \A f \in Filter : Exists(f) => f \in Reached(Objects)

(* A call of a chain is what Filters.Accepts says of the flat sequence: all   *)
(* filters pass, and they are called in their order up to the first that does *)
(* not. Only then do the duplicates merge what Filters.Merges says they do.    *)
VerdictOfChain ==
  (verdict # "none" /\ frames = << >>) =>
    LET chain == Flat(called[1])
        failed == {i \in DOMAIN chain : chain[i] \notin passing}
    IN IF failed = {} THEN verdict = "pass" /\ called = chain
       ELSE /\ verdict = "fail"
            /\ called = SubSeq(chain, 1, CHOOSE i \in failed : \A j \in failed : i <= j)

(* Chaining puts the sequence of the right side behind that of the left one,  *)
(* however the two were built and whatever they share; so a | (b | c) and      *)
(* (a | b) | c test alike.                                                    *)
ChainAppends ==
  [][\A v, a, b \in Variable :
       Chain(v, a, b) => Flat(ptr[v])' = Flat(ptr[a]) \o Flat(ptr[b])]_vars

(* Every call and every deletion comes to its end.                          *)
CallReturns == ~Idle ~> Idle

================================================================================
