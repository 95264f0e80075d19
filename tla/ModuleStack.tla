------------------------------ MODULE ModuleStack ------------------------------
(***************************************************************************)
(* The stack of discovery modules of one resource type, hwsd::Module<T>:   *)
(* an intrusive singly linked list threaded through next_, extended by the *)
(* constructor, unlinked by the destructor and walked by announce*Infos()  *)
(* and discover*Infos(). Each module class keeps its one object in a       *)
(* static pointer, set by use() and cleared by dispose().                  *)
(*                                                                         *)
(* The library has no thread of its own and no lock, so one call runs at a *)
(* time; every iteration of a loop is one step here, so that what holds    *)
(* between two iterations is visible.                                      *)
(***************************************************************************)
EXTENDS Naturals, Sequences, FiniteSets

CONSTANTS
  Module,  \* the module classes of this resource type
  Null     \* the null pointer

ASSUME NullIsNoModule == Null \notin Module
ASSUME ModuleIsFinite == IsFiniteSet(Module)

VARIABLES
  stack,     \* Module<T>::stack(), the head of the list
  next_,     \* next_[m]: the link in the object of class m
  instance,  \* instance[m]: the static pointer of class m, null or its object
  pc,        \* what runs: "idle" or a point inside a call
  this,      \* the object under construction or destruction
  module,    \* the loop variable
  previous,  \* the destructor's trailing pointer
  visited    \* history: the modules the current traversal has called

vars == <<stack, next_, instance, pc, this, module, previous, visited>>

Pointer == Module \cup {Null}

TypeOK ==
  /\ stack \in Pointer
  /\ next_ \in [Module -> Pointer]
  /\ instance \in [Module -> Pointer]
  /\ pc \in {"idle", "append", "constructed", "unlink", "destroyed", "visit"}
  /\ this \in Pointer
  /\ module \in Pointer
  /\ previous \in Pointer
  /\ visited \in Seq(Module)
  /\ (this = Null) <=> (pc \in {"idle", "visit"})
  /\ pc = "append" => module # Null

Init ==
  /\ stack = Null
  /\ next_ = [m \in Module |-> Null]
  /\ instance = [m \in Module |-> Null]
  /\ pc = "idle"
  /\ this = Null /\ module = Null /\ previous = Null
  /\ visited = << >>

-------------------------------------------------------------------------------
(* use(): if there is no instance, construct one.                          *)

\* Module(): next_(0)
KeptLink(m) == next_
Unlinked(m) == [next_ EXCEPT ![m] = Null]

\* The constructor clears next_ and takes an empty stack at once.
Use(m) ==
  /\ pc = "idle"
  /\ instance[m] = Null
  /\ this' = m
  /\ next_' = Unlinked(m)
  /\ IF stack = Null
     THEN stack' = m /\ pc' = "constructed" /\ UNCHANGED module
     ELSE module' = stack /\ pc' = "append" /\ UNCHANGED stack
  /\ UNCHANGED <<instance, previous, visited>>

WalkPastTail ==
  /\ pc = "append"
  /\ module' = next_[module]
  /\ UNCHANGED <<stack, next_, instance, pc, this, previous, visited>>

WalkToTail ==
  /\ pc = "append"
  /\ next_[module] # Null
  /\ module' = next_[module]
  /\ UNCHANGED <<stack, next_, instance, pc, this, previous, visited>>

LinkInFront ==
  /\ pc = "append"
  /\ next_[module] = Null
  /\ stack' = this
  /\ next_' = [next_ EXCEPT ![this] = stack]
  /\ pc' = "constructed"
  /\ UNCHANGED <<instance, this, module, previous, visited>>

LinkAtTail ==
  /\ pc = "append"
  /\ next_[module] = Null
  /\ next_' = [next_ EXCEPT ![module] = this]
  /\ pc' = "constructed"
  /\ UNCHANGED <<stack, instance, this, module, previous, visited>>

SetInstance ==
  /\ pc = "constructed"
  /\ instance' = [instance EXCEPT ![this] = this]
  /\ pc' = "idle"
  /\ this' = Null /\ module' = Null
  /\ UNCHANGED <<stack, next_, previous, visited>>

-------------------------------------------------------------------------------
(* dispose(): delete the instance (a null one is ignored) and clear it.    *)

Dispose(m) ==
  /\ pc = "idle"
  /\ instance[m] # Null
  /\ this' = instance[m]
  /\ previous' = Null
  /\ module' = stack
  /\ pc' = "unlink"
  /\ UNCHANGED <<stack, next_, instance, visited>>

WalkToThis ==
  /\ pc = "unlink"
  /\ module \notin {this, Null}
  /\ previous' = module
  /\ module' = next_[module]
  /\ UNCHANGED <<stack, next_, instance, pc, this, visited>>

UnchangedStack(m) == stack

StackWithout(m) == IF previous = Null THEN next_[m] ELSE stack

LinksCutOff(m) == IF previous = Null THEN next_ ELSE [next_ EXCEPT ![previous] = Null]

LinksWithout(m) ==
  IF previous = Null THEN next_ ELSE [next_ EXCEPT ![previous] = next_[m]]

\* The loop ends at this object, which is taken out, or at the end of the list.
UnlinkThis ==
  /\ pc = "unlink"
  /\ module \in {this, Null}
  /\ stack' = IF module = this THEN StackWithout(this) ELSE stack
  /\ next_' = IF module = this THEN LinksWithout(this) ELSE next_
  /\ pc' = "destroyed"
  /\ UNCHANGED <<instance, this, module, previous, visited>>

ClearInstance ==
  /\ pc = "destroyed"
  /\ instance' = [instance EXCEPT ![this] = Null]
  /\ pc' = "idle"
  /\ this' = Null /\ module' = Null /\ previous' = Null
  /\ UNCHANGED <<stack, next_, visited>>

-------------------------------------------------------------------------------
(* announce*Infos() and discover*Infos() call every module of the stack.   *)

Traverse ==
  /\ pc = "idle"
  /\ module' = stack
  /\ visited' = << >>
  /\ pc' = "visit"
  /\ UNCHANGED <<stack, next_, instance, this, previous>>

Visit ==
  /\ pc = "visit"
  /\ module # Null
  /\ visited' = Append(visited, module)
  /\ module' = next_[module]
  /\ UNCHANGED <<stack, next_, instance, pc, this, previous>>

Return ==
  /\ pc = "visit"
  /\ module = Null
  /\ pc' = "idle"
  /\ UNCHANGED <<stack, next_, instance, this, module, previous, visited>>

-------------------------------------------------------------------------------
\* Steps inside a call.
Step ==
  \/ WalkToTail \/ LinkAtTail \/ SetInstance
  \/ WalkToThis \/ UnlinkThis \/ ClearInstance
  \/ Visit \/ Return

\* Calls of the application.
Call == Traverse \/ \E m \in Module : Use(m) \/ Dispose(m)

Next == Call \/ Step

\* A call that was begun runs on; the application need not call anything.
Spec == Init /\ [][Next]_vars /\ WF_vars(Step)

-------------------------------------------------------------------------------
(* What the list is: a sequence of modules without repetition, from stack   *)
(* along next_ to the null link of the last one.                           *)

Represents(s) ==
  /\ \A i, j \in 1 .. Len(s) : s[i] = s[j] => i = j
  /\ stack = IF s = << >> THEN Null ELSE s[1]
  /\ \A i \in 1 .. Len(s) : next_[s[i]] = IF i = Len(s) THEN Null ELSE s[i + 1]

Lists == UNION {[1 .. n -> Module] : n \in 0 .. Cardinality(Module)}

Listed(m, s) == \E i \in 1 .. Len(s) : s[i] = m

\* Between calls the objects on the list are exactly those the static
\* pointers own; only the object at work may differ.
Owned(s) ==
  \A m \in Module : m # this => instance[m] = IF Listed(m, s) THEN m ELSE Null

\* The constructor walks the list the new object is not on yet.
Constructing(s) ==
  /\ pc = "append" =>
       /\ Listed(module, s) /\ ~Listed(this, s)
       /\ next_[this] = Null
  /\ pc = "constructed" => Listed(this, s)
  /\ pc \in {"append", "constructed"} => instance[this] = Null

\* The destructor walks towards its object with previous one behind.
Destructing(s) ==
  /\ pc = "unlink" =>
       \E i \in 1 .. Len(s) :
         /\ module = s[i]
         /\ previous = IF i = 1 THEN Null ELSE s[i - 1]
         /\ \E j \in i .. Len(s) : s[j] = this
  /\ pc = "destroyed" => ~Listed(this, s)
  /\ pc \in {"unlink", "destroyed"} => instance[this] = this

\* A traversal has called a prefix of the list and goes on behind it.
Visiting(s) ==
  pc = "visit" =>
    LET n == Len(visited) IN
      /\ n <= Len(s)
      /\ \A i \in 1 .. n : visited[i] = s[i]
      /\ module = IF n = Len(s) THEN Null ELSE s[n + 1]

\* At every moment, in the middle of a constructor or destructor too, the
\* links form a finite list without a cycle, and the objects on it are those
\* in use: no deleted object stays linked and none in use drops out.
WellLinked ==
  \E s \in Lists :
    Represents(s) /\ Owned(s) /\ Constructing(s) /\ Destructing(s) /\ Visiting(s)

\* The list read as a sequence; Null stands for links that form no list.
Registered ==
  IF \E s \in Lists : Represents(s)
  THEN CHOOSE s \in Lists : Represents(s)
  ELSE <<Null>>

\* use() appends one module to the registered ones, dispose() takes one out,
\* and no other step changes them: the link of an object that was deleted and
\* constructed again never leaks into the list.
Registry == INSTANCE RegisteredModules WITH registered <- Registered
ImplementsRegistry == Registry!Spec

\* When a traversal returns it has called every module in use, none of them
\* twice and nothing that is not in use.
TraversalComplete ==
  [][ Return => /\ \A m \in Module :
                     instance[m] # Null <=> Listed(m, visited)
                /\ \A i, j \in 1 .. Len(visited) :
                     visited[i] = visited[j] => i = j ]_vars

\* Every constructor, destructor and traversal loop ends.
CallsReturn == pc # "idle" ~> pc = "idle"

================================================================================
