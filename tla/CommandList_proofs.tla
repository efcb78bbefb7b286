-------------------------- MODULE CommandList_proofs --------------------------
(* Proofs about CommandList, for any number of wrappers and creations and        *)
(* recordings of any length.                                                     *)
EXTENDS CommandList, TLAPS

-----------------------------------------------------------------------------
(* The inductive invariant *)

\* The kinds of handles an object under construction has when a stage begins.
Before(stage) ==
  CASE stage = "module" -> {} [] stage = "list" -> {"module"}
    [] stage = "queue" -> {"module", "list"} [] stage = "fence" -> {"module", "list", "queue"}

Building(w) == at.stage \in Kinds /\ at.of = w

\* The number of the handles an object has or is about to get.
Own(w) == IF Building(w) THEN created ELSE ListOf(w)

\* The handles of an object have one number; only an object under construction has some
\* of them and not others, and only one with its dispatch table has any.
Shape(w) ==
  /\ Own(w) \in 0..created
  /\ Building(w) =>
       /\ wrapper[w].fn /\ ~wrapper[w].closed /\ created # 0
       /\ \A k \in Kinds :
            wrapper[w].handle[k] = IF k \in Before(at.stage) THEN created ELSE 0
  /\ ~Building(w) =>
       /\ \A k \in Kinds : wrapper[w].handle[k] = ListOf(w)
       /\ wrapper[w].fn <=> ListOf(w) # 0
  /\ wrapper[w].fn => wrapper[w].exists
  /\ ~wrapper[w].fn => ~wrapper[w].closed

Shapes == \A w \in Wrappers : Shape(w)

Distinct == \A w, v \in Wrappers : w # v /\ Own(w) # 0 => Own(w) # Own(v)

\* Exactly the handles that some object holds are alive.
Alive ==
  \A k \in Kinds, n \in Numbers :
    <<k, n>> \in live <=> \E w \in Wrappers : wrapper[w].handle[k] = n

\* The list of an object that is not finished is open and was never submitted.
Unused ==
  \A n \in Numbers :
    n > created \/ (at.stage \in Kinds /\ n = created) => list[n].open /\ ~pending[n]

\* What the program points of execute() and synchronize() know.
Points ==
  /\ at.stage \in {"fence reset", "submit", "waiting"} => ListOf(at.of) # 0
  /\ at.stage \in {"fence reset", "submit"} => wrapper[at.of].closed /\ ~pending[ListOf(at.of)]
  /\ at.stage = "submit" => ~fence[ListOf(at.of)]
  /\ at.stage = "waiting" => pending[ListOf(at.of)]

\* A queue holds at most the one submission the user has not synchronized with, of a
\* closed list, whose fence is not signaled yet.
Flight ==
  \A n \in Numbers : queue[n] # <<>> =>
    /\ queue[n] = <<[list |-> n, commands |-> list[n].recorded, fence |-> n]>>
    /\ pending[n] /\ ~fence[n] /\ ~list[n].open

\* An execution the user still has to wait for belongs to an object.
PendingOwned ==
  \A n \in Numbers : pending[n] => \E w \in Wrappers : ListOf(w) = n

ObjectInv == TypeOK /\ Shapes /\ Distinct /\ Alive
ListInv == ClosedAgreesWithDriver /\ Unused /\ Points /\ Flight /\ PendingOwned
CommandInv == ObjectInv /\ ListInv

-----------------------------------------------------------------------------
(* What a step does to an object *)

LEMMA BlankType ==
  ASSUME NEW exists \in BOOLEAN, NEW fn \in BOOLEAN
  PROVE  /\ Blank(exists, fn) \in Objects
         /\ Blank(exists, fn).exists = exists /\ Blank(exists, fn).fn = fn
         /\ Blank(exists, fn).closed = FALSE
         /\ \A k \in Kinds : Blank(exists, fn).handle[k] = 0
  BY CommandListAssumption DEF Blank, NoHandles, Objects

LEMMA InitStageObject ==
  ASSUME TypeOK, Shapes, NEW w \in Wrappers, InitStage(w)
  PROVE  /\ created \in Numbers /\ at.stage \in Kinds
         /\ wrapper' \in [Wrappers -> Objects]
         /\ \A x \in Wrappers \ {w} : wrapper'[x] = wrapper[x]
         /\ wrapper'[w].fn = wrapper[w].fn /\ wrapper'[w].closed = wrapper[w].closed
         /\ wrapper'[w].exists = wrapper[w].exists
         /\ \A k \in Kinds :
              wrapper'[w].handle[k] = IF k = at.stage THEN created ELSE wrapper[w].handle[k]
  <1>1. created \in Numbers /\ at.stage \in Kinds
    BY CommandListAssumption DEF TypeOK, InitStage, Shapes, Shape, Building, Numbers
  <1> DEFINE h == [wrapper[w].handle EXCEPT ![at.stage] = created]
             o == [wrapper[w] EXCEPT !.handle = h]
  <1>2. wrapper[w] \in Objects /\ wrapper[w].handle \in [Kinds -> 0..MaxCreates]
    BY DEF TypeOK, Objects
  <1>3. h \in [Kinds -> 0..MaxCreates]
    BY <1>1, <1>2, CommandListAssumption DEF Numbers
  <1>4. o \in Objects /\ o.handle = h /\ o.fn = wrapper[w].fn /\ o.closed = wrapper[w].closed
        /\ o.exists = wrapper[w].exists
    BY <1>2, <1>3 DEF Objects
  <1>5. wrapper' = [wrapper EXCEPT ![w] = o]
    BY DEF InitStage
  <1>6. \A k \in Kinds : h[k] = IF k = at.stage THEN created ELSE wrapper[w].handle[k]
    BY <1>2
  <1> HIDE DEF h, o
  <1>7. wrapper' \in [Wrappers -> Objects] /\ wrapper'[w] = o
        /\ \A x \in Wrappers \ {w} : wrapper'[x] = wrapper[x]
    BY <1>4, <1>5 DEF TypeOK
  <1> QED BY <1>1, <1>4, <1>6, <1>7

LEMMA NextStageType ==
  ASSUME NEW s \in Kinds
  PROVE  /\ NextStage(s) \in Stages
         /\ NextStage(s) \in Kinds <=> s # "fence"
         /\ s = "fence" => NextStage(s) = "user"
         /\ s # "fence" => Before(NextStage(s)) = Before(s) \cup {s}
         /\ s = "fence" => Before(s) \cup {s} = Kinds
         /\ s \notin Before(s)
  BY DEF NextStage, Kinds, Stages, Before

LEMMA MovedToObject ==
  ASSUME TypeOK, NEW w \in Wrappers, NEW v \in Wrappers, w # v, wrapper' = MovedTo(w, v)
  PROVE  /\ wrapper' \in [Wrappers -> Objects]
         /\ \A x \in Wrappers \ {w, v} : wrapper'[x] = wrapper[x]
         /\ wrapper'[w] = wrapper[v] /\ wrapper'[v] = MovedFrom
  <1>1. MovedFrom \in Objects
    BY BlankType DEF MovedFrom
  <1> QED BY <1>1 DEF MovedTo, TypeOK

\* Closing a list, or the wrapper's part of resetting it.
LEMMA ClosedObject ==
  ASSUME TypeOK, NEW w \in Wrappers, NEW c \in BOOLEAN,
         wrapper' = [wrapper EXCEPT ![w].closed = c]
  PROVE  /\ wrapper' \in [Wrappers -> Objects]
         /\ \A x \in Wrappers \ {w} : wrapper'[x] = wrapper[x]
         /\ wrapper'[w].closed = c /\ wrapper'[w].fn = wrapper[w].fn
         /\ wrapper'[w].exists = wrapper[w].exists /\ wrapper'[w].handle = wrapper[w].handle
  <1> DEFINE o == [wrapper[w] EXCEPT !.closed = c]
  <1>1. wrapper[w] \in Objects
    BY DEF TypeOK
  <1>2. o \in Objects /\ o.closed = c /\ o.fn = wrapper[w].fn /\ o.exists = wrapper[w].exists
        /\ o.handle = wrapper[w].handle
    BY <1>1 DEF Objects
  <1>3. wrapper' = [wrapper EXCEPT ![w] = o]
    OBVIOUS
  <1> HIDE DEF o
  <1>4. wrapper' \in [Wrappers -> Objects] /\ wrapper'[w] = o
        /\ \A x \in Wrappers \ {w} : wrapper'[x] = wrapper[x]
    BY <1>2, <1>3 DEF TypeOK
  <1> QED BY <1>2, <1>4

\* What the destructor releases of an object that is complete, or under construction.
LEMMA ReleasedHandles ==
  ASSUME TypeOK, Shapes, NEW w \in Wrappers
  PROVE  \A k \in Kinds, n \in Numbers :
           <<k, n>> \in Released(wrapper[w])
             <=> <<k, n>> \in live /\ wrapper[w].handle[k] # n
  <1> SUFFICES ASSUME NEW k \in Kinds, NEW n \in Numbers
               PROVE  <<k, n>> \in Released(wrapper[w])
                        <=> <<k, n>> \in live /\ wrapper[w].handle[k] # n
    OBVIOUS
  <1>1. n # 0
    BY CommandListAssumption DEF Numbers
  <1>2. <<k, n>> \in Handles(wrapper[w]) <=> wrapper[w].handle[k] = n
    BY <1>1 DEF Handles
  <1>3. wrapper[w].handle[k] = n => wrapper[w].fn
    BY <1>1 DEF Shapes, Shape
  <1> QED BY <1>2, <1>3 DEF Released

LEMMA ReleasedType ==
  ASSUME TypeOK, NEW w \in Wrappers
  PROVE  Released(wrapper[w]) \subseteq Kinds \X Numbers
  BY DEF Released, TypeOK

\* The life cycle of an object keeps the types.
LEMMA LifeType ==
  ASSUME TypeOK, Shapes, NEW w \in Wrappers, NEW v \in Wrappers,
         \/ Create(w) \/ InitStage(w) \/ InitFails(w) \/ Destroy(w)
         \/ MoveConstruct(w, v) \/ MoveAssign(w, v)
  PROVE  TypeOK'
  <1> USE CommandListAssumption
  <1>1. CASE Create(w)
    <2>1. created' \in 0..MaxCreates
      BY <1>1 DEF Create, TypeOK
    <2>2. at' \in [stage : Stages, of : Wrappers]
      BY <1>1 DEF Create, Stages, Kinds
    <2>3. wrapper' \in [Wrappers -> Objects]
      BY <1>1, BlankType DEF Create, Fresh, TypeOK
    <2> QED BY <1>1, <2>1, <2>2, <2>3 DEF Create, TypeOK, driver
  <1>2. CASE InitStage(w)
    <2>1. created \in Numbers /\ at.stage \in Kinds /\ wrapper' \in [Wrappers -> Objects]
      BY <1>2, InitStageObject
    <2>2. at' \in [stage : Stages, of : Wrappers]
      BY <1>2, <2>1, NextStageType DEF InitStage, TypeOK
    <2>3. live' \subseteq Kinds \X Numbers
      BY <1>2, <2>1 DEF InitStage, TypeOK
    <2> QED BY <1>2, <2>1, <2>2, <2>3 DEF InitStage, TypeOK, driver
  <1>3. CASE InitFails(w)
    <2>1. wrapper' \in [Wrappers -> Objects]
      BY <1>3, BlankType DEF InitFails, Absent, TypeOK
    <2>2. at' \in [stage : Stages, of : Wrappers]
      BY <1>3 DEF InitFails, TypeOK, Stages
    <2> QED BY <1>3, <2>1, <2>2, ReleasedType DEF InitFails, TypeOK, driver
  <1>4. CASE Destroy(w)
    <2>1. wrapper' \in [Wrappers -> Objects]
      BY <1>4, BlankType DEF Destroy, Absent, TypeOK
    <2> QED BY <1>4, <2>1, ReleasedType DEF Destroy, TypeOK, driver
  <1>5. CASE MoveConstruct(w, v)
    <2>1. wrapper' \in [Wrappers -> Objects]
      BY <1>5, MovedToObject DEF MoveConstruct
    <2> QED BY <1>5, <2>1 DEF MoveConstruct, TypeOK, driver
  <1>6. CASE MoveAssign(w, v)
    <2>1. wrapper' \in [Wrappers -> Objects]
      BY <1>6, MovedToObject DEF MoveAssign
    <2> QED BY <1>6, <2>1, ReleasedType DEF MoveAssign, TypeOK, driver
  <1> QED BY <1>1, <1>2, <1>3, <1>4, <1>5, <1>6

-----------------------------------------------------------------------------
(* The life cycle keeps one owner for every handle *)

LEMMA CreateKeepsObjects ==
  ASSUME ObjectInv, NEW w \in Wrappers, Create(w)
  PROVE  Shapes' /\ Distinct' /\ Alive'
  <1> USE DEF ObjectInv
  <1>1. /\ \A x \in Wrappers \ {w} : wrapper'[x] = wrapper[x]
        /\ wrapper'[w] = Fresh
        /\ wrapper[w].exists = FALSE /\ created \in 0..MaxCreates /\ created' = created + 1
        /\ at.stage = "user" /\ at'.stage = "module" /\ at'.of = w /\ live' = live
    BY DEF Create, TypeOK, Free
  <1>2. Fresh.fn = TRUE /\ Fresh.exists = TRUE /\ Fresh.closed = FALSE
        /\ \A k \in Kinds : Fresh.handle[k] = 0
    BY BlankType DEF Fresh
  <1>3. \A x \in Wrappers : ~ Building(x) /\ Own(x) = ListOf(x)
    BY <1>1 DEF Building, Kinds, Own
  <1>4. Building(w)' /\ Own(w)' = created + 1
    BY <1>1 DEF Building, Kinds, Own
  <1>5. \A x \in Wrappers \ {w} : ~ Building(x)' /\ Own(x)' = Own(x) /\ ListOf(x)' = ListOf(x)
    BY <1>1, <1>3 DEF Building, Kinds, Own, ListOf
  <1>6. Own(w) = 0 /\ \A k \in Kinds : wrapper[w].handle[k] = 0
    BY <1>1, <1>3 DEF Shapes, Shape
  <1>7. Before("module") = {}
    BY DEF Before
  <1>8. Shapes'
    <2>1. Shape(w)'
      BY <1>1, <1>2, <1>4, <1>7 DEF Shape
    <2>2. ASSUME NEW x \in Wrappers \ {w} PROVE Shape(x)'
      BY <1>1, <1>3, <1>5 DEF Shapes, Shape
    <2> QED BY <2>1, <2>2 DEF Shapes
  <1>9. Distinct'
    <2>1. \A x \in Wrappers : Own(x) \in 0..created
      BY DEF Shapes, Shape
    <2> QED BY <1>1, <1>4, <1>5, <2>1 DEF Distinct
  <1>10. Alive'
    <2>1. ASSUME NEW k \in Kinds, NEW n \in Numbers
          PROVE  <<k, n>> \in live' <=> \E x \in Wrappers : wrapper'[x].handle[k] = n
      <3>1. n # 0 /\ wrapper[w].handle[k] = 0 /\ wrapper'[w].handle[k] = 0
        BY <1>1, <1>2, <1>6, CommandListAssumption DEF Numbers
      <3>2. <<k, n>> \in live <=> \E x \in Wrappers : wrapper[x].handle[k] = n
        BY DEF Alive
      <3> QED BY <1>1, <3>1, <3>2
    <2> QED BY <2>1 DEF Alive
  <1> QED BY <1>8, <1>9, <1>10

LEMMA InitStageKeepsObjects ==
  ASSUME ObjectInv, NEW w \in Wrappers, InitStage(w)
  PROVE  Shapes' /\ Distinct' /\ Alive'
  <1> USE DEF ObjectInv
  <1>1. /\ created \in Numbers /\ at.stage \in Kinds
        /\ \A x \in Wrappers \ {w} : wrapper'[x] = wrapper[x]
        /\ wrapper'[w].fn = wrapper[w].fn /\ wrapper'[w].closed = wrapper[w].closed
        /\ wrapper'[w].exists = wrapper[w].exists
        /\ \A k \in Kinds :
             wrapper'[w].handle[k] = IF k = at.stage THEN created ELSE wrapper[w].handle[k]
    BY InitStageObject
  <1>2. /\ at.of = w /\ at'.of = w /\ at'.stage = NextStage(at.stage)
        /\ created' = created /\ live' = live \cup {<<at.stage, created>>}
    BY DEF InitStage, TypeOK
  <1>3. Building(w) /\ Own(w) = created /\ created # 0 /\ created \in 0..MaxCreates
    BY <1>1, <1>2, CommandListAssumption DEF Building, Own, Numbers, TypeOK
  <1>4. \A x \in Wrappers \ {w} : ~ Building(x) /\ ~ Building(x)' /\ Own(x)' = Own(x)
                                   /\ ListOf(x)' = ListOf(x)
    BY <1>1, <1>2 DEF Building, Own, ListOf
  <1>5. \A k \in Kinds : wrapper[w].handle[k] = IF k \in Before(at.stage) THEN created ELSE 0
    BY <1>3 DEF Shapes, Shape
  <1>6. \A k \in Kinds : wrapper'[w].handle[k] = IF k \in Before(at.stage) \cup {at.stage}
                                                 THEN created ELSE 0
    BY <1>1, <1>5
  <1>7. Building(w)' <=> at.stage # "fence"
    BY <1>1, <1>2, NextStageType DEF Building
  <1>8. Own(w)' = created
    <2>1. CASE at.stage = "fence"
      BY <1>1, <1>2, <1>6, <1>7, <2>1, NextStageType DEF Own, ListOf, Kinds
    <2>2. CASE at.stage # "fence"
      BY <1>2, <1>7, <2>2 DEF Own
    <2> QED BY <2>1, <2>2
  <1>9. Shape(w)'
    <2>1. CASE at.stage = "fence"
      <3>1. \A k \in Kinds : wrapper'[w].handle[k] = created
        BY <1>1, <1>6, <2>1, NextStageType
      <3>2. ListOf(w)' = created
        BY <3>1 DEF ListOf, Kinds
      <3> QED BY <1>1, <1>2, <1>3, <1>7, <1>8, <2>1, <3>1, <3>2 DEF Shapes, Shape
    <2>2. CASE at.stage # "fence"
      <3>1. Before(at'.stage) = Before(at.stage) \cup {at.stage}
        BY <1>1, <1>2, <2>2, NextStageType
      <3> QED BY <1>1, <1>2, <1>3, <1>6, <1>7, <1>8, <2>2, <3>1 DEF Shapes, Shape
    <2> QED BY <2>1, <2>2
  <1>10. Shapes'
    <2>1. ASSUME NEW x \in Wrappers \ {w} PROVE Shape(x)'
      BY <1>1, <1>2, <1>4 DEF Shapes, Shape
    <2> QED BY <1>9, <2>1 DEF Shapes
  <1>11. Distinct'
    BY <1>3, <1>4, <1>8 DEF Distinct
  <1>12. Alive'
    <2> SUFFICES ASSUME NEW k \in Kinds, NEW n \in Numbers
                 PROVE  <<k, n>> \in live' <=> \E x \in Wrappers : wrapper'[x].handle[k] = n
      BY DEF Alive
    <2>1. <<k, n>> \in live <=> \E x \in Wrappers : wrapper[x].handle[k] = n
      BY DEF Alive
    <2>2. CASE k = at.stage
      <3>1. wrapper[w].handle[k] = 0 /\ 0 # n
        BY <1>1, <1>5, <2>2, NextStageType, CommandListAssumption DEF Numbers
      <3> QED BY <1>1, <1>2, <2>1, <2>2, <3>1
    <2>3. CASE k # at.stage
      BY <1>1, <1>2, <2>1, <2>3
    <2> QED BY <2>2, <2>3
  <1> QED BY <1>10, <1>11, <1>12

\* An object that dies takes its handles with it.
LEMMA DeathKeepsObjects ==
  ASSUME ObjectInv, NEW w \in Wrappers, InitFails(w) \/ Destroy(w)
  PROVE  Shapes' /\ Distinct' /\ Alive'
  <1> USE DEF ObjectInv
  <1>1. /\ \A x \in Wrappers \ {w} : wrapper'[x] = wrapper[x]
        /\ wrapper'[w] = Absent /\ created' = created
        /\ live' = Released(wrapper[w]) /\ at'.stage = "user"
    BY DEF InitFails, Destroy, Free, TypeOK
  <1>2. Absent.fn = FALSE /\ Absent.exists = FALSE /\ Absent.closed = FALSE
        /\ \A k \in Kinds : Absent.handle[k] = 0
    BY BlankType DEF Absent
  <1>3. \A x \in Wrappers : ~ Building(x)' /\ Own(x)' = ListOf(x)'
    BY <1>1 DEF Building, Own, Kinds
  <1>4. \A x \in Wrappers \ {w} : ~ Building(x) /\ Own(x) = ListOf(x) /\ ListOf(x)' = ListOf(x)
    BY <1>1 DEF Building, Own, ListOf, InitFails, Destroy, Free, Kinds
  <1>5. ListOf(w)' = 0 /\ \A k \in Kinds : wrapper'[w].handle[k] = 0
    BY <1>1, <1>2 DEF ListOf, Kinds
  <1>6. Shapes'
    <2>1. Shape(w)'
      BY <1>1, <1>2, <1>3, <1>5 DEF Shape, TypeOK
    <2>2. ASSUME NEW x \in Wrappers \ {w} PROVE Shape(x)'
      BY <1>1, <1>3, <1>4 DEF Shapes, Shape
    <2> QED BY <2>1, <2>2 DEF Shapes
  <1>7. Distinct'
    BY <1>3, <1>4, <1>5 DEF Distinct
  <1>8. Alive'
    <2> SUFFICES ASSUME NEW k \in Kinds, NEW n \in Numbers
                 PROVE  <<k, n>> \in live' <=> \E x \in Wrappers : wrapper'[x].handle[k] = n
      BY DEF Alive
    <2>1. n # 0
      BY CommandListAssumption DEF Numbers
    <2>2. \A x \in Wrappers \ {w} : wrapper[x].handle[k] = n => wrapper[w].handle[k] # n
      <3>1. ASSUME NEW x \in Wrappers \ {w}, wrapper[x].handle[k] = n
            PROVE  wrapper[w].handle[k] # n
        <4>1. Own(x) = n
          BY <1>4, <3>1 DEF Shapes, Shape
        <4>2. wrapper[w].handle[k] \in {0, Own(w)}
          BY DEF Shapes, Shape, Own
        <4> QED BY <2>1, <4>1, <4>2 DEF Distinct
      <3> QED BY <3>1
    <2>3. <<k, n>> \in live' <=> <<k, n>> \in live /\ wrapper[w].handle[k] # n
      BY <1>1, ReleasedHandles
    <2> QED BY <1>1, <1>5, <2>1, <2>2, <2>3 DEF Alive
  <1> QED BY <1>6, <1>7, <1>8

\* What a move takes from one object belongs to the other; what the target held is gone.
LEMMA MoveKeepsObjects ==
  ASSUME ObjectInv, NEW w \in Wrappers, NEW v \in Wrappers, 
         MoveConstruct(w, v) \/ MoveAssign(w, v)
  PROVE  Shapes' /\ Distinct' /\ Alive'
  <1> USE DEF ObjectInv
  <1>0. w # v
    BY DEF MoveConstruct, MoveAssign
  <1>1. /\ \A x \in Wrappers \ {w, v} : wrapper'[x] = wrapper[x]
        /\ wrapper'[w] = wrapper[v] /\ wrapper'[v] = MovedFrom
    BY <1>0, MovedToObject DEF MoveConstruct, MoveAssign
  <1>2. created' = created /\ at' = at /\ at.stage = "user"
    BY DEF MoveConstruct, MoveAssign, Free
  <1>3. MovedFrom.fn = FALSE /\ MovedFrom.exists = TRUE /\ MovedFrom.closed = FALSE
        /\ \A k \in Kinds : MovedFrom.handle[k] = 0
    BY BlankType DEF MovedFrom
  <1>4. \A x \in Wrappers : /\ ~ Building(x) /\ Own(x) = ListOf(x)
                            /\ ~ Building(x)' /\ Own(x)' = ListOf(x)'
    BY <1>2 DEF Building, Own, Kinds
  <1>5. /\ \A x \in Wrappers \ {w, v} : ListOf(x)' = ListOf(x)
        /\ ListOf(w)' = ListOf(v) /\ ListOf(v)' = 0
    BY <1>1, <1>3 DEF ListOf, Kinds
  <1>6. Shapes'
    <2>1. ASSUME NEW x \in Wrappers PROVE Shape(x)'
      <3>1. CASE x = v
        BY <1>1, <1>2, <1>3, <1>4, <1>5, <3>1 DEF Shape, TypeOK
      <3>2. CASE x = w
        BY <1>1, <1>2, <1>4, <1>5, <3>2 DEF Shapes, Shape
      <3>3. CASE x \notin {w, v}
        BY <1>1, <1>2, <1>4, <1>5, <3>3 DEF Shapes, Shape
      <3> QED BY <3>1, <3>2, <3>3
    <2> QED BY <2>1 DEF Shapes
  <1>7. Distinct'
    BY <1>4, <1>5 DEF Distinct
  <1>8. Alive'
    <2> SUFFICES ASSUME NEW k \in Kinds, NEW n \in Numbers
                 PROVE  <<k, n>> \in live' <=> \E x \in Wrappers : wrapper'[x].handle[k] = n
      BY DEF Alive
    <2>1. n # 0
      BY CommandListAssumption DEF Numbers
    <2>2. \A x \in Wrappers : wrapper[x].handle[k] = Own(x)
      BY <1>4 DEF Shapes, Shape
    <2>3. \A x \in Wrappers \ {w} : wrapper[x].handle[k] = n => wrapper[w].handle[k] # n
      BY <2>1, <2>2 DEF Distinct
    <2>4. <<k, n>> \in live' <=> <<k, n>> \in live /\ wrapper[w].handle[k] # n
      <3>1. CASE MoveAssign(w, v)
        BY <3>1, ReleasedHandles DEF MoveAssign
      <3>2. CASE MoveConstruct(w, v)
        <4>1. wrapper[w].handle[k] = 0
          BY <1>4, <2>2, <3>2 DEF MoveConstruct, Shapes, Shape
        <4> QED BY <2>1, <3>2, <4>1 DEF MoveConstruct
      <3> QED BY <3>1, <3>2
    <2>5. <<k, n>> \in live <=> \E x \in Wrappers : wrapper[x].handle[k] = n
      BY DEF Alive
    <2>6. wrapper'[v].handle[k] = 0 /\ wrapper'[w].handle[k] = wrapper[v].handle[k]
      BY <1>1, <1>3
    <2> QED BY <1>0, <1>1, <2>1, <2>3, <2>4, <2>5, <2>6
  <1> QED BY <1>6, <1>7, <1>8

-----------------------------------------------------------------------------
(* The life cycle and what the lists hold *)

\* Only a list whose execution was waited for loses its owner.
LEMMA LifeKeepsLists ==
  ASSUME CommandInv, NEW w \in Wrappers, NEW v \in Wrappers,
         \/ Create(w) \/ InitStage(w) \/ InitFails(w) \/ Destroy(w)
         \/ MoveConstruct(w, v) \/ MoveAssign(w, v)
  PROVE  ListInv'
  <1> USE DEF CommandInv, ObjectInv, ListInv
  <1>0. list' = list /\ fence' = fence /\ queue' = queue /\ pending' = pending
    BY DEF Create, InitStage, InitFails, Destroy, MoveConstruct, MoveAssign, driver
  <1>1. Flight'
    BY <1>0 DEF Flight
  <1>2. at.stage \in Kinds \cup {"user"} /\ at'.stage \in Kinds \cup {"user"}
    <2>1. CASE InitStage(w)
      <3>1. at.stage \in Kinds /\ at'.stage = NextStage(at.stage)
        BY <2>1 DEF InitStage, TypeOK
      <3> QED BY <3>1 DEF NextStage, Kinds
    <2>2. CASE ~ InitStage(w)
      BY <2>2 DEF Create, InitFails, Destroy, MoveConstruct, MoveAssign, Free, Kinds, TypeOK
    <2> QED BY <2>1, <2>2
  <1>3. Points'
    BY <1>2 DEF Points, Kinds
  <1>4. created \in 0..MaxCreates /\ created' \in Nat
    BY CommandListAssumption DEF TypeOK, Create, InitStage, InitFails, Destroy, MoveConstruct, MoveAssign
  <1>5. Unused'
    <2>1. CASE Create(w)
      BY <1>0, <1>4, <2>1 DEF Unused, Create, Numbers, Kinds
    <2>2. CASE InitStage(w)
      BY <1>0, <1>4, <2>2 DEF Unused, InitStage
    <2>3. CASE ~ Create(w) /\ ~ InitStage(w)
      <3>1. created' = created /\ at'.stage \notin Kinds
        BY <2>3 DEF InitFails, Destroy, MoveConstruct, MoveAssign, Free, Kinds, TypeOK
      <3> QED BY <1>0, <3>1 DEF Unused
    <2> QED BY <2>1, <2>2, <2>3
  <1>6. CASE Create(w)
    <2>1. /\ \A x \in Wrappers \ {w} : ListOf(x)' = ListOf(x) /\ wrapper'[x] = wrapper[x]
          /\ ListOf(w)' = 0 /\ ~ wrapper[w].exists /\ at.stage = "user"
      BY <1>6, BlankType DEF Create, Fresh, ListOf, TypeOK, Kinds, Free
    <2>2. ListOf(w) = 0
      BY <2>1 DEF Shapes, Shape, Building, Kinds
    <2>3. ClosedAgreesWithDriver'
      BY <1>0, <2>1 DEF ClosedAgreesWithDriver
    <2>4. PendingOwned'
      BY <1>0, <2>1, <2>2, CommandListAssumption DEF PendingOwned, Numbers
    <2> QED BY <1>1, <1>3, <1>5, <2>3, <2>4
  <1>7. CASE InitStage(w)
    <2>1. /\ \A x \in Wrappers \ {w} : ListOf(x)' = ListOf(x) /\ wrapper'[x] = wrapper[x]
          /\ created \in Numbers /\ at.stage \in Kinds
          /\ wrapper'[w].closed = wrapper[w].closed
          /\ ListOf(w)' = IF at.stage = "list" THEN created ELSE ListOf(w)
      BY <1>7, InitStageObject DEF ListOf, Kinds
    <2>2. Building(w)
      BY <1>7 DEF InitStage, Building
    <2>3. ~ wrapper[w].closed /\ ListOf(w) \in {0, created}
      BY <2>2 DEF Shapes, Shape, ListOf, Kinds
    <2>4. list[created].open /\ ~ pending[created]
      BY <2>1 DEF Unused
    <2>5. ClosedAgreesWithDriver'
      BY <1>0, <2>1, <2>3, <2>4 DEF ClosedAgreesWithDriver
    <2>6. PendingOwned'
      BY <1>0, <2>1, <2>3, <2>4, CommandListAssumption DEF PendingOwned, Numbers
    <2> QED BY <1>1, <1>3, <1>5, <2>5, <2>6
  <1>8. CASE InitFails(w) \/ Destroy(w)
    <2>1. /\ \A x \in Wrappers \ {w} : ListOf(x)' = ListOf(x) /\ wrapper'[x] = wrapper[x]
          /\ ListOf(w)' = 0
      BY <1>8, BlankType DEF InitFails, Destroy, Absent, ListOf, TypeOK, Kinds
    <2>2. ListOf(w) # 0 => ~ pending[ListOf(w)]
      <3>1. CASE InitFails(w)
        <4>1. at.stage \in Kinds /\ Building(w)
          BY <3>1 DEF InitFails, Building
        <4>2. ListOf(w) \in {0, created}
          BY <4>1 DEF Shapes, Shape, ListOf, Kinds
        <4> QED BY <1>4, <4>1, <4>2 DEF Unused, Numbers
      <3>2. CASE Destroy(w)
        BY <3>2 DEF Destroy, Idle
      <3> QED BY <1>8, <3>1, <3>2
    <2>3. ClosedAgreesWithDriver'
      BY <1>0, <2>1 DEF ClosedAgreesWithDriver
    <2>4. PendingOwned'
      <3>1. ASSUME NEW n \in Numbers, pending[n]
            PROVE  \E x \in Wrappers : ListOf(x)' = n
        <4>1. n # 0
          BY CommandListAssumption DEF Numbers
        <4>2. PICK x \in Wrappers : ListOf(x) = n
          BY <3>1 DEF PendingOwned
        <4>3. x # w
          BY <2>2, <3>1, <4>1, <4>2
        <4> QED BY <2>1, <4>2, <4>3
      <3> QED BY <1>0, <3>1 DEF PendingOwned
    <2> QED BY <1>1, <1>3, <1>5, <2>3, <2>4
  <1>9. CASE MoveConstruct(w, v) \/ MoveAssign(w, v)
    <2>0. w # v /\ at.stage = "user"
      BY <1>9 DEF MoveConstruct, MoveAssign, Free
    <2>1. /\ \A x \in Wrappers \ {w, v} : ListOf(x)' = ListOf(x) /\ wrapper'[x] = wrapper[x]
          /\ ListOf(w)' = ListOf(v) /\ wrapper'[w] = wrapper[v] /\ ListOf(v)' = 0
      <3>1. wrapper' = MovedTo(w, v)
        BY <1>9 DEF MoveConstruct, MoveAssign
      <3>2. /\ \A x \in Wrappers \ {w, v} : wrapper'[x] = wrapper[x]
            /\ wrapper'[w] = wrapper[v] /\ wrapper'[v] = MovedFrom
        BY <2>0, <3>1, MovedToObject
      <3>3. MovedFrom.handle["list"] = 0
        BY BlankType DEF MovedFrom, Kinds
      <3> QED BY <3>2, <3>3 DEF ListOf
    <2>2. ListOf(w) # 0 => ~ pending[ListOf(w)]
      <3>1. CASE MoveConstruct(w, v)
        BY <2>0, <3>1 DEF MoveConstruct, Shapes, Shape, Building, Kinds
      <3>2. CASE MoveAssign(w, v)
        BY <3>2 DEF MoveAssign, Idle
      <3> QED BY <1>9, <3>1, <3>2
    <2>3. ClosedAgreesWithDriver'
      BY <1>0, <2>1 DEF ClosedAgreesWithDriver
    <2>4. PendingOwned'
      <3>1. ASSUME NEW n \in Numbers, pending[n]
            PROVE  \E x \in Wrappers : ListOf(x)' = n
        <4>1. n # 0
          BY CommandListAssumption DEF Numbers
        <4>2. PICK x \in Wrappers : ListOf(x) = n
          BY <3>1 DEF PendingOwned
        <4>3. x # w
          BY <2>2, <3>1, <4>1, <4>2
        <4> QED BY <2>1, <4>2, <4>3
      <3> QED BY <1>0, <3>1 DEF PendingOwned
    <2> QED BY <1>1, <1>3, <1>5, <2>3, <2>4
  <1> QED BY <1>6, <1>7, <1>8, <1>9

-----------------------------------------------------------------------------
(* Recording and execution *)

\* A step that leaves the handles alone keeps their owners.
LEMMA SameObjects ==
  ASSUME ObjectInv, created' = created, live' = live,
         at'.stage \in Kinds <=> at.stage \in Kinds, at.stage \in Kinds => at' = at,
         \A x \in Wrappers :
           /\ wrapper'[x].handle = wrapper[x].handle /\ wrapper'[x].fn = wrapper[x].fn
           /\ wrapper'[x].exists = wrapper[x].exists
           /\ wrapper'[x].closed =>
                wrapper[x].closed \/ (wrapper[x].fn /\ at.stage \notin Kinds)
  PROVE  Shapes' /\ Distinct' /\ Alive'
  <1> USE DEF ObjectInv
  <1>1. \A x \in Wrappers : Building(x)' = Building(x) /\ ListOf(x)' = ListOf(x) /\ Own(x)' = Own(x)
    BY DEF Building, ListOf, Own
  <1>2. Shapes'
    <2>1. ASSUME NEW x \in Wrappers PROVE Shape(x)'
      <3>1. CASE Building(x)
        <4>1. at' = at /\ at.stage \in Kinds
          BY <3>1 DEF Building
        <4> QED BY <1>1, <3>1, <4>1 DEF Shapes, Shape
      <3>2. CASE ~ Building(x)
        BY <1>1, <3>2 DEF Shapes, Shape
      <3> QED BY <3>1, <3>2
    <2> QED BY <2>1 DEF Shapes
  <1>3. Distinct'
    BY <1>1 DEF Distinct
  <1>4. Alive'
    <2>1. ASSUME NEW k \in Kinds, NEW n \in Numbers
          PROVE  <<k, n>> \in live' <=> \E x \in Wrappers : wrapper'[x].handle[k] = n
      <3>1. <<k, n>> \in live <=> \E x \in Wrappers : wrapper[x].handle[k] = n
        BY DEF Alive
      <3> QED BY <3>1
    <2> QED BY <2>1 DEF Alive
  <1> QED BY <1>2, <1>3, <1>4

\* The list of an object that the user may call is one the driver knows.
LEMMA UsableList ==
  ASSUME ObjectInv, NEW w \in Wrappers, Usable(w) \/ (at.of = w /\ at.stage \notin Kinds /\ ListOf(w) # 0)
  PROVE  /\ ListOf(w) \in Numbers /\ QueueOf(w) = ListOf(w) /\ FenceOf(w) = ListOf(w)
         /\ at.stage \notin Kinds /\ wrapper[w].fn
         /\ \A x \in Wrappers : ListOf(x) = ListOf(w) => x = w
  <1> USE DEF ObjectInv
  <1>1. at.stage \notin Kinds
    BY DEF Usable, Free, Kinds
  <1>2. \A x \in Wrappers : ~ Building(x) /\ Own(x) = ListOf(x)
    BY <1>1 DEF Building, Own
  <1>3. ListOf(w) # 0 /\ wrapper[w].fn
    BY <1>2 DEF Usable, Shapes, Shape
  <1>4. ListOf(w) \in 0..created /\ created \in 0..MaxCreates
    BY <1>2 DEF Shapes, Shape, TypeOK
  <1>5. QueueOf(w) = ListOf(w) /\ FenceOf(w) = ListOf(w)
    BY <1>2 DEF Shapes, Shape, QueueOf, FenceOf, Kinds
  <1> QED BY <1>1, <1>2, <1>3, <1>4, <1>5, CommandListAssumption DEF Numbers, Distinct

\* The commands of a list grow only while it is open, so not while it is in flight.
LEMMA AppendStep ==
  ASSUME CommandInv, NEW w \in Wrappers, NEW c \in Commands \cup {Barrier},
         Usable(w), ~ wrapper[w].closed, Record(ListOf(w), c),
         UNCHANGED <<wrapper, at, created, live, fence, queue, pending>>
  PROVE  CommandInv'
  <1> USE DEF CommandInv
  <1> DEFINE n == ListOf(w)
             l == [list[n] EXCEPT !.recorded = Append(@, c)]
  <1>1. n \in Numbers /\ at.stage \notin Kinds /\ n # 0
    BY UsableList, CommandListAssumption DEF Numbers
  <1>2. list[n] \in [open : BOOLEAN, recorded : Recordings] /\ list[n].recorded \in Recordings
    BY <1>1 DEF ObjectInv, TypeOK
  <1>3. Append(list[n].recorded, c) \in Recordings
    BY <1>2 DEF Recordings
  <1>4. l \in [open : BOOLEAN, recorded : Recordings] /\ l.open = list[n].open
    BY <1>2, <1>3
  <1>5. list' = [list EXCEPT ![n] = l]
    BY DEF Record
  <1> HIDE DEF l
  <1>6. /\ list' \in [Numbers -> [open : BOOLEAN, recorded : Recordings]]
        /\ \A m \in Numbers : list'[m].open = list[m].open
        /\ \A m \in Numbers \ {n} : list'[m] = list[m]
    BY <1>1, <1>4, <1>5 DEF ObjectInv, TypeOK
  <1>7. TypeOK'
    BY <1>6 DEF ObjectInv, TypeOK
  <1>8. Shapes' /\ Distinct' /\ Alive'
    BY SameObjects
  <1>9. list[n].open
    BY <1>1 DEF ListInv, ClosedAgreesWithDriver
  <1>10. \A x \in Wrappers : ListOf(x)' = ListOf(x)
    BY DEF ListOf
  <1>11. ClosedAgreesWithDriver'
    <2>1. \A x \in Wrappers : ListOf(x) # 0 => ListOf(x) \in Numbers
      BY CommandListAssumption DEF ObjectInv, TypeOK, Objects, ListOf, Kinds, Numbers
    <2> QED BY <1>6, <1>10, <2>1 DEF ListInv, ClosedAgreesWithDriver
  <1>12. Unused' /\ PendingOwned'
    BY <1>6, <1>10 DEF ListInv, Unused, PendingOwned
  <1>13. Points'
    BY <1>10 DEF ListInv, Points, ListOf
  <1>14. Flight'
    BY <1>6, <1>9 DEF ListInv, Flight
  <1> QED BY <1>7, <1>8, <1>11, <1>12, <1>13, <1>14 DEF ObjectInv, ListInv

LEMMA ListsExist ==
  ASSUME TypeOK
  PROVE  \A x \in Wrappers : ListOf(x) # 0 => ListOf(x) \in Numbers
  BY CommandListAssumption DEF TypeOK, Objects, ListOf, Kinds, Numbers

\* close(), also as the first part of execute().
LEMMA ClosingFacts ==
  ASSUME ObjectInv, NEW w \in Wrappers, Usable(w), ~ wrapper[w].closed, Closing(w)
  PROVE  /\ wrapper' \in [Wrappers -> Objects]
         /\ list' \in [Numbers -> [open : BOOLEAN, recorded : Recordings]]
         /\ \A x \in Wrappers : /\ wrapper'[x].handle = wrapper[x].handle
                                /\ wrapper'[x].fn = wrapper[x].fn
                                /\ wrapper'[x].exists = wrapper[x].exists
                                /\ ListOf(x)' = ListOf(x)
                                /\ x # w => wrapper'[x].closed = wrapper[x].closed
         /\ wrapper'[w].closed = TRUE
         /\ \A m \in Numbers : list'[m].recorded = list[m].recorded
         /\ \A m \in Numbers \ {ListOf(w)} : list'[m] = list[m]
         /\ list'[ListOf(w)].open = FALSE
  <1> DEFINE n == ListOf(w)
             l == [list[n] EXCEPT !.open = FALSE]
  <1>1. n \in Numbers
    BY UsableList
  <1>2. list[n] \in [open : BOOLEAN, recorded : Recordings]
    BY <1>1 DEF ObjectInv, TypeOK
  <1>3. l \in [open : BOOLEAN, recorded : Recordings] /\ l.open = FALSE
        /\ l.recorded = list[n].recorded
    BY <1>2
  <1>4. list' = [list EXCEPT ![n] = l]
    BY DEF Closing
  <1> HIDE DEF l
  <1>5. /\ list' \in [Numbers -> [open : BOOLEAN, recorded : Recordings]]
        /\ list'[n] = l
        /\ \A m \in Numbers \ {n} : list'[m] = list[m]
    BY <1>1, <1>3, <1>4 DEF ObjectInv, TypeOK
  <1>6. /\ wrapper' \in [Wrappers -> Objects]
        /\ \A x \in Wrappers \ {w} : wrapper'[x] = wrapper[x]
        /\ wrapper'[w].closed = TRUE /\ wrapper'[w].fn = wrapper[w].fn
        /\ wrapper'[w].exists = wrapper[w].exists /\ wrapper'[w].handle = wrapper[w].handle
    BY ClosedObject DEF Closing, ObjectInv
  <1>7. \A m \in Numbers : list'[m].recorded = list[m].recorded
    BY <1>3, <1>5
  <1> QED BY <1>3, <1>5, <1>6, <1>7 DEF ListOf

\* The states in which the user's side is at w, with list, wrapper and what is in flight
\* as a closing step leaves them.
LEMMA ClosingStep ==
  ASSUME CommandInv, NEW w \in Wrappers, Usable(w), ~ wrapper[w].closed, Closing(w),
         UNCHANGED <<created, live, fence, queue, pending>>,
         at' \in [stage : Stages, of : Wrappers], at'.stage \notin Kinds, Points'
  PROVE  CommandInv'
  <1> USE DEF CommandInv
  <1> DEFINE n == ListOf(w)
  <1>1. /\ n \in Numbers /\ at.stage \notin Kinds /\ wrapper[w].fn /\ n # 0
        /\ \A x \in Wrappers : ListOf(x) = ListOf(w) => x = w
    BY UsableList, CommandListAssumption DEF Numbers
  <1>2. /\ wrapper' \in [Wrappers -> Objects]
        /\ list' \in [Numbers -> [open : BOOLEAN, recorded : Recordings]]
        /\ \A x \in Wrappers : /\ wrapper'[x].handle = wrapper[x].handle
                               /\ wrapper'[x].fn = wrapper[x].fn
                               /\ wrapper'[x].exists = wrapper[x].exists
                               /\ ListOf(x)' = ListOf(x)
                               /\ x # w => wrapper'[x].closed = wrapper[x].closed
        /\ wrapper'[w].closed = TRUE
        /\ \A m \in Numbers : list'[m].recorded = list[m].recorded
        /\ \A m \in Numbers \ {n} : list'[m] = list[m]
        /\ list'[n].open = FALSE
    BY ClosingFacts
  <1>3. TypeOK'
    BY <1>2 DEF ObjectInv, TypeOK
  <1>4. Shapes' /\ Distinct' /\ Alive'
    BY <1>1, <1>2, SameObjects
  <1>5. ClosedAgreesWithDriver'
    <2>1. ASSUME NEW x \in Wrappers, ListOf(x) # 0
          PROVE  wrapper'[x].closed <=> ~ list'[ListOf(x)].open
      BY <1>1, <1>2, <2>1, ListsExist DEF ListInv, ClosedAgreesWithDriver, ObjectInv
    <2> QED BY <1>2, <2>1 DEF ClosedAgreesWithDriver
  <1>6. Unused'
    <2>1. n \in 0..created /\ created \in Nat
      BY <1>1, CommandListAssumption DEF ObjectInv, Shapes, Shape, Own, Building, TypeOK
    <2>2. \A m \in Numbers : m > created => list'[m] = list[m]
      BY <1>2, <2>1
    <2> QED BY <2>2 DEF ListInv, Unused
  <1>7. Flight'
    <2>1. ASSUME NEW m \in Numbers, queue[m] # <<>>
          PROVE  ~ list'[m].open
      BY <1>2, <2>1 DEF ListInv, Flight
    <2> QED BY <1>2, <2>1 DEF ListInv, Flight
  <1>8. PendingOwned'
    BY <1>2 DEF ListInv, PendingOwned
  <1> QED BY <1>3, <1>4, <1>5, <1>6, <1>7, <1>8 DEF ObjectInv, ListInv

LEMMA CloseStep ==
  ASSUME CommandInv, NEW w \in Wrappers, Close(w)
  PROVE  CommandInv'
  <1>1. Usable(w) /\ ~ wrapper[w].closed /\ Closing(w) /\ at.stage = "user"
    BY DEF Close, Usable, Free
  <1>2. at' = at /\ at \in [stage : Stages, of : Wrappers]
    BY DEF Close, CommandInv, ObjectInv, TypeOK
  <1>3. Points'
    BY <1>1, <1>2 DEF Points
  <1> QED BY <1>1, <1>2, <1>3, ClosingStep DEF Close, Kinds

LEMMA ExecuteStep ==
  ASSUME CommandInv, NEW w \in Wrappers, Execute(w)
  PROVE  CommandInv'
  <1> USE DEF CommandInv
  <1>1. Usable(w) /\ Idle(w) /\ at' = [stage |-> "fence reset", of |-> w]
    BY DEF Execute
  <1>2. at' \in [stage : Stages, of : Wrappers] /\ at'.stage = "fence reset" /\ at'.of = w
    BY <1>1 DEF Stages
  <1>3. ListOf(w) \in Numbers /\ at.stage \notin Kinds /\ ListOf(w) # 0
    <2>1. ListOf(w) \in Numbers /\ at.stage \notin Kinds
      BY <1>1, UsableList
    <2> QED BY <2>1, CommandListAssumption DEF Numbers
  <1>4. ~ pending[ListOf(w)]
    BY <1>1, <1>3 DEF Idle
  <1>5. CASE wrapper[w].closed
    <2>1. UNCHANGED <<wrapper, created, live, list, fence, queue, pending>>
      BY <1>5 DEF Execute
    <2>2. TypeOK'
      BY <1>2, <2>1 DEF ObjectInv, TypeOK
    <2>3. Shapes' /\ Distinct' /\ Alive'
      BY <1>2, <1>3, <2>1, SameObjects DEF Kinds
    <2>4. \A x \in Wrappers : ListOf(x)' = ListOf(x)
      BY <2>1 DEF ListOf
    <2>5. Points'
      BY <1>2, <1>3, <1>4, <1>5, <2>1, <2>4 DEF Points
    <2>6. ClosedAgreesWithDriver' /\ PendingOwned' /\ Flight'
      BY <2>1, <2>4 DEF ListInv, ClosedAgreesWithDriver, PendingOwned, Flight
    <2>7. Unused'
      BY <1>2, <2>1 DEF ListInv, Unused, Kinds
    <2> QED BY <2>2, <2>3, <2>5, <2>6, <2>7 DEF ObjectInv, ListInv
  <1>6. CASE ~ wrapper[w].closed
    <2>1. Closing(w)
      BY <1>6 DEF Execute
    <2>2. wrapper'[w].closed = TRUE /\ ListOf(w)' = ListOf(w)
      BY <1>1, <1>6, <2>1, ClosingFacts
    <2>3. Points'
      BY <1>2, <1>3, <1>4, <2>2 DEF Points, Execute
    <2> QED BY <1>1, <1>2, <1>6, <2>1, <2>3, ClosingStep DEF Execute, Kinds
  <1> QED BY <1>5, <1>6

LEMMA ResetStep ==
  ASSUME CommandInv, NEW w \in Wrappers, Reset(w)
  PROVE  CommandInv'
  <1> USE DEF CommandInv
  <1> DEFINE n == ListOf(w)
  <1>1. Usable(w) /\ Idle(w) /\ at.stage = "user"
    BY DEF Reset, Usable, Free
  <1>2. /\ n \in Numbers /\ at.stage \notin Kinds
        /\ \A x \in Wrappers : ListOf(x) = ListOf(w) => x = w
    BY <1>1, UsableList
  <1>3. n # 0 /\ ~ pending[n]
    BY <1>1, <1>2, CommandListAssumption DEF Numbers, Idle
  <1>4. /\ wrapper' \in [Wrappers -> Objects]
        /\ \A x \in Wrappers \ {w} : wrapper'[x] = wrapper[x]
        /\ wrapper'[w].closed = FALSE /\ wrapper'[w].fn = wrapper[w].fn
        /\ wrapper'[w].exists = wrapper[w].exists /\ wrapper'[w].handle = wrapper[w].handle
    BY ClosedObject DEF Reset, ObjectInv
  <1>5. \A x \in Wrappers : ListOf(x)' = ListOf(x)
    BY <1>4 DEF ListOf
  <1> DEFINE l == [open |-> TRUE, recorded |-> <<>>]
  <1>6. l \in [open : BOOLEAN, recorded : Recordings] /\ l.open = TRUE
    BY DEF Recordings
  <1>7. list' = [list EXCEPT ![n] = l] /\ UNCHANGED <<at, created, live, fence, queue, pending>>
    BY DEF Reset
  <1> HIDE DEF l
  <1>8. /\ list' \in [Numbers -> [open : BOOLEAN, recorded : Recordings]]
        /\ list'[n] = l /\ \A m \in Numbers \ {n} : list'[m] = list[m]
    BY <1>2, <1>6, <1>7 DEF ObjectInv, TypeOK
  <1>9. TypeOK'
    BY <1>4, <1>7, <1>8 DEF ObjectInv, TypeOK
  <1>10. Shapes' /\ Distinct' /\ Alive'
    BY <1>4, <1>7, SameObjects
  <1>11. ClosedAgreesWithDriver'
    <2>1. ASSUME NEW x \in Wrappers, ListOf(x) # 0
          PROVE  wrapper'[x].closed <=> ~ list'[ListOf(x)].open
      <3>1. CASE x = w
        BY <1>4, <1>6, <1>8, <3>1
      <3>2. CASE x # w
        BY <1>2, <1>4, <1>8, <2>1, <3>2, ListsExist DEF ListInv, ClosedAgreesWithDriver, ObjectInv
      <3> QED BY <3>1, <3>2
    <2> QED BY <1>5, <2>1 DEF ClosedAgreesWithDriver
  <1>12. Unused' /\ Points'
    BY <1>1, <1>6, <1>7, <1>8 DEF ListInv, Unused, Points
  <1>13. Flight'
    <2>1. \A m \in Numbers : queue[m] # <<>> => m # n
      BY <1>3 DEF ListInv, Flight
    <2> QED BY <1>7, <1>8, <2>1 DEF ListInv, Flight
  <1>14. PendingOwned'
    BY <1>5, <1>7 DEF ListInv, PendingOwned
  <1> QED BY <1>9, <1>10, <1>11, <1>12, <1>13, <1>14 DEF ObjectInv, ListInv

\* Steps that leave wrappers and lists alone.
LEMMA QuietStep ==
  ASSUME CommandInv, UNCHANGED <<wrapper, created, live, list>>,
         at' \in [stage : Stages, of : Wrappers],
         at'.stage \in Kinds <=> at.stage \in Kinds, at.stage \in Kinds => at' = at
  PROVE  /\ fence' \in [Numbers -> BOOLEAN] /\ queue' \in [Numbers -> Seq(Submissions)]
           /\ pending' \in [Numbers -> BOOLEAN] => ObjectInv'
         /\ ClosedAgreesWithDriver'
         /\ \A x \in Wrappers : ListOf(x)' = ListOf(x)
         /\ pending' = pending => Unused' /\ PendingOwned'
  <1> USE DEF CommandInv
  <1>1. \A x \in Wrappers : ListOf(x)' = ListOf(x)
    BY DEF ListOf
  <1>2. Shapes' /\ Distinct' /\ Alive'
    BY SameObjects
  <1>3. ClosedAgreesWithDriver'
    BY <1>1 DEF ListInv, ClosedAgreesWithDriver
  <1>4. pending' = pending => Unused' /\ PendingOwned'
    BY <1>1 DEF ListInv, Unused, PendingOwned
  <1>5. fence' \in [Numbers -> BOOLEAN] /\ queue' \in [Numbers -> Seq(Submissions)]
           /\ pending' \in [Numbers -> BOOLEAN] => TypeOK'
    BY DEF ObjectInv, TypeOK
  <1> QED BY <1>1, <1>2, <1>3, <1>4, <1>5 DEF ObjectInv

\* With a fence reset that cannot fail, the list that is submitted next is not in flight
\* and its fence is down.
LEMMA FenceResetStep ==
  ASSUME CommandInv, ~ FenceResetFails, NEW w \in Wrappers, FenceReset(w)
  PROVE  CommandInv'
  <1> USE DEF CommandInv
  <1>1. at.stage = "fence reset" /\ at.of = w /\ at' = [at EXCEPT !.stage = "submit"]
        /\ fence' = [fence EXCEPT ![FenceOf(w)] = FALSE]
        /\ UNCHANGED <<wrapper, created, live, list, queue, pending>>
    BY DEF FenceReset
  <1>2. at' \in [stage : Stages, of : Wrappers] /\ at'.stage = "submit" /\ at'.of = w
        /\ at'.stage \notin Kinds /\ at.stage \notin Kinds
    BY <1>1 DEF ObjectInv, TypeOK, Stages, Kinds
  <1>3. ListOf(w) # 0 /\ wrapper[w].closed /\ ~ pending[ListOf(w)]
    BY <1>1 DEF ListInv, Points
  <1>4. ListOf(w) \in Numbers /\ FenceOf(w) = ListOf(w)
    BY <1>1, <1>2, <1>3, UsableList
  <1>5. fence' \in [Numbers -> BOOLEAN] /\ ~ fence'[ListOf(w)]
        /\ \A m \in Numbers : fence'[m] => fence[m]
    BY <1>1, <1>4 DEF ObjectInv, TypeOK
  <1>6. ObjectInv' /\ ClosedAgreesWithDriver' /\ Unused' /\ PendingOwned' /\ ListOf(w)' = ListOf(w)
    <2>1. queue' \in [Numbers -> Seq(Submissions)] /\ pending' \in [Numbers -> BOOLEAN]
      BY <1>1 DEF ObjectInv, TypeOK
    <2> QED BY <1>1, <1>2, <1>5, <2>1, QuietStep
  <1>7. Points'
    BY <1>1, <1>2, <1>3, <1>5, <1>6 DEF Points
  <1>8. Flight'
    BY <1>1, <1>5 DEF ListInv, Flight
  <1> QED BY <1>6, <1>7, <1>8 DEF ListInv

LEMMA SubmitStep ==
  ASSUME CommandInv, NEW w \in Wrappers, Submit(w)
  PROVE  CommandInv'
  <1> USE DEF CommandInv
  <1> DEFINE n == ListOf(w)
  <1>1. at.stage = "submit" /\ at.of = w /\ at' = [at EXCEPT !.stage = "user"]
        /\ queue' = [queue EXCEPT ![QueueOf(w)] = Append(@, Submission(w))]
        /\ pending' = [pending EXCEPT ![n] = TRUE]
        /\ UNCHANGED <<wrapper, created, live, list, fence>>
    BY DEF Submit
  <1>2. at' \in [stage : Stages, of : Wrappers] /\ at'.stage = "user"
        /\ at'.stage \notin Kinds /\ at.stage \notin Kinds
    BY <1>1 DEF ObjectInv, TypeOK, Stages, Kinds
  <1>3. n # 0 /\ wrapper[w].closed /\ ~ pending[n] /\ ~ fence[n]
    BY <1>1 DEF ListInv, Points
  <1>4. n \in Numbers /\ FenceOf(w) = n /\ QueueOf(w) = n
    BY <1>1, <1>2, <1>3, UsableList
  <1>5. queue[n] = <<>> /\ ~ list[n].open
    BY <1>3, <1>4 DEF ListInv, Flight, ClosedAgreesWithDriver
  <1> DEFINE s == [list |-> n, commands |-> list[n].recorded, fence |-> n]
  <1>6. s \in Submissions /\ Submission(w) = s
    <2>1. list[n].recorded \in Recordings /\ n \in 0..MaxCreates
      BY <1>4, CommandListAssumption DEF ObjectInv, TypeOK, Numbers
    <2> QED BY <1>4, <2>1 DEF Submissions, Submission
  <1> HIDE DEF s
  <1>7. /\ queue' \in [Numbers -> Seq(Submissions)] /\ queue'[n] = <<s>>
        /\ \A m \in Numbers \ {n} : queue'[m] = queue[m]
    <2>1. queue' = [queue EXCEPT ![n] = <<s>>]
      <3>1. Append(<<>>, s) = <<s>>
        OBVIOUS
      <3> QED BY <1>1, <1>4, <1>5, <1>6, <3>1
    <2> QED BY <1>4, <1>6, <2>1 DEF ObjectInv, TypeOK
  <1>8. /\ pending' \in [Numbers -> BOOLEAN] /\ pending'[n]
        /\ \A m \in Numbers \ {n} : pending'[m] = pending[m]
    BY <1>1, <1>4 DEF ObjectInv, TypeOK
  <1>9. ObjectInv' /\ ClosedAgreesWithDriver' /\ \A x \in Wrappers : ListOf(x)' = ListOf(x)
    <2>1. fence' \in [Numbers -> BOOLEAN]
      BY <1>1 DEF ObjectInv, TypeOK
    <2> QED BY <1>1, <1>2, <1>7, <1>8, <2>1, QuietStep
  <1>10. Points'
    BY <1>2 DEF Points
  <1>11. Flight'
    BY <1>1, <1>3, <1>5, <1>7, <1>8 DEF ListInv, Flight, s
  <1>12. PendingOwned'
    BY <1>8, <1>9 DEF ListInv, PendingOwned
  <1>13. Unused'
    <2>1. n \in 0..created /\ created \in Nat
      BY <1>2, CommandListAssumption DEF ObjectInv, Shapes, Shape, Own, Building, TypeOK
    <2>2. \A m \in Numbers : m > created => pending'[m] = pending[m]
      BY <1>8, <2>1
    <2> QED BY <1>1, <1>2, <2>2 DEF ListInv, Unused
  <1> QED BY <1>9, <1>10, <1>11, <1>12, <1>13 DEF ListInv

LEMMA SubmitFailsStep ==
  ASSUME CommandInv, NEW w \in Wrappers, SubmitFails(w)
  PROVE  CommandInv'
  <1> USE DEF CommandInv
  <1>1. at.stage = "submit" /\ at' = [at EXCEPT !.stage = "user"]
        /\ UNCHANGED <<wrapper, created, live, list, fence, queue, pending>>
    BY DEF SubmitFails, driver
  <1>2. at' \in [stage : Stages, of : Wrappers] /\ at'.stage = "user"
        /\ at'.stage \notin Kinds /\ at.stage \notin Kinds
    BY <1>1 DEF ObjectInv, TypeOK, Stages, Kinds
  <1>3. ObjectInv' /\ ClosedAgreesWithDriver' /\ Unused' /\ PendingOwned'
    <2>1. fence' \in [Numbers -> BOOLEAN] /\ queue' \in [Numbers -> Seq(Submissions)]
          /\ pending' \in [Numbers -> BOOLEAN]
      BY <1>1 DEF ObjectInv, TypeOK
    <2> QED BY <1>1, <1>2, <2>1, QuietStep
  <1>4. Points' /\ Flight'
    BY <1>1, <1>2 DEF ListInv, Points, Flight
  <1> QED BY <1>3, <1>4 DEF ListInv

LEMMA SynchronizeStep ==
  ASSUME CommandInv, NEW w \in Wrappers, Synchronize(w)
  PROVE  CommandInv'
  <1> USE DEF CommandInv
  <1>1. at.stage = "user" /\ at' = [stage |-> "waiting", of |-> w]
        /\ UNCHANGED <<wrapper, created, live, list, fence, queue, pending>>
        /\ ListOf(w) # 0 /\ pending[ListOf(w)]
    BY DEF Synchronize, driver, Usable, Free
  <1>2. at' \in [stage : Stages, of : Wrappers] /\ at'.stage = "waiting" /\ at'.of = w
        /\ at'.stage \notin Kinds /\ at.stage \notin Kinds
    BY <1>1 DEF Stages, Kinds
  <1>3. ObjectInv' /\ ClosedAgreesWithDriver' /\ Unused' /\ PendingOwned' /\ ListOf(w)' = ListOf(w)
    <2>1. fence' \in [Numbers -> BOOLEAN] /\ queue' \in [Numbers -> Seq(Submissions)]
          /\ pending' \in [Numbers -> BOOLEAN]
      BY <1>1 DEF ObjectInv, TypeOK
    <2> QED BY <1>1, <1>2, <2>1, QuietStep
  <1>4. Points' /\ Flight'
    BY <1>1, <1>2, <1>3 DEF ListInv, Points, Flight
  <1> QED BY <1>3, <1>4 DEF ListInv

\* The fence is up, so that nothing of the list is in flight any more.
LEMMA SynchronizedStep ==
  ASSUME CommandInv, NEW w \in Wrappers, Synchronized(w)
  PROVE  CommandInv'
  <1> USE DEF CommandInv
  <1> DEFINE n == ListOf(w)
  <1>1. at.stage = "waiting" /\ at.of = w /\ at' = [at EXCEPT !.stage = "user"]
        /\ UNCHANGED <<wrapper, created, live, list, fence, queue>>
        /\ fence[FenceOf(w)] /\ pending' = [pending EXCEPT ![n] = FALSE]
    BY DEF Synchronized, driver
  <1>2. at' \in [stage : Stages, of : Wrappers] /\ at'.stage = "user"
        /\ at'.stage \notin Kinds /\ at.stage \notin Kinds
    BY <1>1 DEF ObjectInv, TypeOK, Stages, Kinds
  <1>3. n # 0
    BY <1>1 DEF ListInv, Points
  <1>4. n \in Numbers /\ FenceOf(w) = n
    BY <1>1, <1>2, <1>3, UsableList
  <1>5. queue[n] = <<>>
    BY <1>1, <1>4 DEF ListInv, Flight
  <1>6. /\ pending' \in [Numbers -> BOOLEAN]
        /\ \A m \in Numbers : pending'[m] => pending[m]
        /\ \A m \in Numbers \ {n} : pending'[m] = pending[m]
    BY <1>1, <1>4 DEF ObjectInv, TypeOK
  <1>7. ObjectInv' /\ ClosedAgreesWithDriver' /\ \A x \in Wrappers : ListOf(x)' = ListOf(x)
    <2>1. fence' \in [Numbers -> BOOLEAN] /\ queue' \in [Numbers -> Seq(Submissions)]
      BY <1>1 DEF ObjectInv, TypeOK
    <2> QED BY <1>1, <1>2, <1>6, <2>1, QuietStep
  <1>8. Points'
    BY <1>2 DEF Points
  <1>9. Flight'
    BY <1>1, <1>5, <1>6 DEF ListInv, Flight
  <1>10. Unused' /\ PendingOwned'
    BY <1>1, <1>2, <1>6, <1>7 DEF ListInv, Unused, PendingOwned
  <1> QED BY <1>7, <1>8, <1>9, <1>10 DEF ListInv

\* The device signals the fence of the list it has finished, and no other.
LEMMA CompleteStep ==
  ASSUME CommandInv, NEW n \in Numbers, Complete(n)
  PROVE  CommandInv'
  <1> USE DEF CommandInv
  <1> DEFINE s == [list |-> n, commands |-> list[n].recorded, fence |-> n]
  <1>1. queue[n] = <<s>> /\ pending[n] /\ ~ list[n].open
    BY DEF Complete, ListInv, Flight
  <1>2. Head(queue[n]).fence = n /\ n # 0 /\ Tail(queue[n]) = <<>>
    <2>1. Head(<<s>>) = s /\ Tail(<<s>>) = <<>>
      OBVIOUS
    <2>2. s.fence = n
      OBVIOUS
    <2> QED BY <1>1, <2>1, <2>2, CommandListAssumption DEF Numbers
  <1> HIDE DEF s
  <1>3. /\ fence' = [fence EXCEPT ![n] = TRUE] /\ queue' = [queue EXCEPT ![n] = <<>>]
        /\ UNCHANGED <<wrapper, at, created, live, list, pending>>
    BY <1>2 DEF Complete
  <1>4. /\ fence' \in [Numbers -> BOOLEAN] /\ queue' \in [Numbers -> Seq(Submissions)]
        /\ queue'[n] = <<>>
        /\ \A m \in Numbers \ {n} : fence'[m] = fence[m] /\ queue'[m] = queue[m]
    BY <1>3 DEF ObjectInv, TypeOK
  <1>5. ObjectInv' /\ ClosedAgreesWithDriver' /\ Unused' /\ PendingOwned'
        /\ \A x \in Wrappers : ListOf(x)' = ListOf(x)
    <2>1. pending' \in [Numbers -> BOOLEAN] /\ at' \in [stage : Stages, of : Wrappers]
      BY <1>3 DEF ObjectInv, TypeOK
    <2> QED BY <1>3, <1>4, <2>1, QuietStep
  <1>6. Flight'
    BY <1>3, <1>4 DEF ListInv, Flight
  <1>7. Points'
    <2>1. at.of \in Wrappers
      BY DEF ObjectInv, TypeOK
    <2>2. ASSUME at.stage = "submit" PROVE ~ fence'[ListOf(at.of)]
      <3>1. ListOf(at.of) # 0 /\ ~ pending[ListOf(at.of)] /\ ~ fence[ListOf(at.of)]
        BY <2>2 DEF ListInv, Points
      <3>2. ListOf(at.of) \in Numbers \ {n}
        BY <1>1, <2>1, <3>1, ListsExist DEF ObjectInv
      <3> QED BY <1>4, <3>1, <3>2
    <2> QED BY <1>3, <1>5, <2>1, <2>2 DEF ListInv, Points
  <1> QED BY <1>5, <1>6, <1>7 DEF ListInv

-----------------------------------------------------------------------------
(* The theorems *)

LEMMA InitHolds == Init => CommandInv
  <1> SUFFICES ASSUME Init PROVE CommandInv
    OBVIOUS
  <1>1. Absent \in Objects /\ Absent.fn = FALSE /\ Absent.exists = FALSE /\ Absent.closed = FALSE
        /\ \A k \in Kinds : Absent.handle[k] = 0
    BY BlankType DEF Absent
  <1>2. wrapper \in [Wrappers -> Objects] /\ \A w \in Wrappers : wrapper[w] = Absent
    BY <1>1 DEF Init
  <1>3. at \in [stage : Stages, of : Wrappers] /\ at.stage = "user" /\ at.stage \notin Kinds
    <2>1. PICK w \in Wrappers : at = [stage |-> "user", of |-> w]
      BY DEF Init
    <2> QED BY <2>1 DEF Stages, Kinds
  <1>4. list \in [Numbers -> [open : BOOLEAN, recorded : Recordings]]
        /\ \A n \in Numbers : list[n].open
    BY DEF Init, Recordings
  <1>5. queue \in [Numbers -> Seq(Submissions)] /\ \A n \in Numbers : queue[n] = <<>>
    BY DEF Init
  <1>6. fence \in [Numbers -> BOOLEAN] /\ pending \in [Numbers -> BOOLEAN]
        /\ \A n \in Numbers : ~ pending[n]
    BY DEF Init
  <1>7. created = 0 /\ live = {} /\ created \in 0..MaxCreates
    BY CommandListAssumption DEF Init
  <1>8. TypeOK
    BY <1>2, <1>3, <1>4, <1>5, <1>6, <1>7 DEF TypeOK
  <1>9. \A w \in Wrappers : ~ Building(w) /\ ListOf(w) = 0 /\ Own(w) = 0
    BY <1>1, <1>2, <1>3 DEF Building, ListOf, Own, Kinds
  <1>10. Shapes
    BY <1>1, <1>2, <1>7, <1>9 DEF Shapes, Shape
  <1>11. Distinct /\ ClosedAgreesWithDriver
    BY <1>9 DEF Distinct, ClosedAgreesWithDriver
  <1>12. Alive
    BY <1>1, <1>2, <1>7, CommandListAssumption DEF Alive, Numbers
  <1>13. Unused /\ Flight /\ PendingOwned
    BY <1>4, <1>5, <1>6 DEF Unused, Flight, PendingOwned
  <1>14. Points
    BY <1>3 DEF Points
  <1> QED BY <1>8, <1>10, <1>11, <1>12, <1>13, <1>14 DEF CommandInv, ObjectInv, ListInv

LEMMA StutterHolds == CommandInv /\ UNCHANGED vars => CommandInv'
  <1> SUFFICES ASSUME CommandInv, UNCHANGED vars PROVE CommandInv'
    OBVIOUS
  <1> USE DEF CommandInv, vars, driver
  <1>1. TypeOK'
    BY DEF ObjectInv, TypeOK
  <1>2. Shapes' /\ Distinct' /\ Alive'
    BY SameObjects
  <1>3. \A x \in Wrappers : ListOf(x)' = ListOf(x)
    BY DEF ListOf
  <1>4. ClosedAgreesWithDriver' /\ Unused' /\ PendingOwned' /\ Flight'
    BY <1>3 DEF ListInv, ClosedAgreesWithDriver, Unused, PendingOwned, Flight
  <1>5. Points'
    BY DEF ListInv, Points, ListOf
  <1> QED BY <1>1, <1>2, <1>4, <1>5 DEF ObjectInv, ListInv

LEMMA StepHolds ==
  ASSUME ~ FenceResetFails, CommandInv, [Next]_vars
  PROVE  CommandInv'
  <1>1. CASE UNCHANGED vars
    BY <1>1, StutterHolds
  <1>2. CASE \E n \in Numbers : Complete(n)
    BY <1>2, CompleteStep
  <1>3. ASSUME NEW w \in Wrappers, Calls(w) PROVE CommandInv'
    <2>1. CASE Create(w)
      BY <2>1, LifeType, CreateKeepsObjects, LifeKeepsLists DEF CommandInv, ObjectInv
    <2>2. CASE InitStage(w)
      BY <2>2, LifeType, InitStageKeepsObjects, LifeKeepsLists DEF CommandInv, ObjectInv
    <2>3. CASE InitFails(w) \/ Destroy(w)
      BY <2>3, LifeType, DeathKeepsObjects, LifeKeepsLists DEF CommandInv, ObjectInv
    <2>4. ASSUME NEW v \in Wrappers, MoveConstruct(w, v) \/ MoveAssign(w, v) PROVE CommandInv'
      BY <2>4, LifeType, MoveKeepsObjects, LifeKeepsLists DEF CommandInv, ObjectInv
    <2>5. ASSUME NEW c \in Commands, AppendMemoryCopy(w, c) PROVE CommandInv'
      BY <2>5, AppendStep DEF AppendMemoryCopy
    <2>6. CASE AppendBarrier(w)
      BY <2>6, AppendStep DEF AppendBarrier
    <2>7. CASE Close(w)
      BY <2>7, CloseStep
    <2>8. CASE Reset(w)
      BY <2>8, ResetStep
    <2>9. CASE Execute(w)
      BY <2>9, ExecuteStep
    <2>10. CASE FenceReset(w)
      BY <2>10, FenceResetStep
    <2>11. CASE Submit(w)
      BY <2>11, SubmitStep
    <2>12. CASE SubmitFails(w)
      BY <2>12, SubmitFailsStep
    <2>13. CASE Synchronize(w)
      BY <2>13, SynchronizeStep
    <2>14. CASE Synchronized(w)
      BY <2>14, SynchronizedStep
    <2> QED BY <1>3, <2>1, <2>2, <2>3, <2>4, <2>5, <2>6, <2>7, <2>8, <2>9, <2>10, <2>11,
               <2>12, <2>13, <2>14 DEF Calls
  <1> QED BY <1>1, <1>2, <1>3 DEF Next

LEMMA OwnersFollow == ObjectInv => HandlesHaveOneOwner
  <1> SUFFICES ASSUME ObjectInv PROVE HandlesHaveOneOwner
    OBVIOUS
  <1> USE DEF ObjectInv
  <1>1. ASSUME NEW w \in Wrappers, NEW h \in Handles(wrapper[w])
        PROVE  h \in Kinds \X Numbers /\ h = <<h[1], h[2]>> /\ wrapper[w].handle[h[1]] = h[2]
               /\ h[2] = Own(w) /\ h[2] # 0
    <2>1. PICK k \in Kinds : wrapper[w].handle[k] # 0 /\ h = <<k, wrapper[w].handle[k]>>
      BY DEF Handles
    <2>2. wrapper[w].handle[k] \in 0..MaxCreates
      BY DEF TypeOK, Objects
    <2>3. wrapper[w].handle[k] \in {0, Own(w)}
      BY DEF Shapes, Shape, Own
    <2> QED BY <2>1, <2>2, <2>3, CommandListAssumption DEF Numbers
  <1>2. ASSUME NEW h \in live PROVE \E w \in Wrappers : h \in Handles(wrapper[w])
    <2>1. PICK k \in Kinds, n \in Numbers : h = <<k, n>>
      BY DEF TypeOK
    <2>2. PICK w \in Wrappers : wrapper[w].handle[k] = n
      BY <2>1 DEF Alive
    <2>3. n # 0
      BY CommandListAssumption DEF Numbers
    <2> QED BY <2>1, <2>2, <2>3 DEF Handles
  <1>3. ASSUME NEW w \in Wrappers, NEW h \in Handles(wrapper[w]) PROVE h \in live
    <2>1. h[1] \in Kinds /\ h[2] \in Numbers /\ h = <<h[1], h[2]>>
          /\ wrapper[w].handle[h[1]] = h[2]
      BY <1>1
    <2>2. <<h[1], h[2]>> \in live
      BY <2>1 DEF Alive
    <2> QED BY <2>1, <2>2
  <1>4. live = UNION {Handles(wrapper[w]) : w \in Wrappers}
    BY <1>2, <1>3
  <1>5. ASSUME NEW w \in Wrappers, NEW v \in Wrappers, w # v,
               NEW h \in Handles(wrapper[w]) \cap Handles(wrapper[v])
        PROVE  FALSE
    <2>1. h[2] = Own(w) /\ h[2] # 0 /\ h[2] = Own(v)
      BY <1>1
    <2> QED BY <1>5, <2>1 DEF Distinct
  <1> QED BY <1>4, <1>5 DEF HandlesHaveOneOwner

LEMMA FlightFollows == CommandInv => InFlightIsUntouched
  <1> SUFFICES ASSUME CommandInv, NEW n \in Numbers, NEW i \in DOMAIN queue[n]
               PROVE  /\ list[queue[n][i].list]
                           = [open |-> FALSE, recorded |-> queue[n][i].commands]
                      /\ <<"list", queue[n][i].list>> \in live
                      /\ <<"queue", n>> \in live
    BY DEF InFlightIsUntouched
  <1> DEFINE s == [list |-> n, commands |-> list[n].recorded, fence |-> n]
  <1>1. queue[n] # <<>>
    OBVIOUS
  <1>2. queue[n] = <<s>> /\ pending[n] /\ ~ list[n].open
    BY <1>1 DEF CommandInv, ListInv, Flight
  <1>3. queue[n][i] = s
    BY <1>2
  <1>4. queue[n][i].list = n /\ queue[n][i].commands = list[n].recorded
    BY <1>3
  <1>5. list[n] = [open |-> FALSE, recorded |-> list[n].recorded]
    <2>1. list[n] \in [open : BOOLEAN, recorded : Recordings] /\ list[n].open = FALSE
      BY <1>2 DEF CommandInv, ObjectInv, TypeOK
    <2> QED BY <2>1
  <1>6. PICK w \in Wrappers : ListOf(w) = n
    BY <1>2 DEF CommandInv, ListInv, PendingOwned
  <1>7. ~ Building(w)
    <2>1. ASSUME Building(w) PROVE FALSE
      <3>1. at.stage \in Kinds /\ ListOf(w) \in {0, created} /\ n # 0
        BY <2>1, CommandListAssumption
           DEF Building, CommandInv, ObjectInv, Shapes, Shape, ListOf, Kinds, Numbers
      <3> QED BY <1>2, <1>6, <3>1 DEF CommandInv, ListInv, Unused
    <2> QED BY <2>1
  <1>8. wrapper[w].handle["list"] = n /\ wrapper[w].handle["queue"] = n
    BY <1>6, <1>7 DEF CommandInv, ObjectInv, Shapes, Shape, Kinds
  <1>9. <<"list", n>> \in live /\ <<"queue", n>> \in live
    BY <1>8 DEF CommandInv, ObjectInv, Alive, Kinds
  <1> QED BY <1>4, <1>5, <1>9

LEMMA DoneFollows == CommandInv => SynchronizedIsDone
  <1> SUFFICES ASSUME CommandInv, NEW w \in Wrappers, QueueOf(w) # 0, ~ pending[ListOf(w)]
               PROVE  queue[QueueOf(w)] = <<>>
    BY DEF SynchronizedIsDone
  <1>1. QueueOf(w) = ListOf(w) /\ ListOf(w) # 0
    <2>1. CASE Building(w)
      <3>1. at.stage \in Kinds
        BY <2>1 DEF Building
      <3>2. QueueOf(w) = created => ListOf(w) = created
        BY <2>1, <3>1 DEF CommandInv, ObjectInv, Shapes, Shape, QueueOf, ListOf, Kinds, Before
      <3>3. QueueOf(w) \in {0, created}
        BY <2>1 DEF CommandInv, ObjectInv, Shapes, Shape, QueueOf, Kinds
      <3> QED BY <3>2, <3>3
    <2>2. CASE ~ Building(w)
      BY <2>2 DEF CommandInv, ObjectInv, Shapes, Shape, QueueOf, Kinds
    <2> QED BY <2>1, <2>2
  <1>2. ListOf(w) \in Numbers
    BY <1>1, ListsExist DEF CommandInv, ObjectInv
  <1> QED BY <1>1, <1>2 DEF CommandInv, ListInv, Flight

\* When zeFenceReset cannot fail, a list that the device still runs is neither recorded,
\* reset nor destroyed, through every failed creation, move and refused submission.
THEOREM NoListTouchedInFlight ==
  ASSUME ~ FenceResetFails
  PROVE  Spec => []InFlightIsUntouched
  <1>1. Init => CommandInv
    BY InitHolds
  <1>2. CommandInv /\ [Next]_vars => CommandInv'
    BY StepHolds
  <1>3. CommandInv => InFlightIsUntouched
    BY FlightFollows
  <1> QED BY <1>1, <1>2, <1>3, PTL DEF Spec

\* When zeFenceReset cannot fail, the device has nothing left of a list whose
\* synchronize() has returned.
THEOREM SynchronizeWaits ==
  ASSUME ~ FenceResetFails
  PROVE  Spec => []SynchronizedIsDone
  <1>1. Init => CommandInv
    BY InitHolds
  <1>2. CommandInv /\ [Next]_vars => CommandInv'
    BY StepHolds
  <1>3. CommandInv => SynchronizedIsDone
    BY DoneFollows
  <1> QED BY <1>1, <1>2, <1>3, PTL DEF Spec

-----------------------------------------------------------------------------
(* Ownership does not rest on fences: the same for a zeFenceReset that fails *)

\* A call that waits for the driver is made on an object that has a list.
Busy == at.stage \in {"fence reset", "submit", "waiting"} => ListOf(at.of) # 0

OwnerInv == ObjectInv /\ Busy

LEMMA LifeOwner ==
  ASSUME OwnerInv, NEW w \in Wrappers, NEW v \in Wrappers,
         \/ Create(w) \/ InitStage(w) \/ InitFails(w) \/ Destroy(w)
         \/ MoveConstruct(w, v) \/ MoveAssign(w, v)
  PROVE  OwnerInv'
  <1> USE DEF OwnerInv, ObjectInv
  <1>1. TypeOK'
    BY LifeType
  <1>2. Shapes' /\ Distinct' /\ Alive'
    BY CreateKeepsObjects, InitStageKeepsObjects, DeathKeepsObjects, MoveKeepsObjects
  <1>3. at'.stage \in Kinds \cup {"user"}
    <2>1. CASE InitStage(w)
      <3>1. at.stage \in Kinds /\ at'.stage = NextStage(at.stage)
        BY <2>1 DEF InitStage, TypeOK
      <3> QED BY <3>1 DEF NextStage, Kinds
    <2>2. CASE ~ InitStage(w)
      BY <2>2 DEF Create, InitFails, Destroy, MoveConstruct, MoveAssign, Free, Kinds, TypeOK
    <2> QED BY <2>1, <2>2
  <1> QED BY <1>1, <1>2, <1>3 DEF Busy, Kinds

LEMMA RecordingOwner ==
  ASSUME OwnerInv, NEW w \in Wrappers, NEW c \in Commands \cup {Barrier},
         \/ AppendMemoryCopy(w, c) \/ AppendBarrier(w) \/ Close(w) \/ Reset(w) \/ Execute(w)
  PROVE  OwnerInv'
  <1> USE DEF OwnerInv
  <1> DEFINE n == ListOf(w)
  <1>1. Usable(w) /\ at.stage = "user" /\ UNCHANGED <<created, live, fence, queue, pending>>
    BY DEF AppendMemoryCopy, AppendBarrier, Close, Reset, Execute, Usable, Free
  <1>2. n \in Numbers /\ wrapper[w].fn /\ n # 0
    <2>1. n \in Numbers /\ wrapper[w].fn
      BY <1>1, UsableList
    <2> QED BY <2>1, CommandListAssumption DEF Numbers
  <1>3. list[n] \in [open : BOOLEAN, recorded : Recordings] /\ list[n].recorded \in Recordings
    BY <1>2 DEF ObjectInv, TypeOK
  <1> DEFINE Same == /\ wrapper' \in [Wrappers -> Objects]
                     /\ list' \in [Numbers -> [open : BOOLEAN, recorded : Recordings]]
                     /\ \A x \in Wrappers : /\ wrapper'[x].handle = wrapper[x].handle
                                            /\ wrapper'[x].fn = wrapper[x].fn
                                            /\ wrapper'[x].exists = wrapper[x].exists
                                            /\ x # w => wrapper'[x].closed = wrapper[x].closed
  <1>4. ASSUME AppendMemoryCopy(w, c) \/ AppendBarrier(w) PROVE Same
    <2>1. PICK d \in Commands \cup {Barrier} : Record(n, d)
      BY <1>4 DEF AppendMemoryCopy, AppendBarrier
    <2>2. [list[n] EXCEPT !.recorded = Append(@, d)] \in [open : BOOLEAN, recorded : Recordings]
      <3>1. Append(list[n].recorded, d) \in Recordings
        BY <1>3 DEF Recordings
      <3> QED BY <1>3, <3>1
    <2>3. list' \in [Numbers -> [open : BOOLEAN, recorded : Recordings]]
      BY <1>2, <2>1, <2>2 DEF Record, ObjectInv, TypeOK
    <2> QED BY <1>4, <2>3 DEF AppendMemoryCopy, AppendBarrier, ObjectInv, TypeOK
  <1>5. ASSUME ~ wrapper[w].closed, Closing(w) PROVE Same
    BY <1>1, <1>5, ClosingFacts
  <1>6. ASSUME Reset(w) PROVE Same
    <2>1. [open |-> TRUE, recorded |-> <<>>] \in [open : BOOLEAN, recorded : Recordings]
      BY DEF Recordings
    <2>2. list' \in [Numbers -> [open : BOOLEAN, recorded : Recordings]]
      BY <1>2, <1>6, <2>1 DEF Reset, ObjectInv, TypeOK
    <2>3. wrapper' = [wrapper EXCEPT ![w].closed = FALSE]
      BY <1>6 DEF Reset
    <2> QED BY <2>2, <2>3, ClosedObject DEF ObjectInv
  <1>7. Same
    <2>1. ASSUME Execute(w), wrapper[w].closed PROVE Same
      BY <2>1 DEF Execute, ObjectInv, TypeOK
    <2> QED BY <1>4, <1>5, <1>6, <2>1 DEF Close, Execute
  <1> HIDE DEF Same
  <1>8. at' = at \/ at' = [stage |-> "fence reset", of |-> w]
    BY DEF AppendMemoryCopy, AppendBarrier, Close, Reset, Execute
  <1>81. at \in [stage : Stages, of : Wrappers]
         /\ [stage |-> "fence reset", of |-> w] \in [stage : Stages, of : Wrappers]
    BY DEF ObjectInv, TypeOK, Stages
  <1>9. at' \in [stage : Stages, of : Wrappers] /\ at'.stage \notin Kinds /\ at.stage \notin Kinds
        /\ (at'.stage = "user" \/ at'.of = w)
    <2>1. CASE at' = at
      BY <1>1, <1>81, <2>1 DEF Kinds
    <2>2. CASE at' = [stage |-> "fence reset", of |-> w]
      BY <1>1, <1>81, <2>2 DEF Kinds
    <2> QED BY <1>8, <2>1, <2>2
  <1>10. TypeOK'
    BY <1>1, <1>7, <1>9 DEF ObjectInv, TypeOK, Same
  <1>11. Shapes' /\ Distinct' /\ Alive'
    BY <1>1, <1>2, <1>7, <1>9, SameObjects DEF Same
  <1>12. ListOf(w)' = n
    BY <1>7 DEF Same, ListOf
  <1> QED BY <1>2, <1>9, <1>10, <1>11, <1>12 DEF ObjectInv, Busy

\* Submissions and waits, with a fence in any state.
LEMMA QueueOwner ==
  ASSUME OwnerInv, NEW w \in Wrappers, 
         \/ FenceReset(w) \/ Submit(w) \/ SubmitFails(w) \/ Synchronize(w) \/ Synchronized(w)
  PROVE  OwnerInv'
  <1> USE DEF OwnerInv
  <1> DEFINE n == ListOf(w)
  <1> DEFINE Around == /\ at.stage \notin Kinds /\ (Usable(w) \/ at.of = w) /\ n # 0
                       /\ at' \in [stage : Stages, of : Wrappers] /\ at'.stage \notin Kinds
                       /\ at'.stage = "user" \/ at'.of = w
  <1>0. at \in [stage : Stages, of : Wrappers]
    BY DEF ObjectInv, TypeOK
  <1>1. UNCHANGED <<wrapper, created, live, list>>
    BY DEF FenceReset, Submit, SubmitFails, Synchronize, Synchronized, driver
  <1>2. Around
    <2>1. ASSUME FenceReset(w) PROVE Around
      <3>1. at.stage = "fence reset" /\ at.of = w /\ at' = [at EXCEPT !.stage = "submit"]
        BY <2>1 DEF FenceReset
      <3> QED BY <1>0, <3>1 DEF Busy, Stages, Kinds
    <2>2. ASSUME Submit(w) \/ SubmitFails(w) PROVE Around
      <3>1. at.stage = "submit" /\ at.of = w /\ at' = [at EXCEPT !.stage = "user"]
        BY <2>2 DEF Submit, SubmitFails
      <3> QED BY <1>0, <3>1 DEF Busy, Stages, Kinds
    <2>3. ASSUME Synchronize(w) PROVE Around
      <3>1. at.stage = "user" /\ n # 0 /\ Usable(w) /\ at' = [stage |-> "waiting", of |-> w]
        BY <2>3 DEF Synchronize, Usable, Free
      <3> QED BY <3>1 DEF Stages, Kinds
    <2>4. ASSUME Synchronized(w) PROVE Around
      <3>1. at.stage = "waiting" /\ at.of = w /\ at' = [at EXCEPT !.stage = "user"]
        BY <2>4 DEF Synchronized
      <3> QED BY <1>0, <3>1 DEF Busy, Stages, Kinds
    <2> QED BY <2>1, <2>2, <2>3, <2>4
  <1>3. n \in Numbers /\ FenceOf(w) = n /\ QueueOf(w) = n
    BY <1>2, UsableList
  <1>4. fence' \in [Numbers -> BOOLEAN]
    BY <1>3 DEF FenceReset, Submit, SubmitFails, Synchronize, Synchronized, driver, ObjectInv, TypeOK
  <1>5. pending' \in [Numbers -> BOOLEAN]
    BY <1>3 DEF FenceReset, Submit, SubmitFails, Synchronize, Synchronized, driver, ObjectInv, TypeOK
  <1>6. queue' \in [Numbers -> Seq(Submissions)]
    <2>1. CASE Submit(w)
      <3>1. list[n].recorded \in Recordings /\ n \in 0..MaxCreates
        BY <1>3, CommandListAssumption DEF ObjectInv, TypeOK, Numbers
      <3>2. Submission(w) \in Submissions
        BY <1>3, <3>1 DEF Submissions, Submission
      <3>3. Append(queue[n], Submission(w)) \in Seq(Submissions)
        BY <1>3, <3>2 DEF ObjectInv, TypeOK
      <3> QED BY <1>3, <2>1, <3>3 DEF Submit, ObjectInv, TypeOK
    <2>2. CASE ~ Submit(w)
      BY <2>2 DEF FenceReset, SubmitFails, Synchronize, Synchronized, driver, ObjectInv, TypeOK
    <2> QED BY <2>1, <2>2
  <1>7. TypeOK'
    BY <1>1, <1>2, <1>4, <1>5, <1>6 DEF ObjectInv, TypeOK
  <1>8. Shapes' /\ Distinct' /\ Alive'
    BY <1>1, <1>2, SameObjects
  <1>9. ListOf(w)' = n
    BY <1>1 DEF ListOf
  <1> QED BY <1>2, <1>3, <1>7, <1>8, <1>9 DEF ObjectInv, Busy

LEMMA CompleteOwner ==
  ASSUME OwnerInv, NEW n \in Numbers, Complete(n)
  PROVE  OwnerInv'
  <1> USE DEF OwnerInv
  <1>1. UNCHANGED <<wrapper, at, created, live, list, pending>> /\ queue[n] # <<>>
        /\ queue[n] \in Seq(Submissions)
    BY DEF Complete, ObjectInv, TypeOK
  <1>2. Head(queue[n]) \in Submissions /\ Tail(queue[n]) \in Seq(Submissions)
    BY <1>1
  <1>3. queue' \in [Numbers -> Seq(Submissions)]
    BY <1>2 DEF Complete, ObjectInv, TypeOK
  <1>4. fence' \in [Numbers -> BOOLEAN]
    <2>1. Head(queue[n]).fence \in 0..MaxCreates
      BY <1>2 DEF Submissions
    <2>2. Head(queue[n]).fence # 0 => Head(queue[n]).fence \in Numbers
      BY <2>1, CommandListAssumption DEF Numbers
    <2> QED BY <2>2 DEF Complete, ObjectInv, TypeOK
  <1>5. TypeOK'
    BY <1>1, <1>3, <1>4 DEF ObjectInv, TypeOK
  <1>6. Shapes' /\ Distinct' /\ Alive'
    BY <1>1, SameObjects
  <1>7. Busy'
    BY <1>1 DEF Busy, ListOf
  <1> QED BY <1>5, <1>6, <1>7 DEF ObjectInv

LEMMA OwnerStep ==
  ASSUME OwnerInv, [Next]_vars
  PROVE  OwnerInv'
  <1>1. CASE UNCHANGED vars
    <2>1. TypeOK' /\ Busy'
      BY <1>1 DEF OwnerInv, ObjectInv, TypeOK, vars, driver, Busy, ListOf
    <2>2. Shapes' /\ Distinct' /\ Alive'
      BY <1>1, SameObjects DEF OwnerInv, vars
    <2> QED BY <2>1, <2>2 DEF OwnerInv, ObjectInv
  <1>2. CASE \E n \in Numbers : Complete(n)
    BY <1>2, CompleteOwner
  <1>3. ASSUME NEW w \in Wrappers, Calls(w) PROVE OwnerInv'
    <2>1. CASE Create(w) \/ InitStage(w) \/ InitFails(w) \/ Destroy(w)
      BY <2>1, LifeOwner
    <2>2. ASSUME NEW v \in Wrappers, MoveConstruct(w, v) \/ MoveAssign(w, v) PROVE OwnerInv'
      BY <2>2, LifeOwner
    <2>3. ASSUME NEW c \in Commands, AppendMemoryCopy(w, c) PROVE OwnerInv'
      BY <2>3, RecordingOwner
    <2>4. CASE AppendBarrier(w) \/ Close(w) \/ Reset(w) \/ Execute(w)
      BY <2>4, RecordingOwner
    <2>5. CASE FenceReset(w) \/ Submit(w) \/ SubmitFails(w) \/ Synchronize(w) \/ Synchronized(w)
      BY <2>5, QueueOwner
    <2> QED BY <1>3, <2>1, <2>2, <2>3, <2>4, <2>5 DEF Calls
  <1> QED BY <1>1, <1>2, <1>3 DEF Next

\* Whatever fails, fence resets included, every live Level Zero handle and library
\* reference belongs to exactly one wrapper, and no wrapper holds a released one.
THEOREM OneOwner == Spec => []HandlesHaveOneOwner
  <1>1. Init => OwnerInv
    <2>1. Init => CommandInv /\ at.stage = "user"
      BY InitHolds DEF Init
    <2> QED BY <2>1 DEF OwnerInv, CommandInv, Busy
  <1>2. OwnerInv /\ [Next]_vars => OwnerInv'
    BY OwnerStep
  <1>3. OwnerInv => HandlesHaveOneOwner
    BY OwnersFollow DEF OwnerInv
  <1> QED BY <1>1, <1>2, <1>3, PTL DEF Spec

=============================================================================
