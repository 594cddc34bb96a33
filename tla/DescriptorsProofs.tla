------------------------- MODULE DescriptorsProofs -------------------------
(***************************************************************************)
(* Proofs about Descriptors, for any number of objects and descriptors, as *)
(* long as no File that holds nothing is copied (~CopiesInvalid): the      *)
(* run descriptors_copy shows what happens otherwise.  That nothing leaks  *)
(* and that labels are true needs descriptor 0 to be one the process was   *)
(* started with.                                                           *)
(***************************************************************************)
EXTENDS Descriptors, TLAPS

\* An object that holds a descriptor holds what it obtained.
Held == \A o \in Objects : fd_[o] # NoFd => own[o] # NoDesc /\ table[fd_[o]] = own[o]

\* No descriptor is held twice.
Apart == \A o, p \in Objects : o # p /\ fd_[o] # NoFd => fd_[o] # fd_[p]

\* An object that does not exist holds nothing.
Dead == \A o \in Objects : o \notin live => fd_[o] = NoFd

OwnersType ==
  /\ table \in [Fds -> 0 .. MaxOpens]
  /\ fd_ \in [Objects -> Fds \cup {NoFd}]
  /\ own \in [Objects -> 0 .. MaxOpens]

LabelsType ==
  /\ labels \in Seq(Label) /\ Len(labels) <= MaxOpens
  /\ label_ \in [Objects -> Label]
  /\ live \subseteq Objects

IInv == OwnersType /\ LabelsType /\ Held /\ Apart /\ Dead

LEMMA Bounds ==
  /\ Fds \subseteq Nat /\ Std \subseteq Fds
  /\ MaxOpens \in Nat /\ MaxOpens >= 1 /\ 0 \in 0 .. MaxOpens /\ 1 \in 0 .. MaxOpens
  <1>1. Fds \subseteq Nat /\ Std \subseteq Fds /\ MaxOpens \in Nat \ {0}
    BY Zenon, DescriptorsAssumption
  <1> QED BY ONLY <1>1

-----------------------------------------------------------------------------
(* What the steps that obtain a descriptor do.                             *)

\* A table in which the objects other than o keep what they hold.
Keeps(tab, o) ==
  /\ tab \in [Fds -> 0 .. MaxOpens]
  /\ \A q \in Objects : q # o /\ fd_[q] # NoFd => tab[fd_[q]] = own[q]

\* The invariant when only o has been given a descriptor or been refused.
LEMMA ObtainKeeps ==
  ASSUME IInv, NEW o \in Objects, NEW tab, NEW d \in 0 .. MaxOpens,
         Keeps(tab, o), Obtain(o, tab, d)
  PROVE  /\ table' \in [Fds -> 0 .. MaxOpens]
         /\ fd_' \in [Objects -> Fds \cup {NoFd}]
         /\ own' \in [Objects -> 0 .. MaxOpens]
         /\ Held' /\ Apart'
         /\ \A q \in Objects : q # o => fd_'[q] = fd_[q]
  <1> USE Bounds DEF IInv, OwnersType, LabelsType, Held, Apart, Keeps, NoFd, NoDesc
  <1>1. CASE Given(o, tab, d)
    <2>1. PICK f \in LowestFree(tab) : /\ table' = [tab EXCEPT ![f] = d]
                                       /\ fd_' = [fd_ EXCEPT ![o] = f]
      BY <1>1 DEF Given
    <2>2. f \in Fds /\ tab[f] = 0 BY DEF LowestFree
    <2>3. d # 0 /\ own' = [own EXCEPT ![o] = d] BY <1>1 DEF Given
    <2>4. \A q \in Objects : q # o /\ fd_[q] # -1 => fd_[q] # f BY <2>2
    <2> QED BY <2>1, <2>2, <2>3, <2>4
  <1>2. CASE Refused(o, tab, d, NoFd)
    BY <1>2 DEF Refused
  <1> QED BY <1>1, <1>2 DEF Obtain

\* Closing what o holds disturbs no other object.
LEMMA ReleaseKeeps ==
  ASSUME IInv, NEW o \in Objects
  PROVE  Keeps(table, o) /\ Keeps(Released(o), o)
  BY Bounds
     DEF IInv, OwnersType, LabelsType, Held, Apart, Keeps, Released, NoFd, NoDesc

\* What a copy asks dup(2) for.
LEMMA DescOfType ==
  ASSUME IInv, NEW p \in Objects, NEW tab \in [Fds -> 0 .. MaxOpens]
  PROVE  DescOf(p, tab) \in 0 .. MaxOpens
  <1>1. CASE fd_[p] = NoFd BY <1>1, Bounds DEF DescOf, NoDesc
  <1>2. CASE fd_[p] # NoFd
    <2>1. fd_[p] \in Fds BY <1>2 DEF IInv, OwnersType
    <2> QED BY <1>2, <2>1 DEF DescOf
  <1> QED BY <1>1, <1>2

\* A description added to the table of descriptions.
LEMMA FreshType ==
  ASSUME IInv, NEW l \in Label, Fresh(l)
  PROVE  /\ labels' \in Seq(Label) /\ Len(labels') <= MaxOpens
         /\ NewDesc \in 1 .. MaxOpens
  BY Bounds DEF IInv, OwnersType, LabelsType, Fresh, NewDesc

\* The argument of an open(2) is a description.
LEMMA ObtainArgument ==
  ASSUME IInv, NEW o \in Objects, NEW l \in Label,
         \/ Fresh(l) /\ Obtain(o, table, NewDesc)
         \/ Obtain(o, table, NoDesc) /\ UNCHANGED labels
  PROVE  /\ \E d \in 0 .. MaxOpens : Obtain(o, table, d)
         /\ labels' \in Seq(Label) /\ Len(labels') <= MaxOpens
  <1>1. CASE Obtain(o, table, NoDesc) /\ UNCHANGED labels
    BY <1>1, Bounds DEF NoDesc, IInv, LabelsType
  <1>2. CASE Fresh(l) /\ Obtain(o, table, NewDesc)
    <2>1. NewDesc \in 1 .. MaxOpens BY <1>2, FreshType
    <2>2. NewDesc \in 0 .. MaxOpens BY <2>1, Bounds
    <2> QED BY <1>2, <2>2, FreshType
  <1> QED BY <1>1, <1>2

LEMMA LabelWords == {"-", "r", "w", ""} \subseteq Label /\ Paths \subseteq Label
  BY DEF Label

-----------------------------------------------------------------------------
(* Every action preserves the invariant.                                   *)

LEMMA DefaultInv == ASSUME IInv, NEW o \in Objects, Default(o) PROVE IInv'
  <1>1. LabelsType' BY LabelWords DEF IInv, LabelsType, Default, Born
  <1>2. OwnersType' BY Bounds DEF IInv, OwnersType, Default, NoFd, NoDesc
  <1>3. Held' BY DEF IInv, OwnersType, Held, Default, NoFd
  <1>4. Apart' BY DEF IInv, OwnersType, Apart, Default, NoFd
  <1>5. Dead' BY DEF IInv, OwnersType, Dead, Default, Born
  <1> QED BY <1>1, <1>2, <1>3, <1>4, <1>5 DEF IInv

LEMMA OpenFileInv == ASSUME IInv, NEW o \in Objects, OpenFile(o) PROVE IInv'
  <1>1. o \notin live /\ live' = live \cup {o} /\ label_' = label_
    BY DEF OpenFile, Born
  <1>2. /\ \E d \in 0 .. MaxOpens : Obtain(o, table, d)
        /\ labels' \in Seq(Label) /\ Len(labels') <= MaxOpens
    BY ObtainArgument, LabelWords DEF OpenFile
  <1> QED BY <1>1, <1>2, ReleaseKeeps, ObtainKeeps DEF IInv, OwnersType, LabelsType, Dead

LEMMA OpenFifoInv ==
  ASSUME IInv, NEW o \in Objects, NEW path \in Paths, OpenFifo(o, path) PROVE IInv'
  <1>1. o \notin live /\ live' = live \cup {o} /\ label_' \in [Objects -> Label]
    BY LabelWords DEF OpenFifo, Born, IInv, LabelsType
  <1>2. /\ \E d \in 0 .. MaxOpens : Obtain(o, table, d)
        /\ labels' \in Seq(Label) /\ Len(labels') <= MaxOpens
    BY ObtainArgument, LabelWords DEF OpenFifo
  <1> QED BY <1>1, <1>2, ReleaseKeeps, ObtainKeeps DEF IInv, OwnersType, LabelsType, Dead

LEMMA AdoptInv ==
  ASSUME IInv, NEW o \in Objects, NEW f \in Std, Adopt(o, f) PROVE IInv'
  <1> USE Bounds DEF IInv, OwnersType, Adopt, NoFd
  <1>1. f \in Fds /\ fd_' = [fd_ EXCEPT ![o] = f] /\ own' = [own EXCEPT ![o] = table[f]]
    OBVIOUS
  <1>2. table[f] # NoDesc BY DEF StdDesc, NoDesc
  <1>3. LabelsType' BY DEF LabelsType, Born
  <1>4. OwnersType' BY <1>1
  <1>5. Held' BY <1>1, <1>2 DEF Held
  <1>6. \A q \in Objects : fd_[q] # f BY <1>1 DEF Dead
  <1>7. Apart' BY <1>1, <1>6 DEF Apart
  <1>8. Dead' BY <1>1 DEF Dead, Born
  <1> QED BY <1>3, <1>4, <1>5, <1>7, <1>8

LEMMA PipeCreateInv ==
  ASSUME IInv, NEW r \in Objects, NEW w \in Objects, PipeCreate(r, w) PROVE IInv'
  <1> USE Bounds
  <1>1. /\ r \notin live /\ w \notin live /\ r # w /\ live' = live \cup {r, w}
        /\ fd_[r] = -1 /\ fd_[w] = -1
    BY DEF PipeCreate, IInv, Dead, NoFd
  <1>2. ASSUME fd_' = [fd_ EXCEPT ![r] = NoFd, ![w] = NoFd],
               own' = [own EXCEPT ![r] = NoDesc, ![w] = NoDesc],
               label_' = [label_ EXCEPT ![r] = "w", ![w] = "w"],
               UNCHANGED <<table, labels>>
        PROVE  IInv'
    <2>1. /\ fd_' = [fd_ EXCEPT ![r] = NoFd, ![w] = NoFd]
          /\ own' = [own EXCEPT ![r] = NoDesc, ![w] = NoDesc]
          /\ label_' = [label_ EXCEPT ![r] = "w", ![w] = "w"]
          /\ UNCHANGED <<table, labels>>
      BY <1>2
    <2>2. LabelsType' BY <1>1, <2>1, LabelWords DEF IInv, LabelsType
    <2>3. OwnersType' BY <2>1 DEF IInv, OwnersType, NoFd, NoDesc
    <2>4. Held' BY <2>1 DEF IInv, OwnersType, Held, NoFd
    <2>5. Apart' BY <2>1 DEF IInv, OwnersType, Apart, NoFd
    <2>6. Dead' BY <1>1, <2>1 DEF IInv, OwnersType, Dead
    <2> QED BY <2>2, <2>3, <2>4, <2>5, <2>6 DEF IInv
  <1>3. ASSUME NEW f \in Fds, NEW g \in Fds,
               Len(labels) + 2 <= MaxOpens,
               f \in LowestFree(table), g \in LowestFree([table EXCEPT ![f] = NewDesc]),
               table' = [table EXCEPT ![f] = NewDesc, ![g] = NewDesc + 1],
               labels' = labels \o <<"r", "w">>,
               fd_' = [fd_ EXCEPT ![r] = f, ![w] = g],
               own' = [own EXCEPT ![r] = NewDesc, ![w] = NewDesc + 1],
               label_' = [label_ EXCEPT ![r] = "r", ![w] = "w"]
        PROVE  IInv'
    <2>1. /\ NewDesc \in 1 .. MaxOpens /\ NewDesc + 1 \in 1 .. MaxOpens
          /\ NewDesc # 0 /\ NewDesc + 1 # 0
      BY <1>3 DEF IInv, OwnersType, LabelsType, NewDesc
    <2>2. f # g /\ table[f] = 0 /\ table[g] = 0
      BY <1>3, <2>1 DEF LowestFree, NoDesc, IInv, OwnersType, LabelsType
    <2>3. \A q \in Objects : fd_[q] # -1 => fd_[q] # f /\ fd_[q] # g
      BY <2>2 DEF IInv, Held, NoFd, NoDesc
    <2>4. labels' \in Seq(Label) /\ Len(labels') <= MaxOpens
      <3>1. "r" \in Label /\ "w" \in Label BY LabelWords
      <3>2. <<"r", "w">> \in Seq(Label) /\ Len(<<"r", "w">>) = 2 BY <3>1
      <3> QED BY <1>3, <3>2 DEF IInv, LabelsType
    <2>5. OwnersType' /\ LabelsType'
      <3>1. table' \in [Fds -> 0 .. MaxOpens]
        BY <1>3, <2>1 DEF IInv, OwnersType
      <3>2. own' \in [Objects -> 0 .. MaxOpens]
        <4>1. NewDesc \in 0 .. MaxOpens /\ NewDesc + 1 \in 0 .. MaxOpens BY <2>1
        <4>2. own \in [Objects -> 0 .. MaxOpens] BY DEF IInv, OwnersType
        <4> QED BY ONLY <1>3, <4>1, <4>2
      <3>3. fd_' \in [Objects -> Fds \cup {NoFd}]
        BY <1>3 DEF IInv, OwnersType
      <3>4. OwnersType' BY <3>1, <3>2, <3>3 DEF OwnersType
      <3>5. LabelsType' BY <1>1, <1>3, <2>4, LabelWords DEF IInv, LabelsType
      <3> QED BY <3>4, <3>5
    <2>6. Held'
      BY <1>1, <1>3, <2>1, <2>2, <2>3 DEF IInv, OwnersType, LabelsType, Held, NoFd, NoDesc
    <2>7. Apart'
      BY <1>1, <1>3, <2>2, <2>3 DEF IInv, OwnersType, LabelsType, Apart, NoFd
    <2>8. Dead'
      BY <1>1, <1>3 DEF IInv, OwnersType, LabelsType, Dead, NoFd
    <2> QED BY <2>5, <2>6, <2>7, <2>8 DEF IInv
  <1> QED BY <1>2, <1>3 DEF PipeCreate

LEMMA CopyConstructInv ==
  ASSUME IInv, ~CopiesInvalid, NEW o \in Objects, NEW p \in Objects,
         CopyConstruct(o, p)
  PROVE  IInv'
  <1>1. /\ o \notin live /\ live' = live \cup {o} /\ labels' = labels
        /\ label_' \in [Objects -> Label] /\ Obtain(o, table, DescOf(p, table))
    BY DEF CopyConstruct, Born, IInv, OwnersType, LabelsType
  <1>2. DescOf(p, table) \in 0 .. MaxOpens BY DescOfType DEF IInv, OwnersType, LabelsType
  <1> QED BY <1>1, <1>2, ReleaseKeeps, ObtainKeeps DEF IInv, OwnersType, LabelsType, Dead

LEMMA CopyAssignInv ==
  ASSUME IInv, NEW o \in Objects, NEW p \in Objects, CopyAssign(o, p) PROVE IInv'
  <1>1. /\ o \in live /\ live' = live /\ labels' = labels
        /\ label_' \in [Objects -> Label]
        /\ Obtain(o, Released(o), DescOf(p, Released(o)))
    BY DEF CopyAssign, IInv, OwnersType, LabelsType
  <1>2. Keeps(Released(o), o) BY ReleaseKeeps
  <1>3. DescOf(p, Released(o)) \in 0 .. MaxOpens BY <1>2, DescOfType DEF Keeps
  <1> QED BY <1>1, <1>2, <1>3, ObtainKeeps DEF IInv, OwnersType, LabelsType, Dead

LEMMA MoveLabelType ==
  ASSUME IInv, NEW o \in Objects, NEW p \in Objects, MoveLabel(o, p)
  PROVE  label_' \in [Objects -> Label]
  BY LabelWords DEF MoveLabel, IInv, OwnersType, LabelsType

LEMMA MoveConstructInv ==
  ASSUME IInv, NEW o \in Objects, NEW p \in Objects, MoveConstruct(o, p) PROVE IInv'
  <1>1. o # p /\ fd_[o] = NoFd BY DEF MoveConstruct, Born, IInv, Dead
  <1>2. label_' \in [Objects -> Label] BY MoveLabelType DEF MoveConstruct
  <1> QED BY <1>1, <1>2, Bounds
          DEF MoveConstruct, Born, IInv, OwnersType, LabelsType, Held, Apart, Dead, NoFd, NoDesc

LEMMA MoveAssignInv ==
  ASSUME IInv, NEW o \in Objects, NEW p \in Objects, MoveAssign(o, p) PROVE IInv'
  <1> USE Bounds DEF MoveAssign, IInv, OwnersType, LabelsType, NoFd, NoDesc
  <1>1. label_' \in [Objects -> Label] BY MoveLabelType
  <1>2. table' \in [Fds -> 0 .. MaxOpens] BY ReleaseKeeps DEF Keeps
  <1>3. OwnersType' /\ LabelsType'
    <2>1. Rest(o) \in Fds \cup {-1} BY DEF Rest
    <2>2. OwnersType' BY <1>2, <2>1
    <2>3. LabelsType' BY <1>1
    <2> QED BY <2>2, <2>3
  <1>4. \A q \in Objects : fd_[q] # -1 /\ q # o => table'[fd_[q]] = own[q]
    BY ReleaseKeeps DEF Keeps
  <1>6. Held'
    <2>1. CASE fd_[o] > 0
      <3>1. Rest(o) = -1 BY <2>1 DEF Rest
      <3> QED BY <1>4, <2>1, <3>1 DEF Held, Apart
    <2>2. CASE ~ fd_[o] > 0
      <3>1. table' = table BY <2>2 DEF Released
      <3>2. Rest(o) = fd_[o] BY <2>2 DEF Rest
      <3> QED BY <2>2, <3>1, <3>2 DEF Held
    <2> QED BY <2>1, <2>2
  <1>7. Apart' BY DEF Apart, Rest
  <1>8. Dead' BY DEF Dead
  <1> QED BY <1>3, <1>6, <1>7, <1>8

LEMMA DestroyInv == ASSUME IInv, NEW o \in Objects, Destroy(o) PROVE IInv'
  <1> USE Bounds DEF IInv, OwnersType, Destroy, NoFd, NoDesc
  <1>1. \A q \in Objects : q # o /\ fd_[q] # -1 => table'[fd_[q]] = own[q]
    BY ReleaseKeeps DEF Keeps
  <1>2. OwnersType' BY ReleaseKeeps DEF Keeps
  <1>3. LabelsType' BY LabelWords DEF LabelsType
  <1>4. Held' BY <1>1 DEF Held
  <1>5. Apart' BY DEF Apart
  <1>6. Dead' BY DEF Dead
  <1> QED BY <1>2, <1>3, <1>4, <1>5, <1>6

-----------------------------------------------------------------------------

LEMMA InitInv == ASSUME Init PROVE IInv
  <1> USE Bounds DEF Init, NoFd, NoDesc, StdDesc
  <1>1. OwnersType BY DEF OwnersType
  <1>2. LabelsType
    <2>1. "-" \in Label BY LabelWords
    <2>2. labels \in Seq(Label) /\ Len(labels) = 1 BY <2>1
    <2> QED BY <2>1, <2>2 DEF LabelsType
  <1> QED BY <1>1, <1>2 DEF IInv, Held, Apart, Dead

LEMMA StepInv == ASSUME IInv, ~CopiesInvalid, [Next]_vars PROVE IInv'
  <1>1. CASE UNCHANGED vars
    BY <1>1 DEF vars, IInv, OwnersType, LabelsType, Held, Apart, Dead
  <1>2. ASSUME NEW o \in Objects, Default(o) \/ OpenFile(o) \/ Destroy(o) PROVE IInv'
    BY <1>2, DefaultInv, OpenFileInv, DestroyInv
  <1>3. ASSUME NEW o \in Objects, NEW f \in Std, Adopt(o, f) PROVE IInv'
    BY <1>3, AdoptInv
  <1>4. ASSUME NEW o \in Objects, NEW path \in Paths, OpenFifo(o, path) PROVE IInv'
    BY <1>4, OpenFifoInv
  <1>5. ASSUME NEW o \in Objects, NEW p \in Objects,
               \/ PipeCreate(o, p) \/ CopyConstruct(o, p) \/ CopyAssign(o, p)
               \/ MoveConstruct(o, p) \/ MoveAssign(o, p)
        PROVE  IInv'
    BY <1>5, PipeCreateInv, CopyConstructInv, CopyAssignInv, MoveConstructInv, MoveAssignInv
  <1> QED BY <1>1, <1>2, <1>3, <1>4, <1>5 DEF Next

\* The inductive invariant: who holds which descriptor, however objects are
\* created, copied, moved, assigned and destroyed.
THEOREM Invariance == ASSUME ~CopiesInvalid PROVE Spec => []IInv
  <1>1. IInv /\ [Next]_vars => IInv' BY StepInv
  <1> QED BY <1>1, InitInv, PTL DEF Spec

\* Every variable of Descriptors keeps its type.
THEOREM TypeCorrect == ASSUME ~CopiesInvalid PROVE Spec => []TypeOK
  <1>1. IInv => TypeOK BY DEF IInv, OwnersType, LabelsType, TypeOK
  <1> QED BY <1>1, Invariance, PTL

\* No two objects hold one descriptor, so that none closes another's: for
\* any numbers of Files, Pipes, Fifos and descriptors (file.cpp, pipe.cpp,
\* fifo.cpp).
THEOREM OwnersAreExclusive == ASSUME ~CopiesInvalid PROVE Spec => []Exclusive
  <1>1. IInv => Exclusive BY DEF IInv, Apart, Exclusive, Valid
  <1> QED BY <1>1, Invariance, PTL

\* What a valid object holds is still what it obtained: no operation on
\* another object closes or replaces it.
THEOREM OwnersAreNotStale == ASSUME ~CopiesInvalid PROVE Spec => []NotStale
  <1>1. IInv => NotStale BY DEF IInv, Held, NotStale, Valid
  <1> QED BY <1>1, Invariance, PTL

-----------------------------------------------------------------------------
(* No descriptor is leaked, when the process is started with a descriptor  *)
(* 0: no operation closes that one.                                        *)

\* A descriptor of a table that needs no owner.
Inherited(tab, f) == f \in Std /\ tab[f] = StdDesc

Owned == \A f \in Fds :
  table[f] # NoDesc => Inherited(table, f) \/ \E o \in Objects : fd_[o] = f

ZeroOpen == table[0] = StdDesc

OInv == IInv /\ Owned /\ ZeroOpen

\* What is open in a table belongs to somebody else than o.
OthersOwn(tab, o) == \A f \in Fds :
  tab[f] # NoDesc => Inherited(tab, f) \/ \E q \in Objects : q # o /\ fd_[q] = f

LEMMA ZeroFd == ASSUME 0 \in Std PROVE 0 \in Fds
  BY Bounds

LEMMA ObtainOwned ==
  ASSUME IInv, 0 \in Std, NEW o \in Objects, NEW d \in 0 .. MaxOpens,
         NEW tab \in [Fds -> 0 .. MaxOpens], OthersOwn(tab, o), tab[0] = StdDesc,
         Obtain(o, tab, d)
  PROVE  Owned' /\ ZeroOpen'
  <1> USE Bounds DEF IInv, OwnersType, OthersOwn, Owned, ZeroOpen, Inherited, StdDesc, NoDesc
  <1>1. CASE Given(o, tab, d)
    <2>1. PICK g \in Fds : /\ tab[g] = 0 /\ table' = [tab EXCEPT ![g] = d]
                           /\ fd_' = [fd_ EXCEPT ![o] = g]
      BY <1>1 DEF Given, LowestFree
    <2>2. g # 0 BY <2>1
    <2>3. ZeroOpen' BY <2>1, <2>2, ZeroFd
    <2>4. ASSUME NEW f \in Fds, table'[f] # 0
          PROVE  Inherited(table', f) \/ \E q \in Objects : fd_'[q] = f
      <3>1. CASE f = g BY <2>1, <3>1
      <3>2. CASE f # g
        <4>1. table'[f] = tab[f] BY <2>1, <3>2
        <4>2. CASE Inherited(tab, f) BY <4>1, <4>2
        <4>3. ASSUME NEW q \in Objects, q # o, fd_[q] = f
              PROVE  fd_'[q] = f
          BY <2>1, <4>3
        <4> QED BY <2>4, <4>1, <4>2, <4>3
      <3> QED BY <3>1, <3>2
    <2> QED BY <2>3, <2>4
  <1>2. CASE Refused(o, tab, d, NoFd)
    <2>1. table' = tab /\ fd_' = [fd_ EXCEPT ![o] = NoFd] BY <1>2 DEF Refused
    <2>2. \A q \in Objects : q # o => fd_'[q] = fd_[q] BY <2>1
    <2> QED BY <2>1, <2>2
  <1> QED BY <1>1, <1>2 DEF Obtain

\* An object that does not exist owns nothing.
LEMMA DeadOwnsNothing ==
  ASSUME OInv, NEW o \in Objects, o \notin live
  PROVE  OthersOwn(table, o)
  <1>1. fd_[o] = NoFd BY DEF OInv, IInv, Dead
  <1>2. \A f \in Fds : f # NoFd BY Bounds DEF NoFd
  <1> QED BY <1>1, <1>2 DEF OInv, Owned, OthersOwn

\* Once it has closed what it closes, an object owns nothing.
LEMMA ReleasedOwnsNothing ==
  ASSUME OInv, 0 \in Std, NEW o \in Objects
  PROVE  OthersOwn(Released(o), o) /\ Released(o)[0] = StdDesc
  <1> USE Bounds, ZeroFd DEF OInv, IInv, OwnersType, OthersOwn, Owned, ZeroOpen, Inherited, StdDesc, NoDesc
  <1>1. CASE fd_[o] > 0
    <2>1. Released(o) = [table EXCEPT ![fd_[o]] = 0] BY <1>1 DEF Released
    <2>2. fd_[o] \in Fds BY <1>1 DEF NoFd
    <2>3. Released(o)[0] = 1 BY <1>1, <2>1
    <2>4. ASSUME NEW f \in Fds, Released(o)[f] # 0
          PROVE  f # fd_[o] /\ Released(o)[f] = table[f]
      BY <2>1, <2>2, <2>4
    <2> QED BY <2>3, <2>4
  <1>2. CASE ~ fd_[o] > 0
    <2>1. Released(o) = table BY <1>2 DEF Released
    <2>2. \A f \in Fds : fd_[o] = f => f = 0 BY <1>2
    <2> QED BY <2>1, <2>2
  <1> QED BY <1>1, <1>2

LEMMA OwnedStep ==
  ASSUME OInv, 0 \in Std, ~CopiesInvalid, [Next]_vars
  PROVE  Owned' /\ ZeroOpen'
  <1> USE Bounds, ZeroFd
  <1>0. IInv /\ Owned /\ ZeroOpen /\ table \in [Fds -> 0 .. MaxOpens]
        /\ fd_ \in [Objects -> Fds \cup {NoFd}]
    BY DEF OInv, IInv, OwnersType
  <1>1. CASE UNCHANGED vars
    BY <1>0, <1>1 DEF vars, Owned, ZeroOpen, Inherited
  <1>2. ASSUME NEW o \in Objects, o \notin live, NEW d \in 0 .. MaxOpens,
               Obtain(o, table, d)
        PROVE  Owned' /\ ZeroOpen'
    BY <1>0, <1>2, DeadOwnsNothing, ObtainOwned DEF ZeroOpen
  <1>3. ASSUME NEW o \in Objects, Default(o) PROVE Owned' /\ ZeroOpen'
    <2>1. /\ fd_[o] = NoFd /\ fd_' = [fd_ EXCEPT ![o] = NoFd] /\ table' = table
      BY <1>0, <1>3 DEF Default, Born, IInv, Dead
    <2>2. fd_' = fd_ BY <1>0, <2>1
    <2> QED BY <1>0, <2>1, <2>2 DEF Owned, ZeroOpen, Inherited
  <1>4. ASSUME NEW o \in Objects, OpenFile(o) PROVE Owned' /\ ZeroOpen'
    BY <1>0, <1>2, <1>4, ObtainArgument, LabelWords DEF OpenFile, Born
  <1>5. ASSUME NEW o \in Objects, NEW path \in Paths, OpenFifo(o, path)
        PROVE  Owned' /\ ZeroOpen'
    BY <1>0, <1>2, <1>5, ObtainArgument, LabelWords DEF OpenFifo, Born
  <1>6. ASSUME NEW o \in Objects, NEW f \in Std, Adopt(o, f) PROVE Owned' /\ ZeroOpen'
    <2>1. table' = table /\ fd_[o] = NoFd /\ fd_' = [fd_ EXCEPT ![o] = f]
      BY <1>0, <1>6 DEF Adopt, Born, IInv, Dead
    <2>2. \A q \in Objects : fd_[q] \in Fds => fd_'[q] = fd_[q] BY <1>0, <2>1 DEF NoFd
    <2> QED BY <1>0, <2>1, <2>2 DEF Owned, ZeroOpen, Inherited
  <1>7. ASSUME NEW r \in Objects, NEW w \in Objects, PipeCreate(r, w)
        PROVE  Owned' /\ ZeroOpen'
    <2>1. r # w /\ fd_[r] = -1 /\ fd_[w] = -1
      BY <1>0, <1>7 DEF PipeCreate, IInv, Dead, NoFd
    <2>2. CASE table' = table /\ fd_' = [fd_ EXCEPT ![r] = NoFd, ![w] = NoFd]
      <3>1. fd_' = fd_ BY <1>0, <2>1, <2>2 DEF NoFd
      <3> QED BY <1>0, <2>2, <3>1 DEF Owned, ZeroOpen, Inherited
    <2>3. ASSUME NEW f \in Fds, NEW g \in Fds, f # g, table[f] = 0, table[g] = 0,
                 table' = [table EXCEPT ![f] = NewDesc, ![g] = NewDesc + 1],
                 fd_' = [fd_ EXCEPT ![r] = f, ![w] = g]
          PROVE  Owned' /\ ZeroOpen'
      <3>1. ZeroOpen' BY <1>0, <2>3 DEF ZeroOpen, StdDesc
      <3>2. \A q \in Objects : fd_[q] \in Fds => fd_'[q] = fd_[q]
        BY <1>0, <2>1, <2>3
      <3>3. fd_'[r] = f /\ fd_'[w] = g BY <1>0, <2>1, <2>3
      <3>4. \A h \in Fds : h # f /\ h # g => table'[h] = table[h] BY <1>0, <2>3
      <3> QED BY <1>0, <3>1, <3>2, <3>3, <3>4 DEF Owned, Inherited
    <2>4. ASSUME NEW f \in Fds, NEW g \in Fds, f \in LowestFree(table),
                 g \in LowestFree([table EXCEPT ![f] = NewDesc]),
                 Len(labels) + 2 <= MaxOpens
          PROVE  f # g /\ table[f] = 0 /\ table[g] = 0
      <3>1. NewDesc \in 1 .. MaxOpens BY <1>0, <2>4 DEF NewDesc, IInv, LabelsType
      <3> QED BY <1>0, <2>4, <3>1 DEF LowestFree, NoDesc
    <2> QED BY <1>7, <2>2, <2>3, <2>4 DEF PipeCreate
  <1>8. ASSUME NEW o \in Objects, NEW p \in Objects, CopyConstruct(o, p)
        PROVE  Owned' /\ ZeroOpen'
    <2>1. o \notin live /\ Obtain(o, table, DescOf(p, table))
      BY <1>8 DEF CopyConstruct, Born
    <2> QED BY <1>0, <1>2, <2>1, DescOfType
  <1>9. ASSUME NEW o \in Objects, NEW p \in Objects, CopyAssign(o, p)
        PROVE  Owned' /\ ZeroOpen'
    <2>1. Obtain(o, Released(o), DescOf(p, Released(o))) BY <1>9 DEF CopyAssign
    <2>2. Released(o) \in [Fds -> 0 .. MaxOpens] BY <1>0, ReleaseKeeps DEF Keeps
    <2> QED BY <1>0, <2>1, <2>2, DescOfType, ReleasedOwnsNothing, ObtainOwned
  <1>10. ASSUME NEW o \in Objects, NEW p \in Objects, MoveConstruct(o, p)
         PROVE  Owned' /\ ZeroOpen'
    <2>1. /\ o # p /\ fd_[o] = NoFd /\ table' = table
          /\ fd_' = [fd_ EXCEPT ![o] = fd_[p], ![p] = NoFd]
      BY <1>0, <1>10 DEF MoveConstruct, Born, IInv, Dead
    <2>2. fd_'[o] = fd_[p] BY <1>0, <2>1
    <2>3. \A q \in Objects : q # p /\ fd_[q] \in Fds => fd_'[q] = fd_[q]
      BY <1>0, <2>1 DEF NoFd
    <2> QED BY <1>0, <2>1, <2>2, <2>3 DEF Owned, ZeroOpen, Inherited
  <1>11. ASSUME NEW o \in Objects, NEW p \in Objects, MoveAssign(o, p)
         PROVE  Owned' /\ ZeroOpen'
    <2>1. /\ table' = Released(o)
          /\ fd_' = [fd_ EXCEPT ![o] = fd_[p], ![p] = Rest(o)]
      BY <1>11 DEF MoveAssign
    <2>2. OthersOwn(table', o) /\ ZeroOpen'
      BY <1>0, <2>1, ReleasedOwnsNothing DEF ZeroOpen
    <2>3. \A q \in Objects : q # o /\ q # p => fd_'[q] = fd_[q] BY <1>0, <2>1
    <2>4. p # o => fd_'[o] = fd_[p] BY <1>0, <2>1
    <2> QED BY <2>2, <2>3, <2>4 DEF OthersOwn, Owned, Inherited
  <1>12. ASSUME NEW o \in Objects, Destroy(o) PROVE Owned' /\ ZeroOpen'
    <2>1. table' = Released(o) /\ fd_' = [fd_ EXCEPT ![o] = NoFd]
      BY <1>12 DEF Destroy
    <2>2. OthersOwn(table', o) /\ ZeroOpen'
      BY <1>0, <2>1, ReleasedOwnsNothing DEF ZeroOpen
    <2>3. \A q \in Objects : q # o => fd_'[q] = fd_[q] BY <1>0, <2>1
    <2> QED BY <2>2, <2>3 DEF OthersOwn, Owned, Inherited
  <1> QED BY <1>1, <1>3, <1>4, <1>5, <1>6, <1>7, <1>8, <1>9, <1>10, <1>11, <1>12 DEF Next

\* Every open descriptor is held by an object or is one of those the process
\* was started with: for any numbers of objects and descriptors, as long as
\* 0 is one of those, because the destructor and the assignments (file.cpp
\* 35, 52, 63; pipe.cpp 36, 55; fifo.cpp 47, 71) do not close it.
THEOREM NothingLeaks == ASSUME ~CopiesInvalid, 0 \in Std PROVE Spec => []NoLeak
  <1>1. Init => OInv
    <2>1. ASSUME Init PROVE Owned /\ ZeroOpen
      BY <2>1, Bounds, ZeroFd DEF Init, Owned, ZeroOpen, Inherited, NoDesc, StdDesc
    <2> QED BY <2>1, InitInv DEF OInv
  <1>2. OInv /\ [Next]_vars => OInv' BY StepInv, OwnedStep DEF OInv
  <1>3. OInv => NoLeak
    <2>1. \A f \in Fds : f # NoFd BY Bounds DEF NoFd
    <2> QED BY <2>1 DEF OInv, IInv, Dead, Owned, Inherited, NoLeak, Valid
  <1> QED BY <1>1, <1>2, <1>3, PTL DEF Spec

-----------------------------------------------------------------------------
(* Labels.  A Pipe or a Fifo that holds descriptor 0 could swap it in an   *)
(* assignment without its label; none does, because 0 is the terminal's.   *)

\* What o says of itself is what it obtained, which is not the terminal.
Labelled(o) == fd_[o] # NoFd => /\ own[o] \in 2 .. Len(labels)
                                /\ label_[o] = labels[own[o]]

LInv == /\ Len(labels) >= 1
        /\ \A o \in Pipes \cup Fifos : Labelled(o)

\* The invariant of a step that concerns o and p only.
LEMMA TwoLabels ==
  ASSUME IInv, LInv, NEW o \in Objects, NEW p \in Objects,
         labels' \in Seq(Label), Len(labels') >= Len(labels),
         \A i \in 1 .. Len(labels) : labels'[i] = labels[i],
         \A q \in Objects : q # o /\ q # p =>
            fd_'[q] = fd_[q] /\ own'[q] = own[q] /\ label_'[q] = label_[q],
         o \in Pipes \cup Fifos => Labelled(o)',
         p \in Pipes \cup Fifos => Labelled(p)'
  PROVE  LInv'
  <1>1. Len(labels) \in Nat /\ Len(labels') \in Nat BY DEF IInv, LabelsType
  <1>2. Len(labels') >= 1 BY <1>1 DEF LInv
  <1>3. ASSUME NEW q \in Pipes \cup Fifos PROVE Labelled(q)'
    <2>1. CASE q = o \/ q = p BY <2>1
    <2>2. CASE q # o /\ q # p
      <3>1. fd_'[q] = fd_[q] /\ own'[q] = own[q] /\ label_'[q] = label_[q]
        BY <2>2 DEF Objects
      <3>2. fd_[q] # NoFd => own[q] \in 2 .. Len(labels) /\ label_[q] = labels[own[q]]
        BY DEF LInv, Labelled
      <3>3. own[q] \in 2 .. Len(labels) =>
              own[q] \in 1 .. Len(labels) /\ own[q] \in 2 .. Len(labels')
        BY <1>1
      <3> QED BY <3>1, <3>2, <3>3 DEF Labelled
    <2> QED BY <2>1, <2>2
  <1> QED BY <1>2, <1>3 DEF LInv

\* An obtained description is what was asked for.
LEMMA Obtained ==
  ASSUME IInv, NEW o \in Objects, NEW tab, NEW d \in 0 .. MaxOpens, Obtain(o, tab, d)
  PROVE  /\ fd_'[o] # NoFd => d # NoDesc /\ own'[o] = d
         /\ \A q \in Objects : q # o => fd_'[q] = fd_[q] /\ own'[q] = own[q]
  <1>1. CASE Given(o, tab, d)
    BY <1>1 DEF Given, IInv, OwnersType
  <1>2. CASE Refused(o, tab, d, NoFd)
    BY <1>2 DEF Refused, IInv, OwnersType
  <1> QED BY <1>1, <1>2 DEF Obtain

\* A copy obtains what its source has, with the label of the source.
LEMMA CopyLabels ==
  ASSUME IInv, LInv, NEW o \in Objects, NEW p \in Objects, o # p, SameClass(o, p),
         NEW tab, Keeps(tab, o), Obtain(o, tab, DescOf(p, tab)),
         label_' = [label_ EXCEPT ![o] = label_[p]], labels' = labels
  PROVE  LInv'
  <1>1. DescOf(p, tab) \in 0 .. MaxOpens BY DescOfType DEF Keeps
  <1>2. /\ fd_'[o] # NoFd => DescOf(p, tab) # NoDesc /\ own'[o] = DescOf(p, tab)
        /\ \A q \in Objects : q # o => fd_'[q] = fd_[q] /\ own'[q] = own[q]
    BY <1>1, Obtained
  <1>3. fd_'[o] # NoFd => fd_[p] # NoFd /\ own'[o] = own[p]
    BY <1>2 DEF DescOf, Keeps
  <1>4. /\ label_'[o] = label_[p]
        /\ \A q \in Objects : q # o => label_'[q] = label_[q]
    BY DEF IInv, LabelsType
  <1>5. ASSUME o \in Pipes \cup Fifos PROVE Labelled(o)'
    <2>1. p \in Pipes \cup Fifos BY <1>5, DescriptorsAssumption DEF SameClass
    <2>2. Labelled(p) BY <2>1 DEF LInv
    <2> QED BY <1>3, <1>4, <2>2 DEF Labelled
  <1>6. labels' \in Seq(Label) /\ Len(labels) \in Nat BY DEF IInv, LabelsType
  <1> QED BY <1>2, <1>4, <1>5, <1>6, TwoLabels

\* A moved object takes its label along; what it leaves behind has none or
\* holds nothing.
LEMMA MoveLabels ==
  ASSUME IInv, LInv, NEW o \in Objects, NEW p \in Objects, SameClass(o, p),
         MoveLabel(o, p), labels' = labels, NEW rest,
         o \in Pipes \cup Fifos => rest = NoFd,
         fd_' = [fd_ EXCEPT ![o] = fd_[p], ![p] = rest],
         own'[o] = own[p] \/ o = p,
         \A q \in Objects : q # o /\ q # p => own'[q] = own[q]
  PROVE  LInv'
  <1>1. /\ fd_'[p] = rest /\ (o # p => fd_'[o] = fd_[p])
        /\ \A q \in Objects : q # o /\ q # p => fd_'[q] = fd_[q]
    BY DEF IInv, OwnersType
  <1>2. /\ o # p => label_'[o] = label_[p]
        /\ \A q \in Objects : q # o /\ q # p => label_'[q] = label_[q]
    BY DEF MoveLabel, IInv, LabelsType
  <1>3. o \in Pipes \cup Fifos <=> p \in Pipes \cup Fifos
    BY DescriptorsAssumption DEF SameClass
  <1>4. ASSUME p \in Pipes \cup Fifos PROVE Labelled(p)'
    BY <1>1, <1>3, <1>4 DEF Labelled
  <1>5. ASSUME o \in Pipes \cup Fifos PROVE Labelled(o)'
    <2>1. CASE o = p BY <1>4, <1>5, <2>1
    <2>2. CASE o # p
      <3>1. Labelled(p) BY <1>3, <1>5 DEF LInv
      <3> QED BY <1>1, <1>2, <2>2, <3>1 DEF Labelled
    <2> QED BY <2>1, <2>2
  <1>6. labels' \in Seq(Label) /\ Len(labels) \in Nat BY DEF IInv, LabelsType
  <1>7. \A q \in Objects : q # o /\ q # p =>
          fd_'[q] = fd_[q] /\ own'[q] = own[q] /\ label_'[q] = label_[q]
    BY <1>1, <1>2
  <1>8. Len(labels') >= Len(labels) /\ \A i \in 1 .. Len(labels) : labels'[i] = labels[i]
    BY <1>6
  <1> QED BY <1>4, <1>5, <1>6, <1>7, <1>8, TwoLabels

\* Every step keeps the labels.
LEMMA LabelsStep ==
  ASSUME OInv, LInv, 0 \in Std, ~CopiesInvalid, [Next]_vars
  PROVE  LInv'
  <1> USE Bounds, ZeroFd
  <1>0. /\ IInv /\ ZeroOpen /\ labels \in Seq(Label) /\ Len(labels) \in Nat
        /\ fd_ \in [Objects -> Fds \cup {NoFd}] /\ own \in [Objects -> 0 .. MaxOpens]
        /\ label_ \in [Objects -> Label]
    BY DEF OInv, IInv, OwnersType, LabelsType
  <1>1. CASE UNCHANGED vars
    BY <1>1 DEF vars, LInv, Labelled
  <1>2. ASSUME NEW o \in Objects, fd_'[o] = NoFd, labels' = labels,
               \A q \in Objects : q # o =>
                 fd_'[q] = fd_[q] /\ own'[q] = own[q] /\ label_'[q] = label_[q]
        PROVE  LInv'
    BY <1>0, <1>2, TwoLabels DEF Labelled
  <1>3. ASSUME NEW o \in Objects, Default(o) \/ Destroy(o) PROVE LInv'
    BY <1>0, <1>2, <1>3 DEF Default, Destroy
  <1>4. ASSUME NEW o \in Files, label_' = label_,
               \A q \in Objects : q # o => fd_'[q] = fd_[q] /\ own'[q] = own[q],
               labels' = labels \/ \E l \in Label : labels' = Append(labels, l)
        PROVE  LInv'
    <2>1. o \in Objects /\ o \notin Pipes \cup Fifos
      BY DescriptorsAssumption DEF Objects
    <2>2. /\ labels' \in Seq(Label) /\ Len(labels') >= Len(labels)
          /\ \A i \in 1 .. Len(labels) : labels'[i] = labels[i]
      <3>1. CASE labels' = labels BY <1>0, <3>1
      <3>2. ASSUME NEW l \in Label, labels' = Append(labels, l) PROVE <2>2
        BY <1>0, <3>2
      <3> QED BY <1>4, <3>1, <3>2
    <2> QED BY <1>0, <1>4, <2>1, <2>2, TwoLabels
  <1>5. ASSUME NEW o \in Objects, OpenFile(o) PROVE LInv'
    <2>1. \A q \in Objects : q # o => fd_'[q] = fd_[q] /\ own'[q] = own[q]
      BY <1>0, <1>5, ObtainArgument, Obtained, LabelWords DEF OpenFile
    <2> QED BY <1>4, <1>5, <2>1, LabelWords DEF OpenFile, Fresh
  <1>6. ASSUME NEW o \in Objects, NEW f \in Std, Adopt(o, f) PROVE LInv'
    BY <1>0, <1>4, <1>6 DEF Adopt
  <1>7. ASSUME NEW o \in Objects, NEW path \in Paths, OpenFifo(o, path) PROVE LInv'
    <2>1. /\ o \in Objects /\ label_'[o] = path
          /\ \A q \in Objects : q # o => label_'[q] = label_[q]
      BY <1>0, <1>7, LabelWords DEF OpenFifo
    <2>2. CASE Obtain(o, table, NoDesc) /\ UNCHANGED labels
      <3>1. fd_'[o] = NoFd /\ \A q \in Objects : q # o => fd_'[q] = fd_[q] /\ own'[q] = own[q]
        <4>1. NoDesc \in 0 .. MaxOpens BY DEF NoDesc
        <4> QED BY <1>0, <2>2, <4>1, Obtained
      <3> QED BY <1>2, <2>1, <2>2, <3>1
    <2>3. CASE Fresh(path) /\ Obtain(o, table, NewDesc)
      <3>1. NewDesc \in 1 .. MaxOpens BY <1>0, <2>3, FreshType, LabelWords
      <3>2. NewDesc \in 0 .. MaxOpens BY <3>1
      <3>3. /\ fd_'[o] # NoFd => own'[o] = NewDesc
            /\ \A q \in Objects : q # o => fd_'[q] = fd_[q] /\ own'[q] = own[q]
        BY <1>0, <2>3, <3>2, Obtained
      <3>4. /\ labels' \in Seq(Label) /\ Len(labels') = NewDesc /\ NewDesc >= 2
            /\ labels'[NewDesc] = path
            /\ \A i \in 1 .. Len(labels) : labels'[i] = labels[i]
            /\ Len(labels') >= Len(labels)
        <4>1. labels' = Append(labels, path) /\ path \in Label
          BY <2>3, LabelWords DEF Fresh
        <4>2. Len(labels) >= 1 BY DEF LInv
        <4> QED BY <1>0, <4>1, <4>2 DEF NewDesc
      <3>5. Labelled(o)'
        BY <2>1, <3>1, <3>3, <3>4 DEF Labelled
      <3> QED BY <1>0, <2>1, <3>3, <3>4, <3>5, TwoLabels
    <2> QED BY <1>7, <2>2, <2>3 DEF OpenFifo
  <1>8. ASSUME NEW r \in Objects, NEW w \in Objects, PipeCreate(r, w) PROVE LInv'
    <2>0. r # w BY <1>8 DEF PipeCreate
    <2>1. CASE /\ fd_' = [fd_ EXCEPT ![r] = NoFd, ![w] = NoFd]
               /\ own' = [own EXCEPT ![r] = NoDesc, ![w] = NoDesc]
               /\ label_' = [label_ EXCEPT ![r] = "w", ![w] = "w"]
               /\ UNCHANGED <<table, labels>>
      <3>1. /\ fd_'[r] = NoFd /\ fd_'[w] = NoFd
            /\ \A q \in Objects : q # r /\ q # w =>
                 fd_'[q] = fd_[q] /\ own'[q] = own[q] /\ label_'[q] = label_[q]
        BY <1>0, <2>0, <2>1
      <3> QED BY <1>0, <2>1, <3>1, TwoLabels DEF Labelled
    <2>2. ASSUME NEW f \in Fds, NEW g \in Fds,
                 labels' = labels \o <<"r", "w">>,
                 fd_' = [fd_ EXCEPT ![r] = f, ![w] = g],
                 own' = [own EXCEPT ![r] = NewDesc, ![w] = NewDesc + 1],
                 label_' = [label_ EXCEPT ![r] = "r", ![w] = "w"]
          PROVE  LInv'
      <3>1. /\ own'[r] = NewDesc /\ own'[w] = NewDesc + 1
            /\ label_'[r] = "r" /\ label_'[w] = "w"
            /\ \A q \in Objects : q # r /\ q # w =>
                 fd_'[q] = fd_[q] /\ own'[q] = own[q] /\ label_'[q] = label_[q]
        BY <1>0, <2>0, <2>2
      <3>2. <<"r", "w">> \in Seq(Label) /\ Len(<<"r", "w">>) = 2
        <4>1. "r" \in Label /\ "w" \in Label BY LabelWords
        <4> QED BY <4>1
      <3>3. /\ labels' \in Seq(Label) /\ Len(labels') = NewDesc + 1
            /\ NewDesc \in Nat /\ NewDesc >= 2 /\ Len(labels') >= Len(labels)
            /\ labels'[NewDesc] = "r" /\ labels'[NewDesc + 1] = "w"
            /\ \A i \in 1 .. Len(labels) : labels'[i] = labels[i]
        BY <1>0, <2>2, <3>2 DEF NewDesc, LInv
      <3>4. Labelled(r)' /\ Labelled(w)'
        BY <3>1, <3>3 DEF Labelled
      <3> QED BY <1>0, <3>1, <3>3, <3>4, TwoLabels
    <2> QED BY <1>8, <2>1, <2>2 DEF PipeCreate
  <1>9. ASSUME NEW o \in Objects, NEW p \in Objects, CopyConstruct(o, p) PROVE LInv'
    <2>1. o # p BY <1>9 DEF CopyConstruct, Born
    <2> QED BY <1>0, <1>9, <2>1, ReleaseKeeps, CopyLabels DEF CopyConstruct
  <1>10. ASSUME NEW o \in Objects, NEW p \in Objects, CopyAssign(o, p) PROVE LInv'
    BY <1>0, <1>10, ReleaseKeeps, CopyLabels DEF CopyAssign
  <1>11. ASSUME NEW o \in Objects, NEW p \in Objects, MoveConstruct(o, p) PROVE LInv'
    <2>1. /\ SameClass(o, p) /\ MoveLabel(o, p) /\ labels' = labels /\ o # p
          /\ fd_' = [fd_ EXCEPT ![o] = fd_[p], ![p] = NoFd]
          /\ own' = [own EXCEPT ![o] = own[p], ![p] = NoDesc]
      BY <1>11 DEF MoveConstruct, Born
    <2>2. own'[o] = own[p] /\ \A q \in Objects : q # o /\ q # p => own'[q] = own[q]
      BY <1>0, <2>1
    <2> QED BY <1>0, <2>1, <2>2, MoveLabels
  <1>12. ASSUME NEW o \in Objects, NEW p \in Objects, MoveAssign(o, p) PROVE LInv'
    <2> DEFINE d == IF Rest(o) = NoFd THEN NoDesc ELSE own[o]
    <2>1. /\ SameClass(o, p) /\ MoveLabel(o, p) /\ labels' = labels
          /\ fd_' = [fd_ EXCEPT ![o] = fd_[p], ![p] = Rest(o)]
          /\ own' = [own EXCEPT ![o] = own[p], ![p] = d]
      BY <1>12 DEF MoveAssign
    <2> HIDE DEF d
    <2>2. /\ o # p => own'[o] = own[p]
          /\ \A q \in Objects : q # o /\ q # p => own'[q] = own[q]
      BY <1>0, <2>1
    <2>3. ASSUME o \in Pipes \cup Fifos PROVE Rest(o) = NoFd
      <3>1. fd_[o] # 0
        <4>1. ASSUME fd_[o] = 0 PROVE FALSE
          <5>1. own[o] = StdDesc
            BY <1>0, <4>1 DEF ZeroOpen, IInv, Held, NoFd
          <5>2. own[o] \in 2 .. Len(labels)
            BY <2>3, <4>1 DEF LInv, Labelled, NoFd
          <5> QED BY <5>1, <5>2 DEF StdDesc
        <4> QED BY <4>1
      <3>2. fd_[o] \in Fds \cup {NoFd} BY <1>0
      <3>3. CASE fd_[o] = NoFd BY <3>3 DEF Rest, NoFd
      <3>4. CASE fd_[o] \in Fds
        <4>1. fd_[o] \in Nat BY <3>4, Bounds
        <4>2. fd_[o] > 0 BY <3>1, <4>1
        <4> QED BY <4>2 DEF Rest
      <3> QED BY <3>2, <3>3, <3>4
    <2> QED BY <1>0, <2>1, <2>2, <2>3, MoveLabels
  <1> QED BY <1>1, <1>3, <1>5, <1>6, <1>7, <1>8, <1>9, <1>10, <1>11, <1>12 DEF Next

\* is_read_end() and pathname() tell the truth of a valid Pipe or Fifo,
\* however it was copied, moved and assigned: for any numbers of objects and
\* descriptors, as long as descriptor 0 was inherited and no File that holds
\* nothing is copied (pipe.cpp 9-66, fifo.cpp 14-83).
THEOREM LabelsAreTrue == ASSUME ~CopiesInvalid, 0 \in Std PROVE Spec => []LabelTrue
  <1>1. Init => OInv /\ LInv
    <2>1. ASSUME Init PROVE Owned /\ ZeroOpen
      BY <2>1, Bounds, ZeroFd DEF Init, Owned, ZeroOpen, Inherited, NoDesc, StdDesc
    <2>2. ASSUME Init PROVE LInv
      BY <2>2 DEF Init, LInv, Labelled, Objects
    <2> QED BY <2>1, <2>2, InitInv DEF OInv
  <1>2. OInv /\ LInv /\ [Next]_vars => OInv' /\ LInv'
    BY StepInv, OwnedStep, LabelsStep DEF OInv
  <1>3. OInv /\ LInv => LabelTrue
    <2> SUFFICES ASSUME OInv, LInv, NEW o \in Pipes \cup Fifos, Valid(o)
                 PROVE  label_[o] = labels[table[fd_[o]]]
      BY DEF LabelTrue
    <2>1. o \in Objects /\ fd_[o] # NoFd BY DEF Objects, Valid
    <2>2. table[fd_[o]] = own[o] BY <2>1 DEF OInv, IInv, Held
    <2> QED BY <2>1, <2>2 DEF LInv, Labelled
  <1> QED BY <1>1, <1>2, <1>3, PTL DEF Spec
=============================================================================
