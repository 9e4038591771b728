--------------------------- MODULE DelegationProofs ---------------------------
(***************************************************************************)
(* Delegation never moves down a hierarchy, whatever the hierarchy and     *)
(* however deep the recursion.  The invariant is about the stack of        *)
(* orchestrations: all have the same root, only the innermost may be       *)
(* anything but waiting or over, and one that waits stands on a hierarchy  *)
(* without agents.                                                         *)
(***************************************************************************)
EXTENDS Delegation, TLAPS

(* The hierarchies on which routing and decomposition disagree.            *)
Looping == Agents(<<>>) = {} /\ Children(<<>>) # {}

FrameInv(f, looping) ==
  /\ f.root = <<>>
  /\ f.step # "none" \/ f.pc = "await" => looping
  /\ f.pc # "ended" => f.result = "none" /\ f.run # "completed"
  /\ f.pc = "ended" => f.result # "none"
  /\ f.pc \in {"open", "split", "work"} => f.step = "none"
  /\ looping => /\ f.pc # "work"
                /\ f.result \in {"none", "failed", "threw"}
                /\ f.run # "completed"
  /\ f.step # "none" => f.result # "threw"

StackInv ==
  /\ \A d \in DOMAIN frames : FrameInv(frames[d], Looping)
  /\ \A d \in DOMAIN frames : d > top => frames[d].pc = "ended"
  /\ top > 0 => (frames[top].pc = "await" <=> top < Len(frames))
  /\ \A d \in DOMAIN frames : d < top => frames[d].pc = "await"

IInv == TypeOK /\ StackInv

-----------------------------------------------------------------------------
(* Replacing one entry of a sequence.                                      *)
LEMMA PutEntry ==
  ASSUME NEW S, NEW s \in Seq(S), NEW i \in 1..Len(s), NEW g \in S
  PROVE  LET t == [s EXCEPT ![i] = g]
         IN  /\ t \in Seq(S)
             /\ Len(t) = Len(s)
             /\ t[i] = g
             /\ \A j \in 1..Len(s) : j # i => t[j] = s[j]
  OBVIOUS

(* While the hierarchy stays the same, so do the sets read off it.         *)
LEMMA SameTree ==
  ASSUME tree' = tree
  PROVE  /\ IsTree(tree)' = IsTree(tree)
         /\ Frame' = Frame
         /\ Looping' = Looping
  BY DEF Frame, Looping, Agents, Children, Nodes

(* Only the root of a hierarchy without agents is ever delegated.          *)
LEMMA RoutingSplits ==
  ASSUME tree \in Trees, IsTree(tree), NEW A \in Assignable(<<>>)
  PROVE  /\ A \subseteq Nodes(tree)
         /\ A # {}
         /\ \A n \in A : /\ Delegated(n) => n = <<>> /\ Looping
                         /\ ~Delegated(n) => ~Looping
<1>1. <<>> \in Nodes(tree)
  BY DEF IsTree
<1>2. CASE Agents(<<>>) = {}
  <2>1. A = {<<>>}
    BY <1>2 DEF Assignable
  <2> QED
    BY <1>1, <1>2, <2>1 DEF Delegated, Looping
<1>3. CASE Agents(<<>>) # {}
  <2>1. A \subseteq Agents(<<>>) /\ A # {}
    BY <1>3 DEF Assignable
  <2>2. \A n \in Agents(<<>>) : n \in Nodes(tree) /\ ~Delegated(n)
    BY DEF Agents, Delegated
  <2> QED
    BY <1>3, <2>1, <2>2 DEF Looping
<1> QED
  BY <1>2, <1>3

(* An action that changes the innermost orchestration, and ends it or not, *)
(* preserves the invariant if the changed frame satisfies its part.        *)
LEMMA ReplaceTop ==
  ASSUME IInv, tree' = tree, top > 0,
         NEW g \in Frame, FrameInv(g, Looping),
         frames' = [frames EXCEPT ![top] = g],
         \/ g.pc = "ended" /\ top' = top - 1
         \/ g.pc # "await" /\ frames[top].pc # "await" /\ top' = top
  PROVE  IInv'
<1>1. /\ tree \in Trees /\ IsTree(tree)
      /\ frames \in Seq(Frame)
      /\ top \in 1..Len(frames)
  BY DEF IInv, TypeOK
<1>2. /\ frames' \in Seq(Frame)
      /\ Len(frames') = Len(frames)
      /\ frames'[top] = g
      /\ \A d \in 1..Len(frames) : d # top => frames'[d] = frames[d]
  BY <1>1, PutEntry
<1>3. top' \in 0..Len(frames')
  BY <1>1, <1>2
<1>4. TypeOK'
  BY <1>1, <1>2, <1>3, SameTree DEF TypeOK
<1>5. DOMAIN frames' = 1..Len(frames) /\ DOMAIN frames = 1..Len(frames)
  BY <1>1, <1>2
<1>6. \A d \in DOMAIN frames' : FrameInv(frames'[d], Looping')
  BY <1>2, <1>5, SameTree, Zenon DEF IInv, StackInv
<1>7. \A d \in 1..Len(frames) : /\ d > top => frames[d].pc = "ended"
                                /\ d < top => frames[d].pc = "await"
  BY <1>5, Zenon DEF IInv, StackInv
<1>9. frames[top].pc = "await" <=> top < Len(frames)
  BY <1>1 DEF IInv, StackInv
<1>8. /\ \A d \in DOMAIN frames' : d > top' => frames'[d].pc = "ended"
      /\ top' > 0 => (frames'[top'].pc = "await" <=> top' < Len(frames'))
      /\ \A d \in DOMAIN frames' : d < top' => frames'[d].pc = "await"
  BY <1>1, <1>2, <1>5, <1>7, <1>9
<1> QED
  BY <1>4, <1>6, <1>8 DEF IInv, StackInv

(* A new orchestration preserves it, if it starts on the root.             *)
LEMMA PushFrame ==
  ASSUME IInv, tree' = tree, top > 0, top < MaxDepth, frames[top].pc # "await",
         NEW g \in Frame, FrameInv(g, Looping), g.pc = "await",
         frames' = Append([frames EXCEPT ![top] = g], NewFrame(<<>>)),
         top' = top + 1
  PROVE  IInv'
<1> DEFINE h == NewFrame(<<>>)
<1>1. /\ tree \in Trees /\ IsTree(tree)
      /\ frames \in Seq(Frame)
      /\ Len(frames) = top
      /\ top \in 1..Len(frames)
  BY DEF IInv, TypeOK, StackInv
<1>2. <<>> \in Nodes(tree)
  BY <1>1 DEF IsTree
<1>3. h \in Frame /\ FrameInv(h, Looping) /\ h.pc = "open"
  BY <1>2 DEF NewFrame, Frame, FrameInv
<1>4. /\ frames' \in Seq(Frame)
      /\ Len(frames') = top + 1
      /\ frames'[top + 1] = h
      /\ frames'[top] = g
      /\ \A d \in 1..top : d # top => frames'[d] = frames[d]
  <2> DEFINE t == [frames EXCEPT ![top] = g]
  <2>1. /\ t \in Seq(Frame) /\ Len(t) = top /\ t[top] = g
        /\ \A d \in 1..top : d # top => t[d] = frames[d]
    BY <1>1, PutEntry
  <2>2. frames' = Append(t, h)
    OBVIOUS
  <2> HIDE DEF t, h
  <2> QED
    BY <1>1, <1>3, <2>1, <2>2
<1>5. DOMAIN frames' = 1..(top + 1) /\ DOMAIN frames = 1..top
  BY <1>1, <1>4
<1>6. TypeOK'
  <2>1. frames' # <<>> /\ top' \in 0..Len(frames')
    BY <1>1, <1>4
  <2> QED
    BY <1>1, <1>4, <2>1, SameTree DEF TypeOK
<1>7. \A d \in 1..top : FrameInv(frames[d], Looping)
  BY <1>5, Zenon DEF IInv, StackInv
<1>8. \A d \in DOMAIN frames' : FrameInv(frames'[d], Looping')
  <2> SUFFICES ASSUME NEW d \in 1..(top + 1) PROVE FrameInv(frames'[d], Looping')
    BY <1>5
  <2>1. CASE d = top + 1
    BY <1>3, <1>4, <2>1, SameTree, Zenon
  <2>2. CASE d = top
    BY <1>4, <2>2, SameTree, Zenon
  <2>3. CASE d \in 1..top /\ d # top
    BY <1>4, <1>7, <2>3, SameTree, Zenon
  <2> QED
    BY <1>1, <2>1, <2>2, <2>3
<1>9. \A d \in 1..top : d < top => frames[d].pc = "await"
  BY <1>5, Zenon DEF IInv, StackInv
<1> HIDE DEF h
<1>10. /\ \A d \in DOMAIN frames' : d > top' => frames'[d].pc = "ended"
       /\ top' > 0 => (frames'[top'].pc = "await" <=> top' < Len(frames'))
       /\ \A d \in DOMAIN frames' : d < top' => frames'[d].pc = "await"
  BY <1>1, <1>3, <1>4, <1>5, <1>9
<1> QED
  BY <1>6, <1>8, <1>10 DEF IInv, StackInv

(* Ending an orchestration changes its status, its result and its run.     *)
LEMMA EndedFrame ==
  ASSUME NEW f \in Frame, NEW r \in Results
  PROVE  /\ Ended(f, r) \in Frame
         /\ Ended(f, r).pc = "ended"
         /\ Ended(f, r).result = r
         /\ Ended(f, r).root = f.root
         /\ Ended(f, r).step = f.step
         /\ Ended(f, r).run = IF f.run = "none" THEN "none"
                              ELSE IF r \in {"failed", "threw"} THEN "failed"
                              ELSE "completed"
  BY DEF Ended, Frame, Results

(* An orchestration that returns.  On a looping hierarchy it failed.       *)
LEMMA ReturnStep ==
  ASSUME IInv, tree' = tree, top > 0, NEW f \in Frame, NEW r \in Results,
         f.root = <<>>,
         f.step # "none" => Looping /\ r # "threw",
         Looping => r \in {"failed", "threw"},
         frames' = [frames EXCEPT ![top] = Ended(f, r)], top' = top - 1
  PROVE  IInv'
<1> DEFINE g == Ended(f, r)
<1>1. FrameInv(g, Looping)
  BY EndedFrame DEF FrameInv, Results
<1>2. g \in Frame /\ g.pc = "ended"
  BY EndedFrame
<1> QED
  BY <1>1, <1>2, ReplaceTop

LEMMA InitInv == Init => IInv
<1> SUFFICES ASSUME Init PROVE IInv
  OBVIOUS
<1>1. <<>> \in Nodes(tree)
  BY DEF Init, IsTree
<1> DEFINE h == NewFrame(<<>>)
<1>2. h \in Frame /\ FrameInv(h, Looping) /\ h.pc = "open"
  BY <1>1 DEF NewFrame, Frame, FrameInv
<1> HIDE DEF h
<1>3. tree \in Trees /\ IsTree(tree) /\ frames = <<h>> /\ top = 1
  BY DEF Init, h
<1>4. TypeOK
  BY <1>2, <1>3 DEF TypeOK
<1>5. StackInv
  BY <1>2, <1>3 DEF StackInv
<1> QED
  BY <1>4, <1>5 DEF IInv

-----------------------------------------------------------------------------
(* What is known of the innermost orchestration.                           *)
LEMMA TopFrame ==
  ASSUME IInv, top > 0
  PROVE  /\ tree \in Trees /\ IsTree(tree)
         /\ top \in 1..Len(frames)
         /\ frames \in Seq(Frame)
         /\ frames[top] \in Frame
         /\ FrameInv(frames[top], Looping)
         /\ frames[top].root = <<>>
<1>1. tree \in Trees /\ IsTree(tree) /\ top \in 1..Len(frames) /\ frames \in Seq(Frame)
  BY DEF IInv, TypeOK
<1>2. FrameInv(frames[top], Looping)
  BY <1>1 DEF IInv, StackInv
<1> QED
  BY <1>1, <1>2 DEF FrameInv

LEMMA OpenStep == IInv /\ Open => IInv'
<1> SUFFICES ASSUME IInv, Open PROVE IInv'
  OBVIOUS
<1> DEFINE f == frames[top]
           g == [f EXCEPT !.pc = "split", !.run = "running"]
<1>1. top > 0 /\ f.pc = "open" /\ tree' = tree
  BY DEF Open, At
<1>2. FrameInv(f, Looping) /\ f \in Frame /\ f.root = <<>> /\ f.step = "none"
  BY <1>1, TopFrame DEF FrameInv
<1>3. CASE Return("threw")
  BY <1>1, <1>2, <1>3, ReturnStep DEF Return, Results
<1>4. CASE /\ frames' = [frames EXCEPT ![top].pc = "split", ![top].run = "running"]
           /\ top' = top
  <2>1. frames' = [frames EXCEPT ![top] = g]
    BY <1>1, <1>4, TopFrame
  <2>2. g \in Frame /\ g.pc = "split"
    BY <1>2 DEF Frame
  <2>3. FrameInv(g, Looping)
    BY <1>1, <1>2, TopFrame DEF FrameInv, Frame
  <2> QED
    BY <1>1, <1>4, <2>1, <2>2, <2>3, ReplaceTop
<1> QED
  BY <1>3, <1>4 DEF Open

LEMMA SplitLocalStep == IInv /\ SplitLocal => IInv'
<1> SUFFICES ASSUME IInv, SplitLocal PROVE IInv'
  OBVIOUS
<1> DEFINE f == frames[top]
<1>1. top > 0 /\ f.pc = "split" /\ tree' = tree /\ top' = top
  BY DEF SplitLocal, At
<1>2. FrameInv(f, Looping) /\ f \in Frame /\ f.root = <<>> /\ f.step = "none"
  BY <1>1, TopFrame DEF FrameInv
<1>3. PICK A \in Assignable(<<>>) :
        /\ \A n \in A : ~Delegated(n)
        /\ frames' = [frames EXCEPT ![top].pc = "work", ![top].assigned = A]
  BY <1>2 DEF SplitLocal
<1> DEFINE g == [f EXCEPT !.pc = "work", !.assigned = A]
<1>4. A \subseteq Nodes(tree) /\ ~Looping
  BY <1>1, <1>3, TopFrame, RoutingSplits
<1>5. frames' = [frames EXCEPT ![top] = g]
  BY <1>1, <1>3, TopFrame
<1>6. g \in Frame /\ g.pc = "work"
  BY <1>2, <1>4 DEF Frame
<1>7. FrameInv(g, Looping)
  BY <1>1, <1>2, <1>4 DEF FrameInv, Frame
<1> QED
  BY <1>1, <1>5, <1>6, <1>7, ReplaceTop

LEMMA SplitDelegatedStep == IInv /\ SplitDelegated => IInv'
<1> SUFFICES ASSUME IInv, SplitDelegated PROVE IInv'
  OBVIOUS
<1> DEFINE f == frames[top]
<1>1. top > 0 /\ f.pc = "split" /\ tree' = tree
  BY DEF SplitDelegated, At
<1>2. /\ FrameInv(f, Looping) /\ f \in Frame /\ f.root = <<>> /\ f.step = "none"
      /\ f.result = "none" /\ f.run # "completed"
  BY <1>1, TopFrame DEF FrameInv
<1>3. PICK A \in Assignable(<<>>) : \E n \in A :
        /\ Delegated(n)
        /\ \/ /\ top < MaxDepth
              /\ frames' = Append([frames EXCEPT
                              ![top].pc = "await", ![top].assigned = A,
                              ![top].step = "pending"],
                            NewFrame(n))
              /\ top' = top + 1
           \/ Return("failed")
  BY <1>2 DEF SplitDelegated
<1>4. /\ A \subseteq Nodes(tree)
      /\ Looping
      /\ \A n \in A : Delegated(n) => n = <<>>
  BY <1>1, <1>3, TopFrame, RoutingSplits
<1>5. CASE Return("failed")
  BY <1>1, <1>2, <1>5, ReturnStep DEF Return, Results
<1> DEFINE g == [f EXCEPT !.pc = "await", !.assigned = A, !.step = "pending"]
<1>6. CASE /\ top < MaxDepth
           /\ frames' = Append([frames EXCEPT
                           ![top].pc = "await", ![top].assigned = A,
                           ![top].step = "pending"],
                         NewFrame(<<>>))
           /\ top' = top + 1
  <2>1. frames' = Append([frames EXCEPT ![top] = g], NewFrame(<<>>))
    BY <1>1, <1>6, TopFrame
  <2>2. g \in Frame /\ g.pc = "await"
    BY <1>2, <1>4 DEF Frame
  <2>3. FrameInv(g, Looping)
    BY <1>1, <1>2, <1>4 DEF FrameInv, Frame
  <2> QED
    BY <1>1, <1>6, <2>1, <2>2, <2>3, PushFrame
<1> QED
  BY <1>3, <1>4, <1>5, <1>6

LEMMA WorkStep == IInv /\ Work => IInv'
<1> SUFFICES ASSUME IInv, Work PROVE IInv'
  OBVIOUS
<1> DEFINE f == frames[top]
<1>1. top > 0 /\ f.pc = "work" /\ tree' = tree
  BY DEF Work, At
<1>2. FrameInv(f, Looping) /\ f \in Frame /\ f.root = <<>> /\ f.step = "none" /\ ~Looping
  BY <1>1, TopFrame DEF FrameInv
<1>3. PICK r \in {"completed", "partial", "failed"} : Return(r)
  BY DEF Work
<1> QED
  BY <1>1, <1>2, <1>3, ReturnStep DEF Return, Results

LEMMA CloseDelegationStep == IInv /\ CloseDelegation => IInv'
<1> SUFFICES ASSUME IInv, CloseDelegation PROVE IInv'
  OBVIOUS
<1> DEFINE f == frames[top]
           r == frames[top + 1].result
<1>1. top > 0 /\ f.pc = "await" /\ tree' = tree /\ top' = top - 1
  BY DEF CloseDelegation, At
<1>2. FrameInv(f, Looping) /\ f \in Frame /\ f.root = <<>> /\ Looping
  BY <1>1, TopFrame DEF FrameInv
<1>3. top + 1 \in DOMAIN frames /\ top + 1 > top
  BY <1>1, TopFrame DEF IInv, StackInv
<1>4. FrameInv(frames[top + 1], Looping) /\ frames[top + 1].pc = "ended"
  BY <1>3 DEF IInv, StackInv
<1>5. r \in {"failed", "threw"}
  BY <1>2, <1>4 DEF FrameInv
<1>6. PICK s \in {"completed", "failed", "pending"} :
        frames' = [frames EXCEPT ![top] = Ended([@ EXCEPT !.step = s], "failed")]
  BY <1>5 DEF CloseDelegation
<1> DEFINE g == [f EXCEPT !.step = s]
<1>7. g \in Frame /\ g.root = <<>>
  BY <1>2 DEF Frame
<1>8. frames' = [frames EXCEPT ![top] = Ended(g, "failed")]
  BY <1>6
<1> QED
  BY <1>1, <1>2, <1>7, <1>8, ReturnStep DEF Results

LEMMA InvInductive == IInv /\ [Next]_vars => IInv'
<1> SUFFICES ASSUME IInv, [Next]_vars PROVE IInv'
  OBVIOUS
<1>1. CASE UNCHANGED vars
  BY <1>1 DEF vars, IInv, TypeOK, StackInv, FrameInv, Looping, Agents, Children, Nodes, Frame
<1> QED
  BY <1>1, OpenStep, SplitLocalStep, SplitDelegatedStep, WorkStep,
     CloseDelegationStep DEF Next

LEMMA Invariance == Spec => []IInv
<1> QED
  BY InitInv, InvInductive, PTL DEF Spec

(* Whatever the hierarchy and however deep the recursion, an orchestration *)
(* delegates only to itself: routeTask never moves down a level.           *)
THEOREM NeverDescends == Spec => []DelegatesToItself
<1>1. IInv => DelegatesToItself
  BY Zenon DEF IInv, StackInv, FrameInv, DelegatesToItself
<1> QED
  BY <1>1, Invariance, PTL

(* Whatever the hierarchy and the depth reached, an orchestration that     *)
(* created a delegation step does not complete.                            *)
THEOREM DelegationFails == Spec => []NoDelegationSucceeds
<1>1. IInv => NoDelegationSucceeds
  <2> SUFFICES ASSUME IInv, NEW d \in DOMAIN frames, frames[d].step # "none"
               PROVE  frames[d].result \in {"none", "failed"} /\ frames[d].run # "completed"
    BY DEF NoDelegationSucceeds
  <2>1. FrameInv(frames[d], Looping)
    BY Zenon DEF IInv, StackInv
  <2> QED
    BY <2>1 DEF FrameInv
<1> QED
  BY <1>1, Invariance, PTL

(* Every orchestration on the stack has its type, whatever the hierarchy.  *)
THEOREM TypeCorrect == Spec => []TypeOK
<1>1. IInv => TypeOK
  BY DEF IInv
<1> QED
  BY <1>1, Invariance, PTL
=============================================================================
