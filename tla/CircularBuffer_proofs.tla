------------------------ MODULE CircularBuffer_proofs ------------------------
(***************************************************************************)
(* Proofs about CircularBuffer: its indices stay in range, tail_ stays     *)
(* consistent with head_ and contents_size_, and the buffer implements     *)
(* BoundedWindow, for every capacity and every bound.                      *)
(***************************************************************************)
EXTENDS CircularBuffer, SequenceTheorems, TLAPS

Elem == Item \cup {NoItem}

(* What one step needs from the last: the indices are in range and related. *)
IInv == TypeOK /\ TailFollows

-----------------------------------------------------------------------------
(* Index arithmetic.                                                       *)

LEMMA ModSmall ==
  ASSUME NEW n \in Nat \ {0}, NEW a \in 0 .. n - 1
  PROVE  a % n = a
  OBVIOUS

LEMMA ModWrap ==
  ASSUME NEW n \in Nat \ {0}, NEW a \in n .. 2 * n - 1
  PROVE  a % n = a - n
  OBVIOUS

(* index_to_subscript wraps at most once.                                  *)
LEMMA SlotArith ==
  ASSUME NEW c \in Nat \ {0}, NEW h \in 0 .. c - 1, NEW i \in 0 .. c
  PROVE  /\ (i + h) % c = IF i + h < c THEN i + h ELSE i + h - c
         /\ (i + h) % c \in 0 .. c - 1
<1>1. CASE i + h < c
  BY <1>1
<1>2. CASE ~(i + h < c)
  <2>1. i + h \in c .. 2 * c - 1
    BY <1>2
  <2>2. (i + h) % c = i + h - c
    BY <2>1
  <2> QED
    BY <1>2, <2>1, <2>2
<1> QED
  BY <1>1, <1>2

(* Stepping to the next slot and back.                                     *)
LEMMA NextSlotArith ==
  ASSUME NEW n \in Nat \ {0}, n >= 2, NEW i \in 0 .. n - 1
  PROVE  /\ (i + 1) % n = IF i + 1 < n THEN i + 1 ELSE 0
         /\ (i + 1) % n \in 0 .. n - 1
         /\ (((i + 1) % n) + n - 1) % n = i
<1>1. CASE i + 1 < n
  <2>0. i + 1 \in 0 .. n - 1
    BY <1>1
  <2>1. (i + 1) % n = i + 1
    BY <2>0, ModSmall
  <2>2. (n + i) % n = i
    BY SlotArith
  <2>3. ((i + 1) % n) + n - 1 = n + i
    BY <2>1
  <2> QED
    BY <1>1, <2>1, <2>2, <2>3
<1>2. CASE i + 1 = n
  <2>1. (1 + i) % n = 0
    BY <1>2, SlotArith
  <2>2. (i + 1) % n = 0
    BY <2>1
  <2>3. (0 + i) % n = i
    BY SlotArith
  <2>4. ((i + 1) % n) + n - 1 = 0 + i
    BY <1>2, <2>2
  <2> QED
    BY <1>2, <2>2, <2>3, <2>4
<1> QED
  BY <1>1, <1>2

(* A function on 1 .. n is a sequence of length n.                         *)
LEMMA FunctionIsSeq ==
  ASSUME NEW S, NEW n \in Nat, NEW f \in [1 .. n -> S]
  PROVE  f \in Seq(S) /\ Len(f) = n
<1>1. f \in Seq(S)
  BY SeqDef
<1>2. Len(f) \in Nat /\ DOMAIN f = 1 .. Len(f)
  BY <1>1, LenProperties
<1> QED
  BY <1>1, <1>2

(* The slot push_back writes is free unless the buffer is full, and then   *)
(* it is the oldest element's.                                             *)
LEMMA NextTailSlot ==
  ASSUME IInv
  PROVE  /\ NextTail \in 0 .. capacity - 1
         /\ NextTail = Slot(size)
         /\ \A i \in 0 .. size - 1 :
              Slot(i) = NextTail <=> (i = 0 /\ size = capacity)
<1>1. capacity \in Nat \ {0} /\ head \in 0 .. capacity - 1
  BY CapacityAssumption DEF IInv, TypeOK
<1>2. \A i \in 0 .. size :
        Slot(i) = IF i + head < capacity THEN i + head ELSE i + head - capacity
  BY <1>1, SlotArith DEF IInv, TypeOK, Slot
<1>3. NextTail \in 0 .. capacity - 1
  BY <1>1 DEF IInv, TypeOK, NextTail
<1>4. NextTail = Slot(size)
  <2>1. Slot(size) = IF size + head < capacity THEN size + head
                     ELSE size + head - capacity
    BY <1>2 DEF IInv, TypeOK
  <2> QED
    BY <1>1, <2>1 DEF IInv, TypeOK, TailFollows, NextTail
<1>5. ASSUME NEW i \in 0 .. size - 1
      PROVE  Slot(i) = NextTail <=> (i = 0 /\ size = capacity)
  BY <1>1, <1>2, <1>4 DEF IInv, TypeOK
<1> QED
  BY <1>3, <1>4, <1>5

(* Copying and growing put the i-th element into slot i of the new array,  *)
(* counting from slot 1.                                                   *)
LEMMA RelocatedSlots ==
  ASSUME TypeOK, NEW n \in Nat, capacity <= n
  PROVE  /\ Relocated(n) \in [0 .. n - 1 -> Elem]
         /\ \A i \in 0 .. size - 1 : Relocated(n)[(i + 1) % n] = array[Slot(i)]
<1>1. capacity \in Nat /\ capacity >= 2 /\ head \in 0 .. capacity - 1
      /\ size \in 0 .. capacity
  BY CapacityAssumption DEF TypeOK
<1>2. \A i \in 0 .. size : Slot(i) \in 0 .. capacity - 1
  BY <1>1, SlotArith DEF Slot
<1>3. ASSUME NEW s \in 0 .. n - 1
      PROVE  (s + n - 1) % n \in 0 .. n - 1
  BY <1>1
<1>4. Relocated(n) \in [0 .. n - 1 -> Elem]
  BY <1>1, <1>2, <1>3 DEF Relocated, Elem, TypeOK
<1>5. ASSUME NEW i \in 0 .. size - 1
      PROVE  Relocated(n)[(i + 1) % n] = array[Slot(i)]
  <2>1. /\ (i + 1) % n \in 0 .. n - 1
        /\ (((i + 1) % n) + n - 1) % n = i
    BY <1>1, NextSlotArith
  <2> QED
    BY <1>1, <2>1 DEF Relocated
<1> QED
  BY <1>4, <1>5

-----------------------------------------------------------------------------
(* Invariance.                                                             *)

LEMMA InitIInv == Init => IInv
<1> SUFFICES ASSUME Init PROVE IInv
  OBVIOUS
<1>1. capacity \in Nat /\ capacity >= 2
  BY CapacityAssumption DEF Init
<1>2. TypeOK
  BY <1>1, CapacityAssumption DEF Init, TypeOK
<1>3. TailFollows
  BY <1>1 DEF Init, TailFollows
<1> QED
  BY <1>2, <1>3 DEF IInv

LEMMA NextIInv == IInv /\ [Next]_vars => IInv'
<1> SUFFICES ASSUME IInv, [Next]_vars PROVE IInv'
  OBVIOUS
<1>0. /\ capacity \in MinCapacity .. MaxCapacity
      /\ capacity \in Nat /\ capacity >= 2
      /\ head \in 0 .. capacity - 1 /\ tail \in 0 .. capacity - 1
      /\ size \in 0 .. capacity
      /\ array \in [0 .. capacity - 1 -> Elem]
  BY CapacityAssumption DEF IInv, TypeOK, Elem
<1>1. ASSUME NEW x \in Item, PushRoom(x)
      PROVE  IInv'
  <2>1. NextTail \in 0 .. capacity - 1 /\ x \in Elem
    BY NextTailSlot DEF Elem
  <2>2. TypeOK'
    BY <1>0, <1>1, <2>1 DEF PushRoom, TypeOK, Elem
  <2>3. TailFollows'
    BY <1>0, <1>1 DEF PushRoom, IInv, TailFollows, NextTail
  <2> QED
    BY <2>2, <2>3 DEF IInv
<1>2. ASSUME NEW x \in Item, PushOverwrite(x)
      PROVE  IInv'
  <2>1. NextTail \in 0 .. capacity - 1 /\ x \in Elem
    BY NextTailSlot DEF Elem
  <2>2. TypeOK'
    BY <1>0, <1>2, <2>1 DEF PushOverwrite, TypeOK, Elem, NextHead
  <2>3. TailFollows'
    BY <1>0, <1>2 DEF PushOverwrite, IInv, TailFollows, NextTail, NextHead
  <2> QED
    BY <2>2, <2>3 DEF IInv
<1>3. CASE PopFront
  <2>1. TypeOK'
    BY <1>0, <1>3 DEF PopFront, TypeOK, Elem, NextHead
  <2>2. TailFollows'
    BY <1>0, <1>3 DEF PopFront, IInv, TailFollows, NextHead
  <2> QED
    BY <2>1, <2>2 DEF IInv
<1>4. CASE Clear
  <2>1. TypeOK'
    BY <1>0, <1>4 DEF Clear, TypeOK, Elem
  <2>2. TailFollows'
    BY <1>0, <1>4 DEF Clear, TailFollows
  <2> QED
    BY <2>1, <2>2 DEF IInv
<1>5. CASE Copy
  <2>1. Relocated(capacity) \in [0 .. capacity - 1 -> Elem]
    BY <1>0, RelocatedSlots DEF IInv
  <2>2. size % capacity = IF size < capacity THEN size ELSE 0
    <3>1. CASE size < capacity
      BY <1>0, <3>1, ModSmall
    <3>2. CASE size = capacity
      <4>1. size \in capacity .. 2 * capacity - 1
        BY <1>0, <3>2
      <4>2. size % capacity = size - capacity
        BY <1>0, <4>1, ModWrap
      <4> QED
        BY <1>0, <3>2, <4>2
    <3> QED
      BY <1>0, <3>1, <3>2
  <2>3. TypeOK'
    BY <1>0, <1>5, <2>1, <2>2 DEF Copy, TypeOK, Elem
  <2>4. TailFollows'
    BY <1>0, <1>5, <2>2 DEF Copy, IInv, TailFollows
  <2> QED
    BY <2>3, <2>4 DEF IInv
<1>6. ASSUME NEW n \in MinCapacity .. MaxCapacity, Reserve(n)
      PROVE  IInv'
  <2>1. n \in Nat /\ capacity < n
    BY <1>0, <1>6, CapacityAssumption DEF Reserve
  <2>2. Relocated(n) \in [0 .. n - 1 -> Elem]
    BY <1>0, <2>1, RelocatedSlots DEF IInv
  <2>3. size % n = size
    BY <1>0, <2>1
  <2>4. TypeOK'
    BY <1>0, <1>6, <2>1, <2>2, <2>3 DEF Reserve, TypeOK, Elem
  <2>5. TailFollows'
    BY <1>0, <1>6, <2>1, <2>3 DEF Reserve, TailFollows
  <2> QED
    BY <2>4, <2>5 DEF IInv
<1>7. CASE UNCHANGED vars
  BY <1>7 DEF vars, IInv, TypeOK, TailFollows
<1> QED
  BY <1>1, <1>2, <1>3, <1>4, <1>5, <1>6, <1>7 DEF Next

LEMMA Invariance == Spec => []IInv
<1> QED
  BY InitIInv, NextIInv, PTL DEF Spec

(* Every index the buffer computes lies inside its array, whatever is      *)
(* pushed, popped, cleared, copied and reserved.                           *)
THEOREM TypeCorrect == Spec => []TypeOK
<1>1. IInv => TypeOK
  BY DEF IInv
<1> QED
  BY <1>1, Invariance, PTL

(* back() and the next push_back use the slot after the contents.          *)
THEOREM TailFollowsAlways == Spec => []TailFollows
<1>1. IInv => TailFollows
  BY DEF IInv
<1> QED
  BY <1>1, Invariance, PTL

-----------------------------------------------------------------------------
(* Refinement.                                                             *)

(* What begin() .. end() enumerates is a sequence of size elements, before *)
(* a step and after it.                                                    *)
LEMMA ContentsIsSeq ==
  ASSUME IInv
  PROVE  /\ Contents \in Seq(Elem)
         /\ Len(Contents) = size
         /\ \A i \in 1 .. size : Contents[i] = array[Slot(i - 1)]
<1>1. /\ capacity \in Nat \ {0} /\ size \in 0 .. capacity
      /\ array \in [0 .. capacity - 1 -> Elem] /\ head \in 0 .. capacity - 1
  BY CapacityAssumption DEF IInv, TypeOK, Elem
<1>2. \A i \in 1 .. size : Slot(i - 1) \in 0 .. capacity - 1
  BY <1>1, SlotArith DEF Slot
<1>3. Contents \in [1 .. size -> Elem] /\ size \in Nat
  BY <1>1, <1>2 DEF Contents
<1>4. \A i \in 1 .. size : Contents[i] = array[Slot(i - 1)]
  BY DEF Contents
<1> QED
  BY <1>3, <1>4, FunctionIsSeq

LEMMA ContentsIsSeqNext ==
  ASSUME IInv'
  PROVE  /\ Contents' \in Seq(Elem)
         /\ Len(Contents') = size'
         /\ \A i \in 1 .. size' :
              Contents'[i] = array'[(i - 1 + head') % capacity']
<1>1. TypeOK'
  BY DEF IInv
<1>2. /\ size' \in 0 .. capacity' /\ head' \in 0 .. capacity' - 1
      /\ capacity' \in MinCapacity .. MaxCapacity
      /\ array' \in [0 .. capacity' - 1 -> Elem]
  BY <1>1 DEF TypeOK, Elem
<1>3. capacity' \in Nat \ {0}
  BY <1>2, CapacityAssumption
<1>4. Contents' = [i \in 1 .. size' |-> array'[(i - 1 + head') % capacity']]
  BY DEF Contents, Slot
<1>5. \A i \in 1 .. size' : (i - 1 + head') % capacity' \in 0 .. capacity' - 1
  <2>1. ASSUME NEW i \in 1 .. size'
        PROVE  (i - 1 + head') % capacity' \in 0 .. capacity' - 1
    <3>1. i - 1 \in 0 .. capacity'
      BY <1>2, <1>3
    <3> QED
      BY <1>2, <1>3, <3>1, SlotArith
  <2> QED
    BY <2>1
<1>6. size' \in Nat
  BY <1>2, <1>3
<1>7. \A i \in 1 .. size' : array'[(i - 1 + head') % capacity'] \in Elem
  BY <1>2, <1>5
<1>8. Contents' \in [1 .. size' -> Elem]
  BY <1>4, <1>7
<1> QED
  BY <1>4, <1>6, <1>8, FunctionIsSeq

(* A sequence is determined by its length and its elements.                *)
LEMMA SameSeq ==
  ASSUME NEW S, NEW s \in Seq(S), NEW t \in Seq(S), Len(s) = Len(t),
         \A i \in 1 .. Len(s) : s[i] = t[i]
  PROVE  s = t
  BY SeqEqual

(* Moving head_ one slot on renumbers the elements.                        *)
LEMMA ShiftedSlot ==
  ASSUME capacity \in Nat, capacity >= 2, head \in 0 .. capacity - 1,
         NEW i \in 1 .. capacity
  PROVE  /\ (i - 1 + NextHead) % capacity \in 0 .. capacity - 1
         /\ i < capacity => (i - 1 + NextHead) % capacity = Slot(i)
         /\ i = capacity => (i - 1 + NextHead) % capacity = Slot(0)
<1>1. capacity \in Nat \ {0} /\ NextHead \in 0 .. capacity - 1
  BY DEF NextHead
<1>2. i - 1 \in 0 .. capacity /\ i \in 0 .. capacity
  OBVIOUS
<1>3. (i - 1 + NextHead) % capacity =
        IF i - 1 + NextHead < capacity THEN i - 1 + NextHead
        ELSE i - 1 + NextHead - capacity
  BY <1>1, <1>2, SlotArith
<1>4. (i + head) % capacity =
        IF i + head < capacity THEN i + head ELSE i + head - capacity
  BY <1>1, <1>2, SlotArith
<1>5. (0 + head) % capacity = head
  BY <1>1, ModSmall
<1> QED
  BY <1>1, <1>3, <1>4, <1>5 DEF NextHead, Slot

LEMMA PushRoomAppends ==
  ASSUME IInv, IInv', NEW x \in Item, PushRoom(x)
  PROVE  Contents' = Append(Contents, x)
<1>0. /\ capacity \in Nat \ {0} /\ size \in 0 .. capacity - 1
      /\ head \in 0 .. capacity - 1
      /\ array \in [0 .. capacity - 1 -> Elem]
      /\ x \in Elem
  BY CapacityAssumption DEF IInv, TypeOK, Elem, PushRoom
<1>1. /\ Contents \in Seq(Elem) /\ Len(Contents) = size
      /\ \A i \in 1 .. size : Contents[i] = array[Slot(i - 1)]
  BY ContentsIsSeq
<1>2. /\ Contents' \in Seq(Elem) /\ Len(Contents') = size + 1
      /\ \A i \in 1 .. size + 1 : Contents'[i] = array'[Slot(i - 1)]
  BY ContentsIsSeqNext DEF PushRoom, Slot
<1>3. /\ Append(Contents, x) \in Seq(Elem)
      /\ Len(Append(Contents, x)) = size + 1
      /\ \A i \in 1 .. size : Append(Contents, x)[i] = Contents[i]
      /\ Append(Contents, x)[size + 1] = x
  BY <1>0, <1>1, AppendProperties
<1>4. /\ NextTail \in 0 .. capacity - 1 /\ NextTail = Slot(size)
      /\ \A i \in 0 .. size - 1 : Slot(i) /= NextTail
  BY <1>0, NextTailSlot
<1>5. ASSUME NEW i \in 1 .. size + 1
      PROVE  Contents'[i] = Append(Contents, x)[i]
  <2>1. array' = [array EXCEPT ![NextTail] = x]
    BY DEF PushRoom
  <2>2. CASE i = size + 1
    <3>1. Contents'[i] = array'[Slot(size)]
      BY <1>0, <1>2, <2>2
    <3> QED
      BY <1>0, <1>3, <1>4, <2>1, <2>2, <3>1
  <2>3. CASE i \in 1 .. size
    <3>1. i - 1 \in 0 .. size - 1
      BY <1>0, <2>3
    <3>2. Slot(i - 1) \in 0 .. capacity - 1
      BY <1>0, <3>1, SlotArith DEF Slot
    <3>3. array'[Slot(i - 1)] = array[Slot(i - 1)]
      BY <1>0, <1>4, <2>1, <3>1, <3>2
    <3> QED
      BY <1>1, <1>2, <1>3, <2>3, <3>3
  <2>4. i = size + 1 \/ i \in 1 .. size
    BY <1>0
  <2> QED
    BY <2>2, <2>3, <2>4
<1> QED
  BY <1>2, <1>3, <1>5, SameSeq

LEMMA PushOverwriteShifts ==
  ASSUME IInv, IInv', NEW x \in Item, PushOverwrite(x)
  PROVE  Contents' = Append(Tail(Contents), x)
<1>0. /\ capacity \in Nat \ {0} /\ capacity >= 2 /\ size = capacity
      /\ head \in 0 .. capacity - 1
      /\ array \in [0 .. capacity - 1 -> Elem]
      /\ x \in Elem
  BY CapacityAssumption DEF IInv, TypeOK, Elem, PushOverwrite
<1>1. /\ Contents \in Seq(Elem) /\ Len(Contents) = size
      /\ \A i \in 1 .. size : Contents[i] = array[Slot(i - 1)]
  BY ContentsIsSeq
<1>2. /\ Contents' \in Seq(Elem) /\ Len(Contents') = size
      /\ \A i \in 1 .. size :
           Contents'[i] = array'[(i - 1 + NextHead) % capacity]
  BY ContentsIsSeqNext DEF PushOverwrite
<1>3. /\ Tail(Contents) \in Seq(Elem) /\ Len(Tail(Contents)) = size - 1
      /\ \A i \in 1 .. size - 1 : Tail(Contents)[i] = Contents[i + 1]
  BY <1>0, <1>1, HeadTailProperties
<1>4. /\ Append(Tail(Contents), x) \in Seq(Elem)
      /\ Len(Append(Tail(Contents), x)) = size
      /\ \A i \in 1 .. size - 1 :
           Append(Tail(Contents), x)[i] = Tail(Contents)[i]
      /\ Append(Tail(Contents), x)[size] = x
  BY <1>0, <1>3, AppendProperties
<1>5. /\ NextTail \in 0 .. capacity - 1 /\ NextTail = Slot(0)
      /\ \A i \in 1 .. size - 1 : Slot(i) /= NextTail
  BY <1>0, NextTailSlot
<1>6. ASSUME NEW i \in 1 .. size
      PROVE  /\ (i - 1 + NextHead) % capacity \in 0 .. capacity - 1
             /\ i < size => (i - 1 + NextHead) % capacity = Slot(i)
             /\ i = size => (i - 1 + NextHead) % capacity = Slot(0)
  BY <1>0, ShiftedSlot
<1>7. ASSUME NEW i \in 1 .. size
      PROVE  Contents'[i] = Append(Tail(Contents), x)[i]
  <2>1. array' = [array EXCEPT ![NextTail] = x]
    BY DEF PushOverwrite
  <2>2. CASE i = size
    BY <1>0, <1>2, <1>4, <1>5, <1>6, <2>1, <2>2
  <2>3. CASE i \in 1 .. size - 1
    <3>1. Contents'[i] = array[Slot(i)]
      BY <1>0, <1>2, <1>5, <1>6, <2>1, <2>3
    <3>2. i + 1 \in 1 .. size /\ (i + 1) - 1 = i
      BY <1>0, <2>3
    <3>3. Contents[i + 1] = array[Slot(i)]
      BY <1>1, <3>2
    <3> QED
      BY <1>3, <1>4, <2>3, <3>1, <3>3
  <2> QED
    BY <1>0, <2>2, <2>3
<1> QED
  BY <1>2, <1>4, <1>7, SameSeq

LEMMA PopFrontDrops ==
  ASSUME IInv, IInv', PopFront
  PROVE  Contents /= <<>> /\ Contents' = Tail(Contents)
<1>0. /\ capacity \in Nat \ {0} /\ capacity >= 2 /\ size \in 1 .. capacity
      /\ head \in 0 .. capacity - 1
  BY CapacityAssumption DEF IInv, TypeOK, PopFront
<1>1. /\ Contents \in Seq(Elem) /\ Len(Contents) = size
      /\ \A i \in 1 .. size : Contents[i] = array[Slot(i - 1)]
  BY ContentsIsSeq
<1>2. /\ Contents' \in Seq(Elem) /\ Len(Contents') = size - 1
      /\ \A i \in 1 .. size - 1 :
           Contents'[i] = array[(i - 1 + NextHead) % capacity]
  BY ContentsIsSeqNext DEF PopFront
<1>3. /\ Contents /= <<>>
      /\ Tail(Contents) \in Seq(Elem) /\ Len(Tail(Contents)) = size - 1
      /\ \A i \in 1 .. size - 1 : Tail(Contents)[i] = Contents[i + 1]
  BY <1>0, <1>1, HeadTailProperties
<1>4. ASSUME NEW i \in 1 .. size - 1
      PROVE  Contents'[i] = Tail(Contents)[i]
  <2>1. i \in 1 .. capacity /\ i < capacity
    BY <1>0
  <2>2. Contents'[i] = array[Slot(i)]
    BY <1>0, <1>2, <2>1, ShiftedSlot
  <2>3. i + 1 \in 1 .. size /\ (i + 1) - 1 = i
    BY <1>0
  <2>4. Contents[i + 1] = array[Slot(i)]
    BY <1>1, <2>3
  <2> QED
    BY <1>3, <2>2, <2>4
<1> QED
  BY <1>2, <1>3, <1>4, SameSeq

LEMMA ClearEmpties ==
  ASSUME IInv, IInv', Clear
  PROVE  Contents' = <<>>
<1>1. Contents' \in Seq(Elem) /\ Len(Contents') = 0
  BY ContentsIsSeqNext DEF Clear
<1> QED
  BY <1>1, EmptySeq

(* Copying and growing: the elements stay, from slot 1 on.                 *)
LEMMA RelocationKeeps ==
  ASSUME IInv, IInv', NEW n \in Nat, capacity <= n,
         array' = Relocated(n), capacity' = n, size' = size,
         size /= 0 => head' = 1
  PROVE  Contents' = Contents
<1>0. /\ capacity \in Nat \ {0} /\ capacity >= 2 /\ size \in 0 .. capacity
  BY CapacityAssumption DEF IInv, TypeOK
<1>1. /\ Contents \in Seq(Elem) /\ Len(Contents) = size
      /\ \A i \in 1 .. size : Contents[i] = array[Slot(i - 1)]
  BY ContentsIsSeq
<1>2. /\ Contents' \in Seq(Elem) /\ Len(Contents') = size
      /\ \A i \in 1 .. size :
           Contents'[i] = Relocated(n)[(i - 1 + head') % n]
  BY ContentsIsSeqNext
<1>3. ASSUME NEW i \in 1 .. size
      PROVE  Contents'[i] = Contents[i]
  <2>1. i - 1 \in 0 .. size - 1 /\ head' = 1
    BY <1>0
  <2>2. Relocated(n)[((i - 1) + 1) % n] = array[Slot(i - 1)]
    BY <2>1, RelocatedSlots DEF IInv
  <2> QED
    BY <1>1, <1>2, <2>1, <2>2
<1> QED
  BY <1>1, <1>2, <1>3, SameSeq

(* A pushed item is the newest of the window, whether there was room or    *)
(* the oldest had to go.                                                   *)
LEMMA PushPushes ==
  ASSUME IInv, IInv', NEW x \in Item, PushRoom(x) \/ PushOverwrite(x)
  PROVE  Window!Push(x)
<1>1. Len(Contents) = size /\ size \in 0 .. capacity /\ capacity \in Nat
  BY ContentsIsSeq, CapacityAssumption DEF IInv, TypeOK
<1>2. CASE PushRoom(x)
  <2>1. Contents' = Append(Contents, x)
    BY <1>2, PushRoomAppends
  <2>2. Len(Contents) < capacity
    BY <1>1, <1>2 DEF PushRoom
  <2> QED
    BY <1>2, <2>1, <2>2 DEF PushRoom, Window!Push, Window!Pushed
<1>3. CASE PushOverwrite(x)
  <2>1. Contents' = Append(Tail(Contents), x)
    BY <1>3, PushOverwriteShifts
  <2>2. ~(Len(Contents) < capacity)
    BY <1>1, <1>3 DEF PushOverwrite
  <2> QED
    BY <1>3, <2>1, <2>2 DEF PushOverwrite, Window!Push, Window!Pushed
<1> QED
  BY <1>2, <1>3

LEMMA NextRefines ==
  IInv /\ IInv' /\ [Next]_vars => [Window!Next]_(Window!vars)
<1> SUFFICES ASSUME IInv, IInv', [Next]_vars
             PROVE  [Window!Next]_(Window!vars)
  OBVIOUS
<1>1. ASSUME NEW x \in Item, PushRoom(x) \/ PushOverwrite(x)
      PROVE  Window!Next
  BY <1>1, PushPushes DEF Window!Next
<1>2. CASE PopFront
  <2>1. Window!DropOldest
    BY <1>2, PopFrontDrops DEF PopFront, Window!DropOldest
  <2> QED
    BY <2>1 DEF Window!Next
<1>3. CASE Clear
  <2>1. Window!Empty
    BY <1>3, ClearEmpties DEF Clear, Window!Empty
  <2> QED
    BY <2>1 DEF Window!Next
<1>4. CASE Copy
  <2>1. capacity \in Nat
    BY CapacityAssumption DEF IInv, TypeOK
  <2>2. Contents' = Contents
    BY <1>4, <2>1, RelocationKeeps DEF Copy
  <2> QED
    BY <1>4, <2>2 DEF Copy, Window!vars
<1>5. ASSUME NEW n \in MinCapacity .. MaxCapacity, Reserve(n)
      PROVE  Window!Next
  <2>1. /\ capacity \in Nat /\ n \in Nat /\ capacity < n
        /\ n \in (capacity + 1) .. MaxCapacity
    BY <1>5, CapacityAssumption DEF IInv, TypeOK, Reserve
  <2>2. Contents' = Contents
    BY <1>5, <2>1, RelocationKeeps DEF Reserve
  <2>3. Window!Grow
    BY <1>5, <2>1, <2>2 DEF Reserve, Window!Grow
  <2> QED
    BY <2>3 DEF Window!Next
<1>6. CASE UNCHANGED vars
  <2>1. Contents' = Contents
    BY <1>6 DEF vars, Contents, Slot
  <2> QED
    BY <1>6, <2>1 DEF vars, Window!vars
<1> QED
  BY <1>1, <1>2, <1>3, <1>4, <1>5, <1>6 DEF Next

(* The circular buffer implements the bounded window: whatever the wrap of *)
(* head_ and tail_, begin() .. end() shows the items pushed last.          *)
THEOREM Refinement == Spec => ImplementsWindow
<1>1. Init => Window!Init
  <2> SUFFICES ASSUME Init PROVE Window!Init
    OBVIOUS
  <2>1. IInv /\ size = 0
    BY InitIInv DEF Init
  <2>2. Contents \in Seq(Elem) /\ Len(Contents) = 0
    BY <2>1, ContentsIsSeq
  <2>3. Contents = <<>>
    BY <2>2, EmptySeq
  <2> QED
    BY <2>3 DEF Init, Window!Init
<1> QED
  BY <1>1, Invariance, NextRefines, PTL DEF Spec, ImplementsWindow, Window!Spec

=============================================================================
