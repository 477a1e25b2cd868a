-------------------------- MODULE I8259_proofs --------------------------
(***************************************************************************)
(* The interrupt controllers and a guest that handles interrupts, for any  *)
(* number of lines, masks, level triggered lines and nested handlers: one  *)
(* request has one handler, and the handler of a spurious interrupt never  *)
(* runs.  Then any guest, that writes any command at any time: UpdateIRQ   *)
(* ends, and serves what it should.                                        *)
(***************************************************************************)
EXTENDS PicHandlers, PicCommands, TLAPS, FiniteSetTheorems

Elems(s) == {s[i] : i \in DOMAIN s}
Distinct(s) == \A i, j \in DOMAIN s : s[i] = s[j] => i = j

\* The guest leaves the modes as it programmed them.
ModesInv ==
    /\ autoEOI = Both(FALSE) /\ special = Both(FALSE) /\ sfnm = Both(FALSE)
    /\ base = Base /\ Cascade \notin elcr[Master]

LinesInv ==
    /\ irr \in [Pics -> SUBSET Lines] /\ isr \in [Pics -> SUBSET Lines]
    /\ imr \in [Pics -> SUBSET Lines] /\ prev \in [Pics -> SUBSET Lines]
    /\ add \in [Pics -> Lines]
    /\ work \in Pics \cup {"unwind", "idle"}

GuestTypes ==
    /\ stack \in Seq(Nat) /\ queue \in Seq(Nat) /\ handling \in Seq(Nat)
    /\ eois \in Seq(Pics \X Lines)

\* UpdateIRQ never acknowledges line 2 of the master, so that the request there
\* is the slave's output once the slave has been updated.
CascadeInv ==
    /\ Cascade \in irr[Master] <=> Cascade \in prev[Master]
    /\ work # Slave => (Cascade \in irr[Master] <=> GetIRQ(Slave) # {})

Vector(p, l) == Base[p] + l
InUse == Elems(stack) \cup Elems(queue) \cup Elems(handling)

\* A vector is in one place, and its line, never line 2 of the master, is in
\* service as long as it is there.
VectorsInv ==
    /\ Distinct(stack) /\ Distinct(queue) /\ Distinct(handling)
    /\ Elems(stack) \cap Elems(queue) = {} /\ Elems(stack) \cap Elems(handling) = {}
    /\ Elems(queue) \cap Elems(handling) = {}
    /\ \A v \in InUse : \E p \in Pics : \E l \in isr[p] :
          v = Vector(p, l) /\ <<p, l>> # <<Master, Cascade>>

\* An EOI still to be sent keeps its line in service, and its vector away.
EOIsInv ==
    /\ Distinct(eois)
    /\ \A e \in Elems(eois) : e # <<Master, Cascade>> =>
          e[2] \in isr[e[1]] /\ Vector(e[1], e[2]) \notin InUse

IInv == ModesInv /\ LinesInv /\ GuestTypes /\ CascadeInv /\ VectorsInv /\ EOIsInv
-----------------------------------------------------------------------------
(* Sequences without duplicates.                                           *)

LEMMA SeqAppend ==
  ASSUME NEW S, NEW s \in Seq(S), NEW e \in S
  PROVE  /\ Append(s, e) \in Seq(S) /\ Elems(Append(s, e)) = Elems(s) \cup {e}
         /\ Distinct(s) /\ e \notin Elems(s) => Distinct(Append(s, e))
<1> DEFINE a == Append(s, e)
<1>1. /\ a \in Seq(S) /\ Len(a) = Len(s) + 1 /\ a[Len(s) + 1] = e
      /\ \A i \in 1 .. Len(s) : a[i] = s[i]
      /\ DOMAIN a = 1 .. Len(s) + 1 /\ DOMAIN s = 1 .. Len(s) /\ Len(s) \in Nat
  OBVIOUS
<1> HIDE DEF a
<1>2. Elems(a) \subseteq Elems(s) \cup {e}
  <2>1. ASSUME NEW i \in 1 .. Len(s) + 1 PROVE a[i] \in Elems(s) \cup {e}
    BY <1>1 DEF Elems
  <2> QED
    BY <1>1, <2>1 DEF Elems
<1>3. Elems(s) \cup {e} \subseteq Elems(a)
  BY <1>1 DEF Elems
<1>4. ASSUME Distinct(s), e \notin Elems(s) PROVE Distinct(a)
  BY <1>1, <1>4 DEF Distinct, Elems
<1> QED
  BY <1>1, <1>2, <1>3, <1>4 DEF a

LEMMA SeqPush ==
  ASSUME NEW S, NEW s \in Seq(S), NEW e \in S
  PROVE  /\ <<e>> \o s \in Seq(S) /\ Elems(<<e>> \o s) = Elems(s) \cup {e}
         /\ Distinct(s) /\ e \notin Elems(s) => Distinct(<<e>> \o s)
<1> DEFINE a == <<e>> \o s
<1>1. /\ a \in Seq(S) /\ Len(a) = Len(s) + 1 /\ a[1] = e
      /\ \A i \in 1 .. Len(s) : a[i + 1] = s[i]
      /\ DOMAIN a = 1 .. Len(s) + 1 /\ DOMAIN s = 1 .. Len(s) /\ Len(s) \in Nat
  <2>1. <<e>> \in Seq(S) /\ Len(<<e>>) = 1 /\ <<e>>[1] = e
    OBVIOUS
  <2>2. a \in Seq(S) /\ Len(a) = 1 + Len(s)
    BY <2>1
  <2>3. a[1] = e /\ \A i \in 1 .. Len(s) : a[i + 1] = s[i]
    BY <2>1
  <2> QED
    BY <2>2, <2>3
<1> HIDE DEF a
<1>2. \A j \in 2 .. Len(s) + 1 : j - 1 \in 1 .. Len(s) /\ a[j] = s[j - 1]
  BY <1>1
<1>3. Elems(a) \subseteq Elems(s) \cup {e}
  <2>1. ASSUME NEW i \in 1 .. Len(s) + 1 PROVE a[i] \in Elems(s) \cup {e}
    <3>1. CASE i = 1
      BY <1>1, <3>1
    <3>2. CASE i # 1
      <4>1. i \in 2 .. Len(s) + 1
        BY <1>1, <3>2
      <4> QED
        BY <1>1, <1>2, <4>1 DEF Elems
    <3> QED
      BY <3>1, <3>2
  <2> QED
    BY <1>1, <2>1 DEF Elems
<1>4. Elems(s) \cup {e} \subseteq Elems(a)
  BY <1>1 DEF Elems
<1>5. ASSUME Distinct(s), e \notin Elems(s) PROVE Distinct(a)
  <2>1. ASSUME NEW i \in 1 .. Len(s) + 1, NEW j \in 1 .. Len(s) + 1, a[i] = a[j] PROVE i = j
    <3>1. \A k \in 2 .. Len(s) + 1 : a[k] \in Elems(s) /\ a[k] # e
      BY <1>1, <1>2, <1>5 DEF Elems
    <3>2. CASE i = 1 \/ j = 1
      <4>1. i \in 2 .. Len(s) + 1 \/ i = 1
        BY <1>1
      <4>2. j \in 2 .. Len(s) + 1 \/ j = 1
        BY <1>1
      <4> QED
        BY <1>1, <2>1, <3>1, <3>2, <4>1, <4>2
    <3>3. CASE i # 1 /\ j # 1
      <4>1. i \in 2 .. Len(s) + 1 /\ j \in 2 .. Len(s) + 1
        BY <1>1, <3>3
      <4>2. s[i - 1] = s[j - 1] /\ i - 1 \in 1 .. Len(s) /\ j - 1 \in 1 .. Len(s)
        BY <1>2, <2>1, <4>1
      <4>3. i - 1 = j - 1
        BY <1>1, <1>5, <4>2 DEF Distinct
      <4> QED
        BY <4>1, <4>3
    <3> QED
      BY <3>2, <3>3
  <2> QED
    BY <1>1, <2>1 DEF Distinct
<1> QED
  BY <1>1, <1>3, <1>4, <1>5 DEF a

LEMMA SeqTail ==
  ASSUME NEW S, NEW s \in Seq(S), s # <<>>, Distinct(s)
  PROVE  /\ Head(s) \in S /\ Head(s) \in Elems(s) /\ Tail(s) \in Seq(S)
         /\ Distinct(Tail(s)) /\ Elems(Tail(s)) = Elems(s) \ {Head(s)}
<1> DEFINE a == Tail(s)
           h == Head(s)
<1>1. /\ a \in Seq(S) /\ Len(a) = Len(s) - 1 /\ h = s[1] /\ h \in S
      /\ \A i \in 1 .. Len(s) - 1 : a[i] = s[i + 1]
      /\ DOMAIN a = 1 .. Len(s) - 1 /\ DOMAIN s = 1 .. Len(s) /\ Len(s) \in Nat \ {0}
  <2>1. Len(s) \in Nat \ {0} /\ DOMAIN s = 1 .. Len(s)
    OBVIOUS
  <2>2. a \in Seq(S) /\ Len(a) = Len(s) - 1
    OBVIOUS
  <2>3. h = s[1] /\ h \in S
    BY <2>1
  <2>4. \A i \in 1 .. Len(s) - 1 : a[i] = s[i + 1]
    OBVIOUS
  <2> QED
    BY <2>1, <2>2, <2>3, <2>4
<1> HIDE DEF a, h
<1>2. \A j \in 2 .. Len(s) : j - 1 \in 1 .. Len(s) - 1 /\ a[j - 1] = s[j]
  BY <1>1
<1>3. Elems(a) \subseteq Elems(s) \ {h}
  BY <1>1 DEF Elems, Distinct
<1>4. Elems(s) \ {h} \subseteq Elems(a)
  <2>1. ASSUME NEW j \in 1 .. Len(s), s[j] # h PROVE s[j] \in Elems(a)
    <3>1. j - 1 \in DOMAIN a /\ a[j - 1] = s[j]
      BY <1>1, <1>2, <2>1
    <3> QED
      BY <3>1, Zenon DEF Elems
  <2> QED
    BY <1>1, <2>1 DEF Elems
<1>5. Distinct(a)
  <2>1. ASSUME NEW i \in DOMAIN a, NEW j \in DOMAIN a, a[i] = a[j] PROVE i = j
    <3>1. /\ i \in 1 .. Len(s) - 1 /\ j \in 1 .. Len(s) - 1
          /\ i + 1 \in DOMAIN s /\ j + 1 \in DOMAIN s
      BY <1>1
    <3>2. s[i + 1] = s[j + 1]
      BY <1>1, <2>1, <3>1
    <3>3. i + 1 = j + 1
      BY <3>1, <3>2, Zenon DEF Distinct
    <3> QED
      BY <3>1, <3>3
  <2> QED
    BY <2>1 DEF Distinct
<1>6. h \in Elems(s)
  <2>1. 1 \in DOMAIN s /\ h = s[1]
    BY <1>1
  <2> QED
    BY <2>1, Zenon DEF Elems
<1> QED
  BY <1>1, <1>3, <1>4, <1>5, <1>6 DEF a, h

LEMMA SeqFront ==
  ASSUME NEW S, NEW s \in Seq(S), s # <<>>, Distinct(s)
  PROVE  LET a == SubSeq(s, 1, Len(s) - 1)
         IN  /\ s[Len(s)] \in S /\ s[Len(s)] \in Elems(s) /\ a \in Seq(S)
             /\ Distinct(a) /\ Elems(a) = Elems(s) \ {s[Len(s)]}
<1> DEFINE a == SubSeq(s, 1, Len(s) - 1)
<1>1. /\ a \in Seq(S) /\ Len(a) = Len(s) - 1 /\ s[Len(s)] \in S
      /\ \A i \in 1 .. Len(s) - 1 : a[i] = s[i]
      /\ DOMAIN a = 1 .. Len(s) - 1 /\ DOMAIN s = 1 .. Len(s) /\ Len(s) \in Nat \ {0}
  <2>1. Len(s) \in Nat \ {0} /\ DOMAIN s = 1 .. Len(s)
    OBVIOUS
  <2>2. Len(s) - 1 \in 0 .. Len(s)
    BY <2>1
  <2>3. a \in Seq(S) /\ Len(a) = Len(s) - 1
    BY <2>1, <2>2
  <2>4. s[Len(s)] \in S
    BY <2>1
  <2>5. \A i \in 1 .. Len(s) - 1 : a[i] = s[i]
    BY <2>1, <2>2
  <2> QED
    BY <2>1, <2>3, <2>4, <2>5
<1> HIDE DEF a
<1>2. Elems(a) \subseteq Elems(s) \ {s[Len(s)]}
  BY <1>1 DEF Elems, Distinct
<1>3. Elems(s) \ {s[Len(s)]} \subseteq Elems(a)
  <2>1. ASSUME NEW j \in 1 .. Len(s), s[j] # s[Len(s)] PROVE s[j] \in Elems(a)
    BY <1>1, <2>1 DEF Elems
  <2> QED
    BY <1>1, <2>1 DEF Elems
<1>4. Distinct(a)
  BY <1>1 DEF Distinct
<1>5. s[Len(s)] \in Elems(s)
  BY <1>1 DEF Elems
<1> QED
  BY <1>1, <1>2, <1>3, <1>4, <1>5 DEF a
-----------------------------------------------------------------------------
(* Vectors, and what GetIRQ finds.                                         *)

LEMMA VectorFacts ==
  /\ \A p \in Pics, l \in Lines : Vector(p, l) \in Nat
  /\ \A p, q \in Pics, k, l \in Lines : Vector(p, k) = Vector(q, l) => p = q /\ k = l
<1>1. \A l \in Lines : l \in Nat
  BY LineAssumption DEF Lines
<1>2. \A p \in Pics : Base[p] \in Nat
  BY LineAssumption
<1> QED
  BY <1>1, <1>2, HandlerAssumption DEF Vector

LEMMA PicFacts == /\ Master \in Pics /\ Slave \in Pics /\ Master # Slave
                  /\ \A p \in Pics : p = Master \/ p = Slave
                  /\ Cascade \in Lines
BY LineAssumption DEF Pics, Master, Slave, Cascade, Lines

\* A line in service is not served again: its own rank is not below itself.
LEMMA ServedFacts ==
  ASSUME ModesInv, LinesInv, NEW p \in Pics, NEW l \in GetIRQ(p)
  PROVE  l \in Lines /\ l \in irr[p] /\ l \notin isr[p]
<1>1. l \in irr[p] /\ \A s \in Blocking(p) : Rank(p, l) < Rank(p, s)
  BY DEF GetIRQ
<1>2. Blocking(p) = isr[p]
  <2>1. ~special[p] /\ ~sfnm[p]
    BY DEF ModesInv, Both
  <2> QED
    BY <2>1 DEF Blocking
<1>3. l \in Lines
  BY <1>1 DEF LinesInv
<1>4. Rank(p, l) \in Int
  <2>1. add[p] \in Int /\ l \in Int /\ NumLines \in Nat \ {0}
    BY <1>3, LineAssumption DEF LinesInv, Lines, Cascade
  <2> QED
    BY <2>1 DEF Rank
<1>5. ~(Rank(p, l) < Rank(p, l))
  BY <1>4
<1> QED
  BY <1>1, <1>2, <1>3, <1>5

LEMMA SameIRQ ==
  ASSUME NEW p \in Pics, irr'[p] = irr[p], isr'[p] = isr[p], imr'[p] = imr[p],
         add'[p] = add[p], UNCHANGED <<special, sfnm>>
  PROVE  GetIRQ(p)' = GetIRQ(p)
<1>1. Blocking(p)' = Blocking(p)
  BY DEF Blocking
<1>2. \A l : Rank(p, l)' = Rank(p, l)
  BY DEF Rank
<1> QED
  BY <1>1, <1>2 DEF GetIRQ

LEMMA CascadeKept ==
  ASSUME CascadeInv, UNCHANGED <<special, sfnm>>,
         Cascade \in irr'[Master] <=> Cascade \in irr[Master],
         Cascade \in prev'[Master] <=> Cascade \in prev[Master],
         \/ work' = Slave
         \/ /\ work # Slave
            /\ irr'[Slave] = irr[Slave] /\ isr'[Slave] = isr[Slave]
            /\ imr'[Slave] = imr[Slave] /\ add'[Slave] = add[Slave]
  PROVE  CascadeInv'
<1>1. CASE work' = Slave
  BY <1>1 DEF CascadeInv
<1>2. CASE /\ work # Slave
           /\ irr'[Slave] = irr[Slave] /\ isr'[Slave] = isr[Slave]
           /\ imr'[Slave] = imr[Slave] /\ add'[Slave] = add[Slave]
  <2>1. GetIRQ(Slave)' = GetIRQ(Slave)
    BY <1>2, SameIRQ, PicFacts
  <2> QED
    BY <1>2, <2>1, Zenon DEF CascadeInv
<1> QED
  BY <1>1, <1>2

\* Lines put in service keep what is in use, and the EOIs still to be sent.
LEMMA InServiceKept ==
  ASSUME VectorsInv, EOIsInv, \A p \in Pics : isr[p] \subseteq isr'[p], LinesInv, GuestTypes,
         UNCHANGED <<stack, queue, handling, eois>>
  PROVE  VectorsInv' /\ EOIsInv'
<1>1. InUse' = InUse
  BY DEF InUse
<1>2. VectorsInv'
  BY <1>1 DEF VectorsInv
<1>3. \A e \in Elems(eois) : e[1] \in Pics
  BY DEF GuestTypes, Elems
<1>4. EOIsInv'
  BY <1>1, <1>3 DEF EOIsInv
<1> QED
  BY <1>2, <1>4
-----------------------------------------------------------------------------
(* The calls and the recursion of UpdateIRQ.                               *)

LEMMA SetTypes ==
  ASSUME LinesInv, NEW p \in Pics, NEW l \in Lines, NEW asserted \in BOOLEAN, SetIRQ(p, l, asserted)
  PROVE  /\ irr' \in [Pics -> SUBSET Lines] /\ prev' \in [Pics -> SUBSET Lines]
         /\ \A q \in Pics \ {p} : irr'[q] = irr[q] /\ prev'[q] = prev[q]
         /\ \A k \in Lines \ {l} : /\ k \in irr'[p] <=> k \in irr[p]
                                   /\ k \in prev'[p] <=> k \in prev[p]
<1> DEFINE X == IF ~asserted THEN irr[p] \ {l}
                ELSE IF l \in elcr[p] \/ l \notin prev[p] THEN irr[p] \cup {l}
                ELSE irr[p]
           Y == IF asserted THEN prev[p] \cup {l} ELSE prev[p] \ {l}
<1>1. irr' = [irr EXCEPT ![p] = X] /\ prev' = [prev EXCEPT ![p] = Y]
  BY DEF SetIRQ
<1>2. X \subseteq Lines /\ Y \subseteq Lines
  BY DEF LinesInv
<1>3. \A k \in Lines \ {l} : (k \in X <=> k \in irr[p]) /\ (k \in Y <=> k \in prev[p])
  OBVIOUS
<1> HIDE DEF X, Y
<1>4. irr' \in [Pics -> SUBSET Lines] /\ prev' \in [Pics -> SUBSET Lines]
  BY <1>1, <1>2 DEF LinesInv
<1>5. /\ irr'[p] = X /\ prev'[p] = Y
      /\ \A q \in Pics \ {p} : irr'[q] = irr[q] /\ prev'[q] = prev[q]
  BY <1>1 DEF LinesInv
<1> QED
  BY <1>3, <1>4, <1>5

LEMMA HandleStep ==
  ASSUME IInv, NEW n \in IRQs, NEW level \in BOOLEAN, HandleIRQ(n, level),
         UNCHANGED <<handling, eois>>
  PROVE  IInv'
<1> USE PicFacts DEF IInv
<1>1. PICK p \in Pics : /\ p = IF n < NumLines THEN Master ELSE Slave
                        /\ SetIRQ(p, n % NumLines, level) /\ work = "idle" /\ work' = p
                        /\ UNCHANGED <<isr, imr, add, modeVars, portVars, stack, queue>>
  BY DEF HandleIRQ
<1> DEFINE l == n % NumLines
<1>2. l \in Lines /\ (p = Master => l # Cascade)
  <2>1. n \in Nat /\ n # Cascade /\ NumLines \in Nat \ {0}
    BY LineAssumption DEF Cascade
  <2>2. n % NumLines \in 0 .. NumLines - 1 /\ (n < NumLines => n % NumLines = n)
    BY <2>1
  <2>3. p = Master => n < NumLines
    BY <1>1
  <2> QED
    BY <2>1, <2>2, <2>3 DEF Lines
<1> HIDE DEF l
<1>3. /\ irr' \in [Pics -> SUBSET Lines] /\ prev' \in [Pics -> SUBSET Lines]
      /\ \A q \in Pics \ {p} : irr'[q] = irr[q] /\ prev'[q] = prev[q]
      /\ \A k \in Lines \ {l} : /\ k \in irr'[p] <=> k \in irr[p]
                                /\ k \in prev'[p] <=> k \in prev[p]
  BY <1>1, <1>2, SetTypes DEF l
<1>4. ModesInv' /\ LinesInv' /\ GuestTypes'
  BY <1>1, <1>3 DEF ModesInv, LinesInv, GuestTypes, modeVars, portVars
<1>5. CascadeInv'
  <2>1. /\ Cascade \in irr'[Master] <=> Cascade \in irr[Master]
        /\ Cascade \in prev'[Master] <=> Cascade \in prev[Master]
    BY <1>2, <1>3
  <2>2. work' = Slave \/ (work # Slave /\ irr'[Slave] = irr[Slave])
    BY <1>1, <1>3 DEF Slave
  <2> QED
    BY <1>1, <2>1, <2>2, CascadeKept DEF modeVars
<1>6. VectorsInv' /\ EOIsInv'
  BY <1>1, InServiceKept
<1> QED
  BY <1>4, <1>5, <1>6

LEMMA MaskStep ==
  ASSUME IInv, NEW p \in Pics, NEW m \in Masks, WriteMask(p, m), UNCHANGED guestVars
  PROVE  IInv'
<1> USE PicFacts DEF IInv
<1>1. /\ work = "idle" /\ work' = p /\ imr' = [imr EXCEPT ![p] = m]
      /\ UNCHANGED <<irr, isr, prev, add, modeVars, portVars, stack, queue, handling, eois>>
  BY DEF WriteMask, UpdateAfterMask, guestVars, lineVars
<1>2. m \subseteq Lines
  BY LineAssumption
<1>3. ModesInv' /\ LinesInv' /\ GuestTypes'
  BY <1>1, <1>2 DEF ModesInv, LinesInv, GuestTypes, modeVars, portVars
<1>4. CascadeInv'
  <2>1. work' = Slave \/ (work # Slave /\ imr'[Slave] = imr[Slave])
    BY <1>1 DEF Slave, LinesInv
  <2> QED
    BY <1>1, <2>1, CascadeKept DEF modeVars
<1>5. VectorsInv' /\ EOIsInv'
  BY <1>1, InServiceKept
<1> QED
  BY <1>3, <1>4, <1>5

\* UpdateIRQ(Slave) makes the master's line 2 the slave's output.
LEMMA SlaveStep ==
  ASSUME IInv, UpdateSlave, UNCHANGED guestVars
  PROVE  IInv'
<1> USE PicFacts DEF IInv
<1> DEFINE b == GetIRQ(Slave) # {}
<1>1. /\ SetIRQ(Master, Cascade, b) /\ work' = Master /\ b \in BOOLEAN
      /\ UNCHANGED <<isr, imr, add, modeVars, portVars, stack, queue, handling, eois>>
  BY DEF UpdateSlave, guestVars
<1>2. /\ irr' \in [Pics -> SUBSET Lines] /\ prev' \in [Pics -> SUBSET Lines]
      /\ \A q \in Pics \ {Master} : irr'[q] = irr[q] /\ prev'[q] = prev[q]
  BY <1>1, SetTypes
<1>3. ModesInv' /\ LinesInv' /\ GuestTypes'
  BY <1>1, <1>2 DEF ModesInv, LinesInv, GuestTypes, modeVars, portVars
<1>4. GetIRQ(Slave)' = GetIRQ(Slave)
  BY <1>1, <1>2, SameIRQ, PicFacts DEF modeVars
<1>5. (Cascade \in irr'[Master] <=> b) /\ (Cascade \in prev'[Master] <=> b)
  BY <1>1 DEF SetIRQ, CascadeInv, ModesInv, LinesInv
<1>6. CascadeInv'
  BY <1>4, <1>5 DEF CascadeInv
<1>7. VectorsInv' /\ EOIsInv'
  BY <1>1, InServiceKept
<1> QED
  BY <1>3, <1>6, <1>7

\* A vector sent to the CPU is new: its line was not in service.
LEMMA ServeLine ==
  ASSUME IInv, NEW p \in Pics, NEW l \in GetIRQ(p), <<p, l>> # <<Master, Cascade>>,
         work = Master, Acknowledge(p, l), stack' = <<base[p] + l>> \o stack,
         UNCHANGED <<prev, imr, modeVars, portVars, queue, guestVars>>
  PROVE  IInv'
<1> USE PicFacts DEF IInv
<1> DEFINE v == Vector(p, l)
<1>1. l \in Lines /\ l \in irr[p] /\ l \notin isr[p]
  BY ServedFacts
<1>2. /\ UNCHANGED <<prev, imr, modeVars, portVars, queue, handling, eois>>
      /\ work' = p /\ stack' = <<v>> \o stack
  BY DEF guestVars, Acknowledge, ModesInv, Vector
<1>3. /\ isr' = [isr EXCEPT ![p] = isr[p] \cup {l}] /\ UNCHANGED add
      /\ irr' = [irr EXCEPT ![p] = IF l \in elcr[p] THEN irr[p] ELSE irr[p] \ {l}]
  <2>1. ~autoEOI[p]
    BY DEF ModesInv, Both
  <2>2. isr' = [isr EXCEPT ![p] = isr[p] \cup {l}]
    BY <2>1 DEF Acknowledge, InService
  <2>3. add' = add
    BY <2>1 DEF Acknowledge, LinesInv
  <2> QED
    BY <2>2, <2>3 DEF Acknowledge, Acknowledged
<1>4. /\ irr' \in [Pics -> SUBSET Lines] /\ isr' \in [Pics -> SUBSET Lines]
      /\ \A q \in Pics : isr[q] \subseteq isr'[q]
      /\ \A q \in Pics \ {p} : irr'[q] = irr[q] /\ isr'[q] = isr[q]
      /\ l \in isr'[p]
      /\ \A k \in Lines \ {l} : k \in irr'[p] <=> k \in irr[p]
  BY <1>1, <1>3 DEF LinesInv
<1>5. v \in Nat /\ v \notin InUse
  <2>1. v \in Nat
    BY <1>1, VectorFacts
  <2>2. ASSUME v \in InUse PROVE FALSE
    <3>1. PICK q \in Pics : \E k \in isr[q] : v = Vector(q, k)
      BY <2>2 DEF VectorsInv
    <3>2. PICK k \in isr[q] : v = Vector(q, k)
      BY <3>1
    <3>3. k \in Lines
      BY DEF LinesInv
    <3> QED
      BY <1>1, <3>2, <3>3, VectorFacts
  <2> QED
    BY <2>1, <2>2
<1>6. /\ stack' \in Seq(Nat) /\ Elems(stack)' = Elems(stack) \cup {v}
      /\ Distinct(stack)'
  BY <1>2, <1>5, SeqPush DEF GuestTypes, VectorsInv, InUse
<1> HIDE DEF v
<1>7. ModesInv' /\ LinesInv' /\ GuestTypes'
  BY <1>2, <1>3, <1>4, <1>6 DEF ModesInv, LinesInv, GuestTypes, modeVars, portVars
<1>8. CascadeInv'
  <2>1. Cascade \in irr'[Master] <=> Cascade \in irr[Master]
    <3>1. CASE p = Master
      <4>1. l # Cascade
        BY <3>1
      <4> QED
        BY <1>4, <3>1, <4>1
    <3>2. CASE p # Master
      BY <1>4, <3>2
    <3> QED
      BY <3>1, <3>2
  <2>2. work' = Slave \/ (work # Slave /\ irr'[Slave] = irr[Slave] /\ isr'[Slave] = isr[Slave])
    BY <1>2, <1>4
  <2> QED
    BY <1>2, <1>3, <2>1, <2>2, CascadeKept DEF modeVars
<1>9. InUse' = InUse \cup {v}
  BY <1>2, <1>6 DEF InUse
<1>10. VectorsInv'
  <2>1. \A w \in InUse : \E q \in Pics : \E k \in isr'[q] :
           w = Vector(q, k) /\ <<q, k>> # <<Master, Cascade>>
    BY <1>4 DEF VectorsInv
  <2>2. \E q \in Pics : \E k \in isr'[q] :
           v = Vector(q, k) /\ <<q, k>> # <<Master, Cascade>>
    BY <1>4 DEF v
  <2>3. \A w \in InUse' : \E q \in Pics : \E k \in isr'[q] :
           w = Vector(q, k) /\ <<q, k>> # <<Master, Cascade>>
    BY <1>9, <2>1, <2>2
  <2>4. /\ Distinct(queue)' /\ Distinct(handling)'
        /\ Elems(queue)' = Elems(queue) /\ Elems(handling)' = Elems(handling)
    BY <1>2 DEF VectorsInv
  <2>5. \A q, k : Vector(q, k)' = Vector(q, k)
    BY DEF Vector
  <2> QED
    BY <1>5, <1>6, <2>3, <2>4, <2>5 DEF VectorsInv, InUse
<1>11. EOIsInv'
  <2>1. ASSUME NEW e \in Elems(eois), e # <<Master, Cascade>>
        PROVE  e[2] \in isr'[e[1]] /\ Vector(e[1], e[2]) \notin InUse'
    <3>1. e[1] \in Pics
      BY DEF GuestTypes, Elems
    <3>2. e[2] \in isr[e[1]] /\ Vector(e[1], e[2]) \notin InUse
      BY <2>1 DEF EOIsInv
    <3>3. e[2] \in Lines
      BY <3>1, <3>2 DEF LinesInv
    <3>4. Vector(e[1], e[2]) # v
      BY <1>1, <3>1, <3>2, <3>3, VectorFacts DEF v
    <3> QED
      BY <1>4, <1>9, <3>1, <3>2, <3>4
  <2> QED
    BY <1>2, <2>1 DEF EOIsInv, Vector
<1> QED
  BY <1>7, <1>8, <1>10, <1>11

LEMMA MasterStep ==
  ASSUME IInv, UpdateMasterNone \/ ServeMaster \/ ServeSlave, UNCHANGED guestVars
  PROVE  IInv'
<1> USE PicFacts
<1>1. CASE UpdateMasterNone
  <2>1. /\ work = Master /\ work' = "unwind"
        /\ UNCHANGED <<irr, isr, prev, imr, add, modeVars, portVars, stack, queue,
                       handling, eois>>
    BY <1>1 DEF UpdateMasterNone, lineVars, guestVars
  <2>2. ModesInv' /\ LinesInv' /\ GuestTypes'
    BY <2>1 DEF IInv, ModesInv, LinesInv, GuestTypes, modeVars, portVars
  <2>3. CascadeInv'
    BY <2>1, CascadeKept DEF IInv, modeVars
  <2> QED
    BY <2>1, <2>2, <2>3, InServiceKept DEF IInv
<1>2. CASE ServeMaster
  <2>1. PICK l \in GetIRQ(Master) \ {Cascade} :
           Acknowledge(Master, l) /\ stack' = <<base[Master] + l>> \o stack
    BY <1>2 DEF ServeMaster
  <2>2. work = Master /\ UNCHANGED <<prev, imr, modeVars, portVars, queue, guestVars>>
    BY <1>2 DEF ServeMaster
  <2>3. <<Master, l>> # <<Master, Cascade>>
    BY <2>1
  <2> QED
    BY <2>1, <2>2, <2>3, ServeLine
<1>3. CASE ServeSlave
  <2>1. PICK l \in GetIRQ(Slave) :
           Acknowledge(Slave, l) /\ stack' = <<base[Slave] + l>> \o stack
    BY <1>3 DEF ServeSlave
  <2>2. work = Master /\ UNCHANGED <<prev, imr, modeVars, portVars, queue, guestVars>>
    BY <1>3 DEF ServeSlave
  <2>3. <<Slave, l>> # <<Master, Cascade>>
    OBVIOUS
  <2> QED
    BY <2>1, <2>2, <2>3, ServeLine
<1> QED
  BY <1>1, <1>2, <1>3

\* The master sees the slave's output, so it never finds line 2 requested by a
\* slave with nothing to serve.
LEMMA NeverSpurious ==
  ASSUME IInv, ServeSpurious
  PROVE  FALSE
<1>1. Cascade \in irr[Master]
  BY DEF ServeSpurious, GetIRQ
<1>2. work # Slave /\ GetIRQ(Slave) = {}
  BY PicFacts DEF ServeSpurious
<1> QED
  BY <1>1, <1>2 DEF IInv, CascadeInv
-----------------------------------------------------------------------------
(* The way of a vector: the calls return, the CPU takes it, its handler ends. *)

\* What moves or leaves is as it was.
LEMMA Moved ==
  ASSUME VectorsInv, EOIsInv, UNCHANGED <<isr, eois>>, InUse' \subseteq InUse,
         Distinct(stack)', Distinct(queue)', Distinct(handling)',
         Elems(stack)' \cap Elems(queue)' = {}, Elems(stack)' \cap Elems(handling)' = {},
         Elems(queue)' \cap Elems(handling)' = {}
  PROVE  VectorsInv' /\ EOIsInv'
<1>1. \A q, k : Vector(q, k)' = Vector(q, k)
  BY DEF Vector
<1>2. \A v \in InUse' : \E p \in Pics : \E l \in isr'[p] :
         v = Vector(p, l) /\ <<p, l>> # <<Master, Cascade>>
  BY DEF VectorsInv
<1>3. VectorsInv'
  BY <1>1, <1>2 DEF VectorsInv
<1>4. EOIsInv'
  BY <1>1 DEF EOIsInv
<1> QED
  BY <1>3, <1>4

LEMMA InterruptStep ==
  ASSUME IInv, Interrupt, UNCHANGED guestVars
  PROVE  IInv'
<1> USE PicFacts DEF IInv
<1> DEFINE v == Head(stack)
<1>1. /\ work = "unwind" /\ stack # <<>> /\ queue' = Append(queue, v) /\ stack' = Tail(stack)
      /\ UNCHANGED <<irr, isr, prev, imr, add, modeVars, portVars, work, handling, eois>>
  BY DEF Interrupt, lineVars, guestVars
<1>2. stack \in Seq(Nat) /\ queue \in Seq(Nat) /\ Distinct(stack) /\ Distinct(queue)
  BY DEF GuestTypes, VectorsInv
<1>3. /\ v \in Nat /\ v \in Elems(stack) /\ stack' \in Seq(Nat)
      /\ Distinct(stack)' /\ Elems(stack)' = Elems(stack) \ {v}
  BY <1>1, <1>2, SeqTail
<1>4. v \notin Elems(queue) /\ v \notin Elems(handling)
  BY <1>3 DEF VectorsInv
<1>5. /\ queue' \in Seq(Nat) /\ Distinct(queue)' /\ Elems(queue)' = Elems(queue) \cup {v}
  BY <1>1, <1>2, <1>3, <1>4, SeqAppend
<1>6. Elems(handling)' = Elems(handling) /\ Distinct(handling)'
  BY <1>1 DEF VectorsInv
<1> HIDE DEF v
<1>7. ModesInv' /\ LinesInv' /\ GuestTypes'
  BY <1>1, <1>3, <1>5 DEF ModesInv, LinesInv, GuestTypes, modeVars, portVars
<1>8. CascadeInv'
  BY <1>1, CascadeKept DEF modeVars
<1>9. InUse' \subseteq InUse
  BY <1>3, <1>5, <1>6 DEF InUse
<1>10. VectorsInv' /\ EOIsInv'
  <2>1. /\ Elems(stack)' \cap Elems(queue)' = {} /\ Elems(stack)' \cap Elems(handling)' = {}
        /\ Elems(queue)' \cap Elems(handling)' = {}
    BY <1>3, <1>4, <1>5, <1>6 DEF VectorsInv
  <2> QED
    BY <1>1, <1>3, <1>5, <1>6, <1>9, <2>1, Moved
<1> QED
  BY <1>7, <1>8, <1>10

LEMMA TakeStep ==
  ASSUME IInv, TakeInterrupt
  PROVE  IInv'
<1> USE PicFacts DEF IInv
<1> DEFINE v == Head(queue)
<1>1. /\ queue # <<>> /\ queue' = Tail(queue) /\ handling' = Append(handling, v)
      /\ UNCHANGED <<irr, isr, prev, imr, add, modeVars, portVars, work, stack, eois>>
  BY DEF TakeInterrupt, TakeVector, lineVars
<1>2. queue \in Seq(Nat) /\ handling \in Seq(Nat) /\ Distinct(queue) /\ Distinct(handling)
  BY DEF GuestTypes, VectorsInv
<1>3. /\ v \in Nat /\ v \in Elems(queue) /\ queue' \in Seq(Nat)
      /\ Distinct(queue)' /\ Elems(queue)' = Elems(queue) \ {v}
  BY <1>1, <1>2, SeqTail
<1>4. v \notin Elems(stack) /\ v \notin Elems(handling)
  BY <1>3 DEF VectorsInv
<1>5. /\ handling' \in Seq(Nat) /\ Distinct(handling)'
      /\ Elems(handling)' = Elems(handling) \cup {v}
  BY <1>1, <1>2, <1>3, <1>4, SeqAppend
<1>6. Elems(stack)' = Elems(stack) /\ Distinct(stack)'
  BY <1>1 DEF VectorsInv
<1> HIDE DEF v
<1>7. ModesInv' /\ LinesInv' /\ GuestTypes'
  BY <1>1, <1>3, <1>5 DEF ModesInv, LinesInv, GuestTypes, modeVars, portVars
<1>8. CascadeInv'
  <2>1. work' = Slave \/ work # Slave
    BY <1>1
  <2> QED
    BY <1>1, <2>1, CascadeKept DEF modeVars
<1>9. InUse' \subseteq InUse
  BY <1>3, <1>5, <1>6 DEF InUse
<1>10. VectorsInv' /\ EOIsInv'
  <2>1. /\ Elems(stack)' \cap Elems(queue)' = {} /\ Elems(stack)' \cap Elems(handling)' = {}
        /\ Elems(queue)' \cap Elems(handling)' = {}
    BY <1>3, <1>4, <1>5, <1>6 DEF VectorsInv
  <2> QED
    BY <1>1, <1>3, <1>5, <1>6, <1>9, <2>1, Moved
<1> QED
  BY <1>7, <1>8, <1>10

\* The EOIs that end a handler: its line's, which is in service, and for a line
\* of the slave the one of the master's line 2.
LEMMA EndStep ==
  ASSUME IInv, EndHandler
  PROVE  IInv'
<1> USE PicFacts DEF IInv
<1> DEFINE v == handling[Len(handling)]
<1>1. /\ eois = <<>> /\ handling # <<>> /\ eois' = EOIsOf(v)
      /\ handling' = SubSeq(handling, 1, Len(handling) - 1)
      /\ UNCHANGED <<irr, isr, prev, imr, add, modeVars, portVars, work, stack, queue>>
  BY DEF EndHandler, vars, lineVars
<1>2. handling \in Seq(Nat) /\ Distinct(handling)
  BY DEF GuestTypes, VectorsInv
<1>3. /\ v \in Nat /\ v \in Elems(handling) /\ handling' \in Seq(Nat)
      /\ Distinct(handling)' /\ Elems(handling)' = Elems(handling) \ {v}
  BY <1>1, <1>2, SeqFront
<1>4. v \notin Elems(stack) /\ v \notin Elems(queue) /\ v \in InUse
  BY <1>3 DEF VectorsInv, InUse
<1>5. PICK p \in Pics : \E l \in isr[p] : v = Vector(p, l) /\ <<p, l>> # <<Master, Cascade>>
  BY <1>4 DEF VectorsInv
<1>6. PICK l \in isr[p] : v = Vector(p, l) /\ <<p, l>> # <<Master, Cascade>>
  BY <1>5
<1> HIDE DEF v
<1>7. l \in Lines /\ v = Base[p] + l /\ Base[p] \in Nat /\ l \in Nat
  BY <1>6, LineAssumption DEF LinesInv, Vector, Lines
<1>8. eois' = IF p = Master THEN <<<<Master, l>>>> ELSE <<<<Slave, l>>, <<Master, Cascade>>>>
  <2>1. CASE p = Master
    <3>1. v - Base[Master] = l /\ \E k \in Lines : v = Base[Master] + k
      BY <1>7, <2>1
    <3> QED
      BY <1>1, <2>1, <3>1 DEF EOIsOf
  <2>2. CASE p = Slave
    <3>1. v - Base[Slave] = l
      BY <1>7, <2>2
    <3>2. ~ \E k \in Lines : v = Base[Master] + k
      BY <1>6, <1>7, <2>2, VectorFacts DEF Vector
    <3> QED
      BY <1>1, <2>2, <3>1, <3>2 DEF EOIsOf
  <2> QED
    BY <2>1, <2>2
<1>9. /\ eois' \in Seq(Pics \X Lines) /\ Distinct(eois)'
      /\ \A e \in Elems(eois)' : e = <<p, l>> \/ e = <<Master, Cascade>>
  <2>1. CASE p = Master
    <3>1. eois' = <<<<Master, l>>>>
      BY <1>8, <2>1
    <3>2. <<Master, l>> \in Pics \X Lines
      BY <1>7
    <3> QED
      BY <2>1, <3>1, <3>2 DEF Distinct, Elems
  <2>2. CASE p = Slave
    <3> DEFINE a == <<Slave, l>>
               b == <<Master, Cascade>>
    <3>1. a \in Pics \X Lines /\ b \in Pics \X Lines /\ a # b
      BY <1>7
    <3>2. eois' = <<a, b>>
      BY <1>8, <2>2
    <3> HIDE DEF a, b
    <3>3. eois' \in Seq(Pics \X Lines) /\ Distinct(eois)' /\ \A e \in Elems(eois)' : e = a \/ e = b
      BY <3>1, <3>2 DEF Distinct, Elems
    <3> QED
      BY <2>2, <3>3 DEF a, b
  <2> QED
    BY <2>1, <2>2
<1>10. Elems(stack)' = Elems(stack) /\ Elems(queue)' = Elems(queue)
  BY <1>1
<1>11. InUse' \subseteq InUse /\ v \notin InUse'
  BY <1>3, <1>4, <1>10 DEF InUse
<1>12. ModesInv' /\ LinesInv' /\ GuestTypes'
  BY <1>1, <1>3, <1>9 DEF ModesInv, LinesInv, GuestTypes, modeVars, portVars
<1>13. CascadeInv'
  <2>1. work' = Slave \/ work # Slave
    BY <1>1
  <2> QED
    BY <1>1, <2>1, CascadeKept DEF modeVars
<1>14. VectorsInv'
  <2>1. /\ Distinct(stack)' /\ Distinct(queue)'
        /\ Elems(stack)' \cap Elems(queue)' = {} /\ Elems(stack)' \cap Elems(handling)' = {}
        /\ Elems(queue)' \cap Elems(handling)' = {}
    BY <1>1, <1>3, <1>10 DEF VectorsInv
  <2>2. \A w \in InUse' : \E q \in Pics : \E k \in isr'[q] :
           w = Vector(q, k)' /\ <<q, k>> # <<Master, Cascade>>
    BY <1>1, <1>11 DEF VectorsInv, Vector
  <2> QED
    BY <1>3, <2>1, <2>2 DEF VectorsInv
<1>15. EOIsInv'
  <2>1. ASSUME NEW e \in Elems(eois)', e # <<Master, Cascade>>
        PROVE  e[2] \in isr'[e[1]] /\ Vector(e[1], e[2])' \notin InUse'
    <3>1. e = <<p, l>>
      BY <1>9, <2>1
    <3>2. e[1] = p /\ e[2] = l /\ Vector(p, l)' = v
      BY <1>6, <3>1 DEF Vector
    <3> QED
      BY <1>1, <1>11, <3>2 DEF Vector
  <2> QED
    BY <1>9, <2>1 DEF EOIsInv
<1> QED
  BY <1>12, <1>13, <1>14, <1>15

\* An EOI ends the service of its own line only.
LEMMA EOIStep ==
  ASSUME IInv, SendEOI
  PROVE  IInv'
<1> USE PicFacts DEF IInv
<1> DEFINE e == Head(eois)
           p == e[1]
           l == e[2]
<1>1. /\ eois # <<>> /\ eois' = Tail(eois) /\ work = "idle" /\ work' = p
      /\ isr' = [isr EXCEPT ![p] = isr[p] \ {l}] /\ add' = [add EXCEPT ![p] = add[p]]
      /\ UNCHANGED <<irr, prev, imr, modeVars, portVars, stack, queue, handling>>
  BY DEF SendEOI, SpecificEOI
<1>2. eois \in Seq(Pics \X Lines) /\ Distinct(eois)
  BY DEF GuestTypes, EOIsInv
<1>3. /\ e \in Pics \X Lines /\ e \in Elems(eois) /\ eois' \in Seq(Pics \X Lines)
      /\ Distinct(eois)' /\ Elems(eois)' = Elems(eois) \ {e}
  BY <1>1, <1>2, SeqTail
<1>4. p \in Pics /\ l \in Lines /\ e = <<p, l>>
  BY <1>3
<1> HIDE DEF e, p, l
<1>5. /\ isr' \in [Pics -> SUBSET Lines] /\ add' = add
      /\ \A q \in Pics \ {p} : isr'[q] = isr[q]
      /\ isr'[p] = isr[p] \ {l}
  BY <1>1, <1>4 DEF LinesInv
<1>6. ModesInv' /\ LinesInv' /\ GuestTypes'
  BY <1>1, <1>3, <1>4, <1>5 DEF ModesInv, LinesInv, GuestTypes, modeVars, portVars
<1>7. CascadeInv'
  <2>1. work' = Slave \/ (work # Slave /\ isr'[Slave] = isr[Slave])
    BY <1>1, <1>4, <1>5 DEF Slave
  <2> QED
    BY <1>1, <1>5, <2>1, CascadeKept DEF modeVars
<1>8. InUse' = InUse
  BY <1>1 DEF InUse
<1>9. \A q, k : Vector(q, k)' = Vector(q, k)
  BY DEF Vector
<1>10. VectorsInv'
  <2>1. ASSUME NEW v \in InUse
        PROVE  \E q \in Pics : \E k \in isr'[q] :
                  v = Vector(q, k) /\ <<q, k>> # <<Master, Cascade>>
    <3>1. PICK q \in Pics : \E k \in isr[q] : v = Vector(q, k) /\ <<q, k>> # <<Master, Cascade>>
      BY DEF VectorsInv
    <3>2. PICK k \in isr[q] : v = Vector(q, k) /\ <<q, k>> # <<Master, Cascade>>
      BY <3>1
    <3>3. ~(q = p /\ k = l)
      BY <1>3, <1>4, <3>2 DEF EOIsInv, p, l
    <3> QED
      BY <1>5, <3>2, <3>3
  <2> QED
    BY <1>1, <1>8, <1>9, <2>1 DEF VectorsInv
<1>11. EOIsInv'
  <2>1. ASSUME NEW f \in Elems(eois)', f # <<Master, Cascade>>
        PROVE  f[2] \in isr'[f[1]] /\ Vector(f[1], f[2]) \notin InUse
    <3>1. f \in Elems(eois) /\ f # e
      BY <1>3
    <3>2. f[2] \in isr[f[1]] /\ Vector(f[1], f[2]) \notin InUse
      BY <2>1, <3>1 DEF EOIsInv
    <3>3. f \in Pics \X Lines
      BY <3>1, <1>2 DEF Elems
    <3>4. ~(f[1] = p /\ f[2] = l) /\ f[1] \in Pics
      BY <1>4, <3>1, <3>3
    <3>5. CASE f[1] = p
      BY <1>5, <3>2, <3>4, <3>5
    <3>6. CASE f[1] # p
      BY <1>5, <3>2, <3>4, <3>6
    <3> QED
      BY <3>5, <3>6
  <2> QED
    BY <1>3, <1>8, <1>9, <2>1 DEF EOIsInv
<1> QED
  BY <1>6, <1>7, <1>10, <1>11
-----------------------------------------------------------------------------
(* One request, one handler.                                               *)

LEMMA InvInit == Init => IInv
<1> SUFFICES ASSUME Init PROVE IInv
  OBVIOUS
<1> USE PicFacts DEF Init, ProgrammedState
<1>1. 0 \in Lines
  BY LineAssumption DEF Lines
<1>2. ModesInv
  <2>1. Level[Master] \in SUBSET (Lines \ {Cascade})
    BY HandlerAssumption
  <2> QED
    BY <2>1 DEF ModesInv
<1>3. LinesInv
  <2>1. imr \in [Pics -> SUBSET Lines]
    BY LineAssumption
  <2> QED
    BY <1>1, <2>1 DEF LinesInv, Both
<1>4. GuestTypes
  BY DEF GuestTypes
<1>5. CascadeInv
  BY DEF CascadeInv, GetIRQ, Both
<1>6. Elems(stack) = {} /\ Elems(queue) = {} /\ Elems(handling) = {} /\ Elems(eois) = {}
  BY DEF Elems
<1>7. VectorsInv
  BY <1>6 DEF VectorsInv, InUse, Distinct
<1>8. EOIsInv
  BY <1>6 DEF EOIsInv, Distinct
<1> QED
  BY <1>2, <1>3, <1>4, <1>5, <1>7, <1>8 DEF IInv

LEMMA InvStep == IInv /\ [Next]_allVars => IInv'
<1> SUFFICES ASSUME IInv, [Next]_allVars PROVE IInv'
  OBVIOUS
<1>1. ASSUME NEW n \in IRQs, Raise(n) \/ Lower(n) PROVE IInv'
  <2>1. CASE Raise(n)
    BY <2>1, HandleStep DEF Raise
  <2>2. CASE Lower(n)
    BY <2>2, HandleStep DEF Lower, guestVars
  <2> QED
    BY <1>1, <2>1, <2>2
<1>2. CASE TakeInterrupt
  BY <1>2, TakeStep
<1>3. CASE EndHandler
  BY <1>3, EndStep
<1>4. CASE SendEOI
  BY <1>4, EOIStep
<1>5. CASE ChangeMask
  BY <1>5, MaskStep DEF ChangeMask
<1>6. CASE PicStep /\ UNCHANGED guestVars
  <2>1. CASE UpdateSlave
    BY <1>6, <2>1, SlaveStep
  <2>2. CASE UpdateMasterNone \/ ServeMaster \/ ServeSlave
    BY <1>6, <2>2, MasterStep
  <2>3. CASE ServeSpurious
    BY <2>3, NeverSpurious
  <2>4. CASE Interrupt
    BY <1>6, <2>4, InterruptStep
  <2>5. CASE Return
    <3>1. /\ work = "unwind" /\ work' = "idle"
          /\ UNCHANGED <<irr, isr, prev, imr, add, modeVars, portVars, stack, queue,
                         handling, eois>>
      BY <1>6, <2>5 DEF Return, lineVars, guestVars
    <3>2. ModesInv' /\ LinesInv' /\ GuestTypes'
      BY <3>1 DEF IInv, ModesInv, LinesInv, GuestTypes, modeVars, portVars
    <3>3. CascadeInv'
      BY <3>1, CascadeKept, PicFacts DEF IInv, modeVars, Slave
    <3> QED
      BY <3>1, <3>2, <3>3, InServiceKept DEF IInv
  <2> QED
    BY <1>6, <2>1, <2>2, <2>3, <2>4, <2>5 DEF PicStep
<1>7. CASE UNCHANGED allVars
  <2>1. UNCHANGED <<irr, isr, prev, imr, add, modeVars, portVars, work, stack, queue,
                    handling, eois>>
    BY <1>7 DEF allVars, vars, guestVars, lineVars
  <2>2. ModesInv' /\ LinesInv' /\ GuestTypes'
    BY <2>1 DEF IInv, ModesInv, LinesInv, GuestTypes, modeVars, portVars
  <2>3. CascadeInv'
    <3>1. work' = Slave \/ work # Slave
      BY <2>1
    <3> QED
      BY <2>1, <3>1, CascadeKept, PicFacts DEF IInv, modeVars
  <2> QED
    BY <2>1, <2>2, <2>3, InServiceKept DEF IInv
<1> QED
  BY <1>1, <1>2, <1>3, <1>4, <1>5, <1>6, <1>7 DEF Next

\* Sequences without duplicates and without a common element, end to end.
LEMMA Joined ==
  ASSUME NEW S, NEW s \in Seq(S), NEW t \in Seq(S), Distinct(s), Distinct(t),
         Elems(s) \cap Elems(t) = {}
  PROVE  s \o t \in Seq(S) /\ Distinct(s \o t) /\ Elems(s \o t) = Elems(s) \cup Elems(t)
<1> DEFINE a == s \o t
           m == Len(s)
           n == Len(t)
<1>1. /\ a \in Seq(S) /\ Len(a) = m + n /\ m \in Nat /\ n \in Nat
      /\ \A i \in 1 .. m : a[i] = s[i]
      /\ \A i \in 1 .. n : a[m + i] = t[i]
      /\ DOMAIN a = 1 .. m + n /\ DOMAIN s = 1 .. m /\ DOMAIN t = 1 .. n
  <2>1. m \in Nat /\ n \in Nat /\ DOMAIN s = 1 .. m /\ DOMAIN t = 1 .. n
    OBVIOUS
  <2>2. a \in Seq(S) /\ Len(a) = m + n
    OBVIOUS
  <2>3. \A i \in 1 .. m : a[i] = s[i]
    OBVIOUS
  <2>4. \A i \in 1 .. n : a[m + i] = t[i]
    OBVIOUS
  <2> QED
    BY <2>1, <2>2, <2>3, <2>4
<1> HIDE DEF a, m, n
<1>2. \A k \in 1 .. m + n : \/ k \in 1 .. m /\ a[k] = s[k]
                            \/ k - m \in 1 .. n /\ a[k] = t[k - m]
  <2>1. ASSUME NEW k \in 1 .. m + n, k \notin 1 .. m PROVE k - m \in 1 .. n /\ a[k] = t[k - m]
    <3>1. k - m \in 1 .. n /\ m + (k - m) = k
      BY <1>1, <2>1
    <3> QED
      BY <1>1, <3>1
  <2> QED
    BY <1>1, <2>1
<1>3. Elems(a) \subseteq Elems(s) \cup Elems(t)
  BY <1>1, <1>2 DEF Elems
<1>4. Elems(s) \cup Elems(t) \subseteq Elems(a)
  <2>1. \A i \in 1 .. m : i \in 1 .. m + n
    BY <1>1
  <2>2. \A i \in 1 .. n : m + i \in 1 .. m + n
    BY <1>1
  <2> QED
    BY <1>1, <2>1, <2>2 DEF Elems
<1>5. Distinct(a)
  <2>1. ASSUME NEW i \in 1 .. m + n, NEW j \in 1 .. m + n, a[i] = a[j] PROVE i = j
    <3>1. CASE i \in 1 .. m /\ a[i] = s[i] /\ j \in 1 .. m /\ a[j] = s[j]
      BY <1>1, <2>1, <3>1 DEF Distinct
    <3>2. CASE i - m \in 1 .. n /\ a[i] = t[i - m] /\ j - m \in 1 .. n /\ a[j] = t[j - m]
      <4>1. i - m = j - m
        BY <1>1, <2>1, <3>2 DEF Distinct
      <4> QED
        BY <1>1, <4>1
    <3>3. \A k \in 1 .. m : s[k] \in Elems(s)
      BY <1>1 DEF Elems
    <3>4. \A k \in 1 .. n : t[k] \in Elems(t)
      BY <1>1 DEF Elems
    <3> QED
      BY <1>2, <2>1, <3>1, <3>2, <3>3, <3>4
  <2> QED
    BY <1>1, <2>1 DEF Distinct
<1> QED
  BY <1>1, <1>3, <1>4, <1>5 DEF a

LEMMA HandledOnceOfInv == IInv => HandledOnce
<1> SUFFICES ASSUME IInv PROVE HandledOnce
  OBVIOUS
<1>1. /\ stack \in Seq(Nat) /\ queue \in Seq(Nat) /\ handling \in Seq(Nat)
      /\ Distinct(stack) /\ Distinct(queue) /\ Distinct(handling)
      /\ Elems(stack) \cap Elems(queue) = {} /\ Elems(stack) \cap Elems(handling) = {}
      /\ Elems(queue) \cap Elems(handling) = {}
  BY DEF IInv, GuestTypes, VectorsInv
<1> DEFINE t == stack \o queue
<1>2. t \in Seq(Nat) /\ Distinct(t) /\ Elems(t) = Elems(stack) \cup Elems(queue)
  BY <1>1, Joined
<1> HIDE DEF t
<1>3. Elems(t) \cap Elems(handling) = {}
  BY <1>1, <1>2
<1>4. Distinct(t \o handling) /\ Elems(t \o handling) = Elems(t) \cup Elems(handling)
  BY <1>1, <1>2, <1>3, Joined
<1>5. Distinct(Outstanding) /\ Elems(Outstanding) = InUse
  BY <1>2, <1>4 DEF Outstanding, InUse, t
<1>6. NoDuplicateVector
  BY <1>5 DEF NoDuplicateVector, Distinct
<1>7. OutstandingInService
  <2>1. ASSUME NEW i \in DOMAIN Outstanding PROVE VectorInService(Outstanding[i])
    <3>1. Outstanding[i] \in InUse
      BY <1>5 DEF Elems
    <3>2. PICK p \in Pics : \E l \in isr[p] : Outstanding[i] = Vector(p, l)
      BY <3>1 DEF IInv, VectorsInv
    <3>3. p = Master \/ p = Slave
      BY PicFacts
    <3> QED
      BY <3>2, <3>3 DEF VectorInService, Vector
  <2> QED
    BY <2>1 DEF OutstandingInService
<1> QED
  BY <1>6, <1>7 DEF HandledOnce

\* One request, one handler (AcknowledgeIRQ and GetCurrentIRQ, i8259.cpp):
\* however the guest masks lines, nests handlers and orders its requests and
\* EOIs, no vector is sent to the CPU again before its handler has ended, and
\* every vector on its way or being handled has its line in service, so that
\* the guest never runs the handler of a spurious interrupt.
THEOREM OneHandlerPerRequest == SafeSpec => []HandledOnce
<1>1. Init => IInv
  BY InvInit
<1>2. IInv /\ [Next]_allVars => IInv'
  BY InvStep
<1>3. IInv => HandledOnce
  BY HandledOnceOfInv
<1> QED
  BY <1>1, <1>2, <1>3, PTL DEF SafeSpec
-----------------------------------------------------------------------------
(* Any guest: the depth of the recursion of UpdateIRQ, and what it leaves.  *)

\* Automatic EOI and level triggered lines come from commands the guest has.
GuestModes == /\ "init" \notin guest => autoEOI = Both(FALSE)
              /\ "elcr" \notin guest => elcr = Both({})

\* The requests a call may still acknowledge: each nested call takes one away.
Waiting(p) == {l \in irr[p] \ imr[p] : l \notin isr[p] /\ <<p, l>> # <<Master, Cascade>>}

DepthInv ==
    /\ work = "idle" => stack = <<>>
    /\ ~({"init", "elcr"} \subseteq guest) =>
         /\ Len(stack) <= 2 * NumLines
         /\ work \in Pics =>
              Len(stack) + Cardinality(Waiting(Master)) + Cardinality(Waiting(Slave)) <= 2 * NumLines - 1

\* A call returns when the master has nothing left to serve.
ServedInv ==
    guest \cap {"init", "special"} = {} =>
        /\ CascadeInv
        /\ work \in {"unwind", "idle"} => GetIRQ(Master) = {}

CommandsInv == TypeOK /\ GuestModes /\ DepthInv /\ ServedInv
-----------------------------------------------------------------------------
LEMMA LineNumbers == /\ \A l \in Lines : l \in Nat /\ NextLine(l) \in Lines
                     /\ NumLines \in Nat \ {0} /\ 0 \in Lines
<1>1. NumLines \in Nat /\ NumLines > 2 
  BY LineAssumption DEF Cascade
<1> QED
  BY <1>1 DEF Lines, NextLine

\* Every call is one of the guest's commands, made between two calls.
LEMMA PortTypes ==
  ASSUME TypeOK, NEW p \in Pics, Port(p)
  PROVE  TypeOK'
<1> USE PicFacts, LineNumbers
<1>1. \A m \in Masks : m \subseteq Lines
  BY LineAssumption
<1>2. ASSUME NEW m \in Masks, WriteMask(p, m) PROVE TypeOK'
  BY <1>1, <1>2 DEF WriteMask, UpdateAfterMask, TypeOK, lineVars, modeVars, portVars
<1>3. ASSUME NEW r \in BOOLEAN, NonSpecificEOI(p, r) PROVE TypeOK'
  <2>1. PICK l \in isr[p] : /\ isr' = [isr EXCEPT ![p] = isr[p] \ {l}]
                            /\ add' = [add EXCEPT ![p] = IF r THEN NextLine(l) ELSE add[p]]
    BY <1>3 DEF NonSpecificEOI
  <2>2. NextLine(l) \in Lines
    BY DEF TypeOK
  <2> QED
    BY <1>3, <2>1, <2>2 DEF NonSpecificEOI, TypeOK, modeVars, portVars
<1>4. ASSUME NEW r \in BOOLEAN, NEW l \in Lines, SpecificEOI(p, l, r) PROVE TypeOK'
  BY <1>4 DEF SpecificEOI, TypeOK, modeVars, portVars
<1>5. ASSUME NEW l \in Lines, SetPriority(p, l) PROVE TypeOK'
  BY <1>5 DEF SetPriority, TypeOK, lineVars, modeVars, portVars
<1>6. ASSUME NEW on \in BOOLEAN, SetRotateOnAutoEOI(p, on) PROVE TypeOK'
  BY <1>6 DEF SetRotateOnAutoEOI, TypeOK, lineVars, portVars
<1>7. ASSUME NEW polls \in BOOLEAN, NEW reads \in Seq({0, 1}), NEW masks \in Seq(BOOLEAN),
             WriteOCW3(p, polls, reads, masks)
      PROVE  TypeOK'
  <2>1. (reads # <<>> => reads[1] \in {0, 1}) /\ (masks # <<>> => masks[1] \in BOOLEAN)
    OBVIOUS
  <2>2. /\ poll' = [poll EXCEPT ![p] = poll[p] \/ polls]
        /\ select' = [select EXCEPT ![p] = IF reads = <<>> THEN select[p] ELSE reads[1]]
        /\ special' = [special EXCEPT ![p] = IF masks = <<>> THEN special[p] ELSE masks[1]]
    BY <1>7 DEF WriteOCW3
  <2>3. /\ poll' \in [Pics -> BOOLEAN] /\ special' \in [Pics -> BOOLEAN]
        /\ select' \in [Pics -> {0, 1}]
    BY <2>1, <2>2 DEF TypeOK
  <2> QED
    BY <1>7, <2>3 DEF WriteOCW3, TypeOK, lineVars
<1>8. ASSUME PollRead(p) PROVE TypeOK'
  <2>1. poll' \in [Pics -> BOOLEAN] /\ UNCHANGED <<imr, modeVars, select, initState, fourByte, base, stack, queue, prev>>
    BY <1>8 DEF PollRead, TypeOK, lineVars
  <2> DEFINE Goal == /\ irr' \in [Pics -> SUBSET Lines] /\ isr' \in [Pics -> SUBSET Lines]
                     /\ add' \in [Pics -> Lines] /\ work' \in Pics \cup {"unwind", "idle"}
  <2>2. Goal
    <3>1. CASE UNCHANGED <<lineVars, add, work>>
      BY <3>1 DEF TypeOK, lineVars
    <3>2. ASSUME NEW l \in GetIRQ(p), Acknowledge(p, l) PROVE Goal
      <4>1. l \in Lines
        BY DEF GetIRQ, TypeOK
      <4> QED
        BY <3>2, <4>1 DEF Acknowledge, InService, Acknowledged, TypeOK
    <3> QED
      BY <1>8, <3>1, <3>2 DEF PollRead
  <2> QED
    BY <2>1, <2>2 DEF TypeOK, modeVars
<1>9. ASSUME NEW ls \in Masks, WriteELCR(p, ls) PROVE TypeOK'
  BY <1>1, <1>9 DEF WriteELCR, TypeOK, lineVars, portVars
<1>10. ASSUME NEW four \in BOOLEAN, WriteICW1(p, four) PROVE TypeOK'
  BY <1>10 DEF WriteICW1, TypeOK
<1>11. CASE WriteICW2(p) \/ WriteICW3(p)
  <2>1. /\ initState' \in [Pics -> 0 .. 3] /\ base' \in [Pics -> Nat]
        /\ UNCHANGED <<lineVars, imr, add, modeVars, poll, select, fourByte, work, stack, queue>>
    <3>1. CASE WriteICW2(p)
      <4>1. base' = [base EXCEPT ![p] = Base[p]] /\ initState' = [initState EXCEPT ![p] = 2]
        BY <3>1 DEF WriteICW2
      <4>2. base' \in [Pics -> Nat] /\ initState' \in [Pics -> 0 .. 3]
        <5>1. Base[p] \in Nat
          BY LineAssumption
        <5>2. base \in [Pics -> Nat] /\ initState \in [Pics -> 0 .. 3] /\ 2 \in 0 .. 3
          BY DEF TypeOK
        <5>3. base' \in [Pics -> Nat]
          BY ONLY <4>1, <5>1, <5>2
        <5>4. initState' \in [Pics -> 0 .. 3]
          BY ONLY <4>1, <5>2
        <5> QED
          BY <5>3, <5>4
      <4> QED
        BY <3>1, <4>2 DEF WriteICW2
    <3>2. CASE WriteICW3(p)
      <4>1. initState' = [initState EXCEPT ![p] = IF fourByte[p] THEN 3 ELSE 0] /\ base' = base
        BY <3>2 DEF WriteICW3
      <4> QED
        BY <3>2, <4>1 DEF WriteICW3, TypeOK
    <3> QED
      BY <1>11, <3>1, <3>2
  <2> QED
    BY <2>1 DEF TypeOK, lineVars, modeVars
<1>12. ASSUME NEW nested \in BOOLEAN, NEW auto \in BOOLEAN, WriteICW4(p, nested, auto) PROVE TypeOK'
  BY <1>12 DEF WriteICW4, TypeOK, lineVars
<1>13. /\ \A s \in {0, 1} : <<s>> \in Seq({0, 1})
       /\ \A on \in BOOLEAN : <<on>> \in Seq(BOOLEAN)
       /\ <<>> \in Seq({0, 1}) /\ <<>> \in Seq(BOOLEAN) /\ Rotates \subseteq BOOLEAN
  <2>1. Rotates \subseteq BOOLEAN
    BY DEF Rotates
  <2>2. \A s \in {0, 1} : <<s>> \in Seq({0, 1})
    OBVIOUS
  <2>3. \A on \in BOOLEAN : <<on>> \in Seq(BOOLEAN)
    OBVIOUS
  <2>4. <<>> \in Seq({0, 1}) /\ <<>> \in Seq(BOOLEAN)
    OBVIOUS
  <2> QED
    BY <2>1, <2>2, <2>3, <2>4
<1>14. CASE \/ \E s \in {0, 1} : WriteOCW3(p, FALSE, <<s>>, <<>>)
            \/ WriteOCW3(p, TRUE, <<>>, <<>>)
            \/ \E on \in BOOLEAN : WriteOCW3(p, FALSE, <<>>, <<on>>)
  BY ONLY <1>7, <1>13, <1>14
<1> QED
  BY <1>13, <1>14, <1>2, <1>3, <1>4, <1>5, <1>6, <1>8, <1>9, <1>10, <1>11, <1>12 DEF Port

LEMMA HandleSets ==
  ASSUME NEW n \in IRQs, NEW level \in BOOLEAN, HandleIRQ(n, level)
  PROVE  \E p \in Pics, l \in Lines :
           /\ p = Master => l # Cascade
           /\ SetIRQ(p, l, level) /\ work = "idle" /\ work' = p
           /\ UNCHANGED <<isr, imr, add, modeVars, portVars, stack, queue>>
<1> DEFINE p == IF n < NumLines THEN Master ELSE Slave
<1>1. n \in Nat /\ n # Cascade /\ NumLines \in Nat \ {0}
  BY LineAssumption DEF Cascade
<1>2. n % NumLines \in 0 .. NumLines - 1 /\ (n < NumLines => n % NumLines = n)
  BY <1>1
<1>3. p \in Pics /\ (p = Master => n < NumLines)
  BY PicFacts
<1>4. n % NumLines \in Lines /\ (p = Master => n % NumLines # Cascade)
  BY <1>1, <1>2, <1>3 DEF Lines
<1>5. /\ SetIRQ(p, n % NumLines, level) /\ work = "idle" /\ work' = p
      /\ UNCHANGED <<isr, imr, add, modeVars, portVars, stack, queue>>
  BY DEF HandleIRQ
<1> HIDE DEF p
<1> QED
  BY <1>3, <1>4, <1>5

LEMMA TypesLines == TypeOK => LinesInv
BY DEF TypeOK, LinesInv

LEMMA SetTypeOK ==
  ASSUME TypeOK, NEW p \in Pics, NEW l \in Lines, NEW asserted \in BOOLEAN,
         SetIRQ(p, l, asserted), work' \in Pics,
         UNCHANGED <<isr, imr, add, modeVars, portVars, stack, queue>>
  PROVE  TypeOK'
<1>1. irr' \in [Pics -> SUBSET Lines] /\ prev' \in [Pics -> SUBSET Lines]
  BY SetTypes, TypesLines
<1> QED
  BY <1>1 DEF TypeOK, modeVars, portVars

LEMMA AcknowledgeTypeOK ==
  ASSUME TypeOK, NEW p \in Pics, NEW l \in GetIRQ(p), Acknowledge(p, l),
         stack' = <<base[p] + l>> \o stack,
         UNCHANGED <<prev, imr, modeVars, portVars, queue>>
  PROVE  TypeOK'
<1> USE PicFacts, LineNumbers
<1>1. l \in Lines /\ base[p] \in Nat
  BY DEF GetIRQ, TypeOK
<1>2. /\ irr' \in [Pics -> SUBSET Lines] /\ isr' \in [Pics -> SUBSET Lines]
      /\ add' \in [Pics -> Lines] /\ work' \in Pics
  BY <1>1 DEF Acknowledge, InService, Acknowledged, TypeOK
<1>3. base[p] + l \in Nat
  BY <1>1
<1>4. stack' \in Seq(Nat)
  BY <1>3, SeqPush DEF TypeOK
<1> QED
  BY <1>2, <1>4 DEF TypeOK, modeVars, portVars

LEMMA StepTypes ==
  ASSUME TypeOK, PicStep \/ TakeVector
  PROVE  TypeOK'
<1> USE PicFacts
<1>1. CASE UpdateSlave
  <2> DEFINE b == GetIRQ(Slave) # {}
  <2>1. /\ SetIRQ(Master, Cascade, b) /\ work' = Master /\ b \in BOOLEAN
        /\ UNCHANGED <<isr, imr, add, modeVars, portVars, stack, queue>>
    BY <1>1 DEF UpdateSlave
  <2> QED
    BY <2>1, SetTypeOK
<1>2. CASE UpdateMasterNone \/ Return
  BY <1>2 DEF UpdateMasterNone, Return, TypeOK, lineVars, modeVars, portVars
<1>3. CASE ServeMaster
  <2>1. PICK l \in GetIRQ(Master) : /\ Acknowledge(Master, l)
                                    /\ stack' = <<base[Master] + l>> \o stack
                                    /\ UNCHANGED <<prev, imr, modeVars, portVars, queue>>
    BY <1>3 DEF ServeMaster
  <2> QED
    BY <2>1, AcknowledgeTypeOK
<1>4. CASE ServeSlave
  <2>1. PICK l \in GetIRQ(Slave) : /\ Acknowledge(Slave, l)
                                   /\ stack' = <<base[Slave] + l>> \o stack
                                   /\ UNCHANGED <<prev, imr, modeVars, portVars, queue>>
    BY <1>4 DEF ServeSlave
  <2> QED
    BY <2>1, AcknowledgeTypeOK
<1>5. CASE ServeSpurious
  <2>1. base[Slave] + NumLines - 1 \in Nat
    <3>1. base[Slave] \in Nat
      BY DEF TypeOK
    <3> QED
      BY <3>1, LineNumbers
  <2>2. stack' \in Seq(Nat)
    BY <1>5, <2>1, SeqPush DEF ServeSpurious, TypeOK
  <2> QED
    BY <1>5, <2>2 DEF ServeSpurious, TypeOK, lineVars, modeVars, portVars
<1>6. CASE Interrupt
  <2>1. Head(stack) \in Nat /\ Tail(stack) \in Seq(Nat)
    BY <1>6 DEF Interrupt, TypeOK
  <2>2. queue' \in Seq(Nat) /\ stack' \in Seq(Nat)
    BY <1>6, <2>1 DEF Interrupt, TypeOK
  <2> QED
    BY <1>6, <2>2 DEF Interrupt, TypeOK, lineVars, modeVars, portVars
<1>7. CASE TakeVector
  <2>1. queue' \in Seq(Nat)
    BY <1>7 DEF TakeVector, TypeOK
  <2> QED
    BY <1>7, <2>1 DEF TakeVector, TypeOK, lineVars, modeVars, portVars
<1> QED
  BY <1>1, <1>2, <1>3, <1>4, <1>5, <1>6, <1>7 DEF PicStep

LEMMA CommandTypes ==
  ASSUME TypeOK, [CommandsNext]_commandVars
  PROVE  TypeOK'
<1>1. CASE Device
  <2>1. PICK n \in IRQs, level \in BOOLEAN : HandleIRQ(n, level)
    BY <1>1 DEF Device
  <2>2. PICK p \in Pics, l \in Lines :
           /\ SetIRQ(p, l, level) /\ work' = p
           /\ UNCHANGED <<isr, imr, add, modeVars, portVars, stack, queue>>
    BY <2>1, HandleSets
  <2> QED
    BY <2>2, SetTypeOK
<1>2. CASE UNCHANGED commandVars
  BY <1>2 DEF commandVars, vars, lineVars, modeVars, portVars, TypeOK
<1> QED
  BY <1>1, <1>2, PortTypes, StepTypes DEF CommandsNext

LEMMA ModesKept ==
  ASSUME TypeOK, GuestModes, [CommandsNext]_commandVars
  PROVE  GuestModes'
<1> USE PicFacts
<1>1. CASE UNCHANGED <<guest, autoEOI, elcr>>
  BY <1>1 DEF GuestModes
<1>2. ASSUME NEW p \in Pics, NEW ls \in Masks, "elcr" \in guest, WriteELCR(p, ls), guest' = guest
      PROVE  GuestModes'
  BY <1>2 DEF GuestModes, WriteELCR
<1>3. ASSUME NEW p \in Pics, "init" \in guest, guest' = guest,
             \/ \E four \in BOOLEAN : WriteICW1(p, four)
             \/ \E nested, auto \in BOOLEAN : WriteICW4(p, nested, auto)
      PROVE  GuestModes'
  BY <1>3 DEF GuestModes, WriteICW1, WriteICW4
<1>4. CASE PicStep \/ TakeVector \/ Device
  <2>1. UNCHANGED modeVars
    BY <1>4 DEF PicStep, TakeVector, Device, HandleIRQ, UpdateSlave, UpdateMasterNone, ServeMaster,
       ServeSlave, ServeSpurious, Interrupt, Return
  <2>2. CASE guest' = guest
    BY <1>1, <2>1, <2>2 DEF modeVars
  <2> QED
    BY <1>1, <2>2 DEF CommandsNext, commandVars, vars, modeVars
<1>5. ASSUME NEW p \in Pics, Port(p), guest' = guest PROVE GuestModes'
  <2>1. CASE \/ \E m \in Masks : WriteMask(p, m)
             \/ \E r \in Rotates : NonSpecificEOI(p, r)
             \/ \E r \in Rotates, l \in Lines : SpecificEOI(p, l, r)
             \/ \E l \in Lines : SetPriority(p, l)
             \/ \E on \in BOOLEAN : SetRotateOnAutoEOI(p, on)
             \/ \E polls, reads, masks : WriteOCW3(p, polls, reads, masks)
             \/ PollRead(p) \/ WriteICW2(p) \/ WriteICW3(p)
    <3>1. UNCHANGED <<autoEOI, elcr>>
      BY <2>1 DEF WriteMask, NonSpecificEOI, SpecificEOI, SetPriority, SetRotateOnAutoEOI, WriteOCW3,
         PollRead, WriteICW2, WriteICW3, modeVars
    <3> QED
      BY <1>1, <1>5, <3>1
  <2> QED
    BY <1>2, <1>3, <1>5, <2>1 DEF Port
<1> QED
  BY <1>1, <1>4, <1>5 DEF CommandsNext, commandVars, vars, modeVars
-----------------------------------------------------------------------------
(* The depth of the recursion.                                             *)

LEMMA ServedWaits ==
  ASSUME TypeOK, NEW p \in Pics, NEW l \in GetIRQ(p), <<p, l>> # <<Master, Cascade>>
  PROVE  l \in Waiting(p)
<1>1. l \in irr[p] \ imr[p] /\ \A s \in Blocking(p) : Rank(p, l) < Rank(p, s)
  BY DEF GetIRQ
<1>2. Rank(p, l) \in Int
  <2>1. add[p] \in Int /\ l \in Int /\ NumLines \in Nat \ {0}
    BY <1>1, LineAssumption DEF TypeOK, Lines, Cascade
  <2> QED
    BY <2>1 DEF Rank
<1>3. ASSUME l \in isr[p] PROVE FALSE
  <2>1. ~(p = Master /\ l = Cascade)
    OBVIOUS
  <2>2. l \in Blocking(p)
    BY <1>1, <1>3, <2>1 DEF Blocking
  <2>3. Rank(p, l) < Rank(p, l)
    BY <1>1, <2>2
  <2> QED
    BY <1>2, <2>3
<1> QED
  BY <1>1, <1>3 DEF Waiting

LEMMA WaitingSize ==
  TypeOK => /\ \A p \in Pics : IsFiniteSet(Waiting(p)) /\ Cardinality(Waiting(p)) \in Nat
            /\ Cardinality(Waiting(Master)) <= NumLines - 1
            /\ Cardinality(Waiting(Slave)) <= NumLines
<1> SUFFICES ASSUME TypeOK PROVE TypeOK => /\ \A p \in Pics : IsFiniteSet(Waiting(p)) /\ Cardinality(Waiting(p)) \in Nat
            /\ Cardinality(Waiting(Master)) <= NumLines - 1
            /\ Cardinality(Waiting(Slave)) <= NumLines
  OBVIOUS
<1> USE PicFacts
<1>1. IsFiniteSet(Lines) /\ Cardinality(Lines) = NumLines
  <2>1. 0 \in Int /\ NumLines - 1 \in Int /\ ~(0 > NumLines - 1)
    BY LineNumbers
  <2>2. IsFiniteSet(0 .. NumLines - 1) /\ Cardinality(0 .. NumLines - 1) = NumLines - 1 - 0 + 1
    BY <2>1, FS_Interval
  <2> QED
    BY <2>2, LineNumbers DEF Lines
<1>2. IsFiniteSet(Lines \ {Cascade}) /\ Cardinality(Lines \ {Cascade}) = NumLines - 1
  BY <1>1, FS_RemoveElement
<1>3. Waiting(Master) \subseteq Lines \ {Cascade} /\ \A p \in Pics : Waiting(p) \subseteq Lines
  BY DEF Waiting, TypeOK
<1>4. \A p \in Pics : IsFiniteSet(Waiting(p)) /\ Cardinality(Waiting(p)) <= Cardinality(Lines)
  BY <1>1, <1>3, FS_Subset
<1>5. Cardinality(Waiting(Master)) <= Cardinality(Lines \ {Cascade})
  BY <1>2, <1>3, FS_Subset
<1>6. \A p \in Pics : Cardinality(Waiting(p)) \in Nat
  BY <1>4, FS_CardinalityType
<1> QED
  BY <1>1, <1>2, <1>4, <1>5, <1>6

\* A call begins with nothing on the stack.
LEMMA Shallow == TypeOK /\ stack = <<>> => DepthInv
<1> SUFFICES ASSUME TypeOK, stack = <<>> PROVE DepthInv
  OBVIOUS
<1>1. Len(stack) = 0
  OBVIOUS
<1>2. 0 + Cardinality(Waiting(Master)) + Cardinality(Waiting(Slave)) <= 2 * NumLines - 1
  BY WaitingSize, PicFacts, LineNumbers
<1> QED
  BY <1>1, <1>2, LineNumbers DEF DepthInv

\* Each acknowledgement takes one request away.
LEMMA ServedLess ==
  ASSUME TypeOK, TypeOK', GuestModes, DepthInv, NEW p \in Pics, NEW l \in GetIRQ(p), <<p, l>> # <<Master, Cascade>>,
         work = Master, Acknowledge(p, l), NEW v, stack' = <<v>> \o stack, v \in Nat,
         UNCHANGED <<prev, imr, modeVars, guest>>
  PROVE  DepthInv'
<1> USE PicFacts
<1>1. l \in Waiting(p)
  BY ServedWaits
<1>2. SUFFICES ASSUME ~({"init", "elcr"} \subseteq guest)
               PROVE  /\ Len(stack') <= 2 * NumLines
                      /\ Len(stack') + Cardinality(Waiting(Master)') + Cardinality(Waiting(Slave)') <= 2 * NumLines - 1
  <2>1. work' # "idle"
    BY DEF Acknowledge, Pics, Master, Slave
  <2> QED
    BY <2>1 DEF DepthInv
<1>3. autoEOI[p] => elcr[p] = {}
  BY <1>2 DEF GuestModes, Both
<1>4. l \in Lines
  BY <1>1 DEF Waiting, TypeOK
<1>5. Waiting(p)' = Waiting(p) \ {l}
  <2>1. CASE autoEOI[p]
    <3>1. isr' = isr /\ irr'[p] = irr[p] \ {l}
      BY <1>3, <2>1 DEF Acknowledge, InService, Acknowledged, TypeOK
    <3> QED
      BY <3>1 DEF Waiting
  <2>2. CASE ~autoEOI[p]
    <3>1. isr'[p] = isr[p] \cup {l} /\ (irr'[p] = irr[p] \/ irr'[p] = irr[p] \ {l})
      BY <2>2 DEF Acknowledge, InService, Acknowledged, TypeOK
    <3> QED
      BY <3>1 DEF Waiting
  <2> QED
    BY <2>1, <2>2
<1>6. \A q \in Pics \ {p} : Waiting(q)' = Waiting(q)
  <2>1. \A q \in Pics \ {p} : irr'[q] = irr[q] /\ isr'[q] = isr[q]
    BY DEF Acknowledge, InService, Acknowledged, TypeOK
  <2> QED
    BY <2>1 DEF Waiting
<1>7. Cardinality(Waiting(p)') = Cardinality(Waiting(p)) - 1
  BY <1>1, <1>5, WaitingSize, FS_RemoveElement
<1>8. Cardinality(Waiting(Master)') + Cardinality(Waiting(Slave)')
        = Cardinality(Waiting(Master)) + Cardinality(Waiting(Slave)) - 1
  BY <1>6, <1>7, WaitingSize
<1>9. Len(stack') = Len(stack) + 1 /\ Len(stack) \in Nat
  BY DEF TypeOK
<1>10. Len(stack) + Cardinality(Waiting(Master)) + Cardinality(Waiting(Slave)) <= 2 * NumLines - 1
  BY <1>2 DEF DepthInv
<1>11. Cardinality(Waiting(Master)) \in Nat /\ Cardinality(Waiting(Slave)) \in Nat
  BY WaitingSize
<1>12. Cardinality(Waiting(Master)') \in Int /\ Cardinality(Waiting(Slave)') \in Int
  BY <1>6, <1>7, <1>11
<1> QED
  BY <1>8, <1>9, <1>10, <1>11, <1>12, LineNumbers

LEMMA DepthKept ==
  ASSUME TypeOK, TypeOK', GuestModes, DepthInv, [CommandsNext]_commandVars
  PROVE  DepthInv'
<1> USE PicFacts
<1>1. ASSUME stack' = <<>> PROVE DepthInv'
  <2>1. TypeOK' /\ (stack = <<>>)' => DepthInv'
    BY Shallow, PTL
  <2> QED
    BY <1>1, <2>1
<1>2. CASE Device
  <2>1. work = "idle" /\ stack' = stack
    BY <1>2 DEF Device, HandleIRQ
  <2> QED
    BY <1>1, <2>1 DEF DepthInv
<1>3. ASSUME NEW p \in Pics, Port(p) PROVE DepthInv'
  <2>1. work = "idle" /\ stack' = stack
    BY <1>3 DEF Port, WriteMask, NonSpecificEOI, SpecificEOI, SetPriority, SetRotateOnAutoEOI, WriteOCW3,
       PollRead, WriteELCR, WriteICW1, WriteICW2, WriteICW3, WriteICW4
  <2> QED
    BY <1>1, <2>1 DEF DepthInv
<1>4. CASE UpdateSlave /\ guest' = guest
  <2>1. /\ work = Slave /\ work' = Master
        /\ UNCHANGED <<isr, imr, stack>>
        /\ irr' = [irr EXCEPT ![Master] = IF ~(GetIRQ(Slave) # {}) THEN irr[Master] \ {Cascade}
                   ELSE IF Cascade \in elcr[Master] \/ Cascade \notin prev[Master] THEN irr[Master] \cup {Cascade}
                   ELSE irr[Master]]
    BY <1>4 DEF UpdateSlave, SetIRQ
  <2>2. Waiting(Slave)' = Waiting(Slave)
    BY <2>1 DEF Waiting, TypeOK
  <2>3. Waiting(Master)' = Waiting(Master)
    <3>1. \A l : l # Cascade => (l \in irr'[Master] <=> l \in irr[Master])
      BY <2>1 DEF TypeOK
    <3> QED
      BY <2>1, <3>1 DEF Waiting
  <2> QED
    BY <1>4, <2>1, <2>2, <2>3 DEF DepthInv, Master
<1>5. CASE UpdateMasterNone /\ guest' = guest
  BY <1>5 DEF UpdateMasterNone, DepthInv, Pics, Master, Slave
<1>6. CASE ServeMaster /\ guest' = guest
  <2>1. PICK l \in GetIRQ(Master) \ {Cascade} : /\ Acknowledge(Master, l)
                                                /\ stack' = <<base[Master] + l>> \o stack
                                                /\ work = Master /\ UNCHANGED <<prev, imr, modeVars>>
    BY <1>6 DEF ServeMaster
  <2>2. l \in Lines /\ l \in Nat /\ base[Master] \in Nat
    <3>1. l \in GetIRQ(Master) /\ base[Master] \in Nat
      BY DEF TypeOK, Pics
    <3>2. l \in Lines
      BY <3>1 DEF GetIRQ, TypeOK
    <3> QED
      BY <3>1, <3>2, LineNumbers
  <2>3. base[Master] + l \in Nat
    BY ONLY <2>2
  <2> QED
    BY <1>6, <2>1, <2>3, ServedLess
<1>7. CASE ServeSlave /\ guest' = guest
  <2>1. PICK l \in GetIRQ(Slave) : /\ Acknowledge(Slave, l)
                                   /\ stack' = <<base[Slave] + l>> \o stack
                                   /\ work = Master /\ UNCHANGED <<prev, imr, modeVars>>
    BY <1>7 DEF ServeSlave
  <2>2. l \in Lines /\ base[Slave] \in Nat
    BY <2>1 DEF GetIRQ, TypeOK
  <2>3. base[Slave] + l \in Nat
    BY <2>2, LineNumbers
  <2> QED
    BY <1>7, <2>1, <2>3, ServedLess
<1>8. CASE ServeSpurious /\ guest' = guest
  <2>1. work = Master /\ work' = "unwind" /\ Len(stack') = Len(stack) + 1 /\ Len(stack) \in Nat
    BY <1>8 DEF ServeSpurious, TypeOK
  <2>2. ~({"init", "elcr"} \subseteq guest) => Len(stack) <= 2 * NumLines - 1
    BY <2>1, WaitingSize, LineNumbers DEF DepthInv
  <2> QED
    BY <1>8, <2>1, <2>2, LineNumbers DEF DepthInv, Pics, Master, Slave
<1>9. CASE Interrupt /\ guest' = guest
  <2>1. work = "unwind" /\ work' = work /\ Len(stack') = Len(stack) - 1 /\ Len(stack) \in Nat
    BY <1>9 DEF Interrupt, TypeOK
  <2> QED
    BY <1>9, <2>1, LineNumbers DEF DepthInv, Pics, Master, Slave
<1>10. CASE Return
  BY <1>1, <1>10 DEF Return
<1>11. CASE (UNCHANGED commandVars \/ TakeVector) /\ guest' = guest
  <2>1. UNCHANGED <<irr, isr, imr, work, stack, guest>>
    BY <1>11 DEF TakeVector, commandVars, vars, lineVars
  <2>2. Waiting(Master)' = Waiting(Master) /\ Waiting(Slave)' = Waiting(Slave)
    BY <2>1 DEF Waiting
  <2> QED
    BY <2>1, <2>2 DEF DepthInv
<1> QED
  <2>1. CASE UNCHANGED commandVars
    <3>1. guest' = guest
      BY <2>1 DEF commandVars
    <3> QED
      BY <2>1, <3>1, <1>11
  <2>2. CASE CommandsNext
    <3>1. guest' = guest
      BY <2>2 DEF CommandsNext
    <3>2. CASE Len(queue) < MaxQueue /\ (Device \/ \E p \in Pics : Port(p))
      BY <3>2, <1>2, <1>3
    <3>3. CASE PicStep
      BY <3>1, <3>3, <1>4, <1>5, <1>6, <1>7, <1>8, <1>9, <1>10 DEF PicStep
    <3>4. CASE TakeVector
      BY <3>1, <3>4, <1>11
    <3> QED
      BY <2>2, <3>2, <3>3, <3>4 DEF CommandsNext
  <2> QED
    BY <2>1, <2>2
-----------------------------------------------------------------------------
(* What a call leaves.                                                     *)

LEMMA ServedKept ==
  ASSUME TypeOK, ServedInv, [CommandsNext]_commandVars
  PROVE  ServedInv'
<1> USE PicFacts
<1>1. guest' = guest
  BY DEF CommandsNext, commandVars
<1>2. SUFFICES ASSUME guest \cap {"init", "special"} = {}
               PROVE  CascadeInv' /\ (work' \in {"unwind", "idle"} => GetIRQ(Master)' = {})
  BY <1>1 DEF ServedInv
<1>3. /\ CascadeInv
      /\ work \in {"unwind", "idle"} => GetIRQ(Master) = {}
      /\ "init" \notin guest /\ "special" \notin guest
  BY <1>2 DEF ServedInv
<1> DEFINE Goal == CascadeInv' /\ (work' \in {"unwind", "idle"} => GetIRQ(Master)' = {})
<1>4. ASSUME UNCHANGED <<irr, isr, prev, imr, add, special, sfnm>>, work' = work \/ (work = "unwind" /\ work' = "idle") PROVE Goal
  <2>1. GetIRQ(Master)' = GetIRQ(Master)
    BY <1>4, SameIRQ
  <2>2. CascadeInv'
    <3>1. CASE work = Slave
      <4>1. work' = Slave
        BY <1>4, <3>1 DEF Slave
      <4> QED
        BY <1>3, <1>4, <4>1 DEF CascadeInv
    <3>2. CASE work # Slave
      BY <1>3, <1>4, <3>2, CascadeKept
    <3> QED
      BY <3>1, <3>2
  <2> QED
    BY <1>3, <1>4, <2>1, <2>2
\* A call begins on a controller whose own lines may have changed.
<1>5. ASSUME NEW p \in Pics, work = "idle", work' = p, UNCHANGED <<special, sfnm>>,
             Cascade \in irr'[Master] <=> Cascade \in irr[Master],
             Cascade \in prev'[Master] <=> Cascade \in prev[Master],
             \A q \in Pics \ {p} : /\ irr'[q] = irr[q] /\ isr'[q] = isr[q]
                                   /\ imr'[q] = imr[q] /\ add'[q] = add[q]
      PROVE  Goal
  <2>1. work # Slave /\ work' \notin {"unwind", "idle"}
    BY <1>5 DEF Pics, Master, Slave
  <2> QED
    BY <1>3, <1>5, <2>1, CascadeKept
<1>6. CASE Device
  <2>1. PICK n \in IRQs, level \in BOOLEAN : HandleIRQ(n, level)
    BY <1>6 DEF Device
  <2>2. PICK p \in Pics, l \in Lines :
           /\ p = Master => l # Cascade
           /\ SetIRQ(p, l, level) /\ work = "idle" /\ work' = p
           /\ UNCHANGED <<isr, imr, add, modeVars, portVars, stack, queue>>
    BY <2>1, HandleSets
  <2>3. /\ \A q \in Pics \ {p} : irr'[q] = irr[q] /\ prev'[q] = prev[q]
        /\ \A k \in Lines \ {l} : /\ k \in irr'[p] <=> k \in irr[p]
                                  /\ k \in prev'[p] <=> k \in prev[p]
    BY <2>2, SetTypes, TypesLines
  <2> QED
    BY <1>5, <2>2, <2>3 DEF modeVars
<1>7. ASSUME NEW p \in Pics, Port(p) PROVE Goal
  <2>1. CASE \E m \in Masks : WriteMask(p, m)
    <3>1. /\ work = "idle" /\ work' = p /\ UNCHANGED <<irr, isr, prev, add, special, sfnm>>
          /\ \A q \in Pics \ {p} : imr'[q] = imr[q]
      BY <2>1 DEF WriteMask, UpdateAfterMask, lineVars, modeVars, TypeOK
    <3> QED
      BY <1>5, <3>1
  <2>2. CASE \E r \in Rotates : NonSpecificEOI(p, r) \/ \E l \in Lines : SpecificEOI(p, l, r)
    <3>1. /\ work = "idle" /\ work' = p /\ UNCHANGED <<irr, prev, imr, special, sfnm>>
          /\ \A q \in Pics \ {p} : isr'[q] = isr[q] /\ add'[q] = add[q]
      BY <2>2 DEF NonSpecificEOI, SpecificEOI, modeVars, TypeOK
    <3> QED
      BY <1>5, <3>1
  <2>3. CASE \E l \in Lines : SetPriority(p, l)
    <3>1. /\ work = "idle" /\ work' = p /\ UNCHANGED <<irr, isr, prev, imr, special, sfnm>>
          /\ \A q \in Pics \ {p} : add'[q] = add[q]
      BY <2>3 DEF SetPriority, lineVars, modeVars, TypeOK
    <3> QED
      BY <1>5, <3>1
  <2>4. CASE \/ \E on \in BOOLEAN : SetRotateOnAutoEOI(p, on)
             \/ \E ls \in Masks : WriteELCR(p, ls)
    BY <1>4, <2>4 DEF SetRotateOnAutoEOI, WriteELCR, lineVars
  <2>5. CASE \/ \E s \in {0, 1} : WriteOCW3(p, FALSE, <<s>>, <<>>)
             \/ WriteOCW3(p, TRUE, <<>>, <<>>)
    <3>1. special' = special
      BY <2>5 DEF WriteOCW3, TypeOK
    <3> QED
      BY <1>4, <2>5, <3>1 DEF WriteOCW3, lineVars
  <2>6. CASE PollRead(p)
    <3>1. CASE UNCHANGED <<lineVars, add, work>>
      BY <1>4, <2>6, <3>1 DEF PollRead, lineVars, modeVars
    <3>2. ASSUME NEW l \in GetIRQ(p), Acknowledge(p, l), UNCHANGED prev PROVE Goal
      <4>1. p = Slave
        BY <1>3, <2>6, <3>2 DEF PollRead
      <4>2. /\ work = "idle" /\ work' = p /\ UNCHANGED <<prev, imr, special, sfnm>>
            /\ \A q \in Pics \ {p} : irr'[q] = irr[q] /\ isr'[q] = isr[q] /\ add'[q] = add[q]
        BY <2>6, <3>2 DEF PollRead, Acknowledge, InService, Acknowledged, modeVars, TypeOK
      <4> QED
        BY <1>5, <4>1, <4>2
    <3> QED
      BY <2>6, <3>1, <3>2 DEF PollRead
  <2> QED
    BY <1>3, <1>7, <2>1, <2>2, <2>3, <2>4, <2>5, <2>6 DEF Port
<1>8. CASE UpdateSlave
  <2> DEFINE b == GetIRQ(Slave) # {}
  <2>1. /\ SetIRQ(Master, Cascade, b) /\ work' = Master /\ b \in BOOLEAN
        /\ UNCHANGED <<isr, imr, add, modeVars, portVars>>
    BY <1>8 DEF UpdateSlave
  <2>2. \A q \in Pics \ {Master} : irr'[q] = irr[q] /\ prev'[q] = prev[q]
    BY <2>1, SetTypes, TypesLines
  <2>3. GetIRQ(Slave)' = GetIRQ(Slave)
    BY <2>1, <2>2, SameIRQ DEF modeVars
  <2>4. (Cascade \in irr'[Master] <=> b) /\ (Cascade \in prev'[Master] <=> b)
    BY <1>3, <2>1 DEF SetIRQ, CascadeInv, TypeOK
  <2> QED
    BY <2>1, <2>3, <2>4 DEF CascadeInv, Master
<1>9. CASE UpdateMasterNone
  <2>1. GetIRQ(Master) = {} /\ work = Master /\ UNCHANGED <<irr, isr, prev, imr, add, special, sfnm>>
    BY <1>9 DEF UpdateMasterNone, lineVars, modeVars
  <2>2. GetIRQ(Master)' = GetIRQ(Master)
    BY <2>1, SameIRQ
  <2>3. CascadeInv'
    BY <1>3, <2>1, CascadeKept
  <2> QED
    BY <2>1, <2>2, <2>3
<1>10. ASSUME NEW p \in Pics, NEW l \in GetIRQ(p), <<p, l>> # <<Master, Cascade>>, work = Master,
              Acknowledge(p, l), UNCHANGED <<prev, imr, modeVars>>
       PROVE  Goal
  <2>1. /\ work' = p
        /\ \A q \in Pics \ {p} : irr'[q] = irr[q] /\ isr'[q] = isr[q] /\ add'[q] = add[q]
    BY <1>10 DEF Acknowledge, InService, Acknowledged, TypeOK
  <2>2. Cascade \in irr'[Master] <=> Cascade \in irr[Master]
    BY <1>10 DEF Acknowledge, Acknowledged, TypeOK
  <2>3. CascadeInv'
    <3>1. work # Slave /\ (work' = Slave \/ p = Master)
      BY <1>10, <2>1
    <3> QED
      BY <1>3, <1>10, <2>1, <2>2, <3>1, CascadeKept DEF modeVars
  <2> QED
    BY <2>1, <2>3 DEF Pics, Master, Slave
<1>11. CASE ServeMaster
  BY <1>10, <1>11 DEF ServeMaster
<1>12. CASE ServeSlave
  BY <1>10, <1>12 DEF ServeSlave
\* The master never finds a request that the slave has withdrawn.
<1>13. CASE ServeSpurious
  <2>1. Cascade \in irr[Master] /\ GetIRQ(Slave) = {} /\ work = Master
    BY <1>13 DEF ServeSpurious, GetIRQ
  <2> QED
    BY <1>3, <2>1 DEF CascadeInv
<1>14. CASE Interrupt \/ Return \/ TakeVector \/ UNCHANGED commandVars
  BY <1>4, <1>14 DEF Interrupt, Return, TakeVector, commandVars, vars, lineVars, modeVars
<1> QED
  BY <1>6, <1>7, <1>8, <1>9, <1>11, <1>12, <1>13, <1>14 DEF CommandsNext, PicStep

LEMMA CommandsStart == CommandsInit => CommandsInv
<1> SUFFICES ASSUME CommandsInit PROVE CommandsInv
  OBVIOUS
<1> USE PicFacts, LineNumbers
<1>1. /\ irr = Both({}) /\ isr = Both({}) /\ prev = Both({}) /\ elcr = Both({})
      /\ autoEOI = Both(FALSE) /\ special = Both(FALSE) /\ sfnm = Both(FALSE)
      /\ work = "idle" /\ stack = <<>> /\ queue = <<>>
  BY DEF CommandsInit, ResetState, ProgrammedState
<1>2. imr \in [Pics -> SUBSET Lines] /\ base \in [Pics -> Nat]
  BY LineAssumption DEF CommandsInit, ResetState, ProgrammedState, Both
<1>3. /\ add \in [Pics -> Lines] /\ rotate \in [Pics -> BOOLEAN] /\ poll \in [Pics -> BOOLEAN]
      /\ select \in [Pics -> {0, 1}] /\ initState \in [Pics -> 0 .. 3] /\ fourByte \in [Pics -> BOOLEAN]
  <2>1. CASE ResetState
    BY <2>1 DEF ResetState, Both
  <2>2. CASE ProgrammedState(Both({}))
    BY <2>2 DEF ProgrammedState, Both
  <2> QED
    BY <2>1, <2>2 DEF CommandsInit
<1>4. TypeOK
  BY <1>1, <1>2, <1>3 DEF TypeOK, Both
<1>5. \A p \in Pics : GetIRQ(p) = {}
  BY <1>1 DEF GetIRQ, Both
<1>6. ServedInv
  BY <1>1, <1>5 DEF ServedInv, CascadeInv, Both
<1> QED
  BY <1>1, <1>4, <1>6, Shallow DEF CommandsInv, GuestModes

\* Whatever commands a guest writes to the ports, in any order, while the
\* devices raise and lower their lines: the recursion of UpdateIRQ is no deeper
\* than there are lines, unless the guest combines automatic EOI with level
\* triggered lines, and no request is left that it should have served, unless
\* the guest reinitializes a controller or uses special mask mode.
THEOREM AnyCommandIsServed == CommandsSpec => []UpdateServes
<1>1. CommandsInv /\ [CommandsNext]_commandVars => CommandsInv'
  BY CommandTypes, ModesKept, DepthKept, ServedKept DEF CommandsInv
<1>2. CommandsInv => UpdateServes
  BY PicFacts DEF CommandsInv, DepthInv, ServedInv, CascadeInv, UpdateServes, RecursionEnds,
     RecursionBounded, NoRequestStranded, NoStrandedRequest, Slave
<1> QED
  BY <1>1, <1>2, CommandsStart, PTL DEF CommandsSpec
=============================================================================
