--------------------------- MODULE RbPathsProofs ---------------------------
(***************************************************************************)
(* Theorems about paths, for any volumes, shares, files and requests: what *)
(* the driver takes the service can give back to where it was, and a tree  *)
(* request selects its tree, whatever wildcards its name has.              *)
(***************************************************************************)
EXTENDS RbPaths, SequenceTheorems, WellFoundedInduction, TLAPS

\* Only what is below the share was ever deleted through the driver's test.
PathInv == PathsTypeOK /\ \A nt \in rows : RbfIsProtected(nt)

-----------------------------------------------------------------------------
(* Paths, token by token.                                                  *)

LEMMA PrefixTokens ==
  ASSUME NEW p \in Seq(Tokens), NEW q \in Seq(Tokens)
  PROVE  IsPrefix(p, q) <=> Len(p) <= Len(q) /\ \A i \in 1 .. Len(p) : p[i] = q[i]
  BY DEF IsPrefix

LEMMA BelowTokens ==
  ASSUME NEW p \in Seq(Tokens), NEW q \in Seq(Tokens)
  PROVE  AtOrBelow(q, p) <=>
           /\ Len(p) <= Len(q) /\ \A i \in 1 .. Len(p) : p[i] = q[i]
           /\ Len(q) > Len(p) => q[Len(p) + 1] = Sep
  BY PrefixTokens DEF AtOrBelow

LEMMA Dropped ==
  ASSUME NEW p \in Seq(Tokens), NEW n \in 0 .. Len(p)
  PROVE  /\ DropFirst(p, n) \in Seq(Tokens) /\ Len(DropFirst(p, n)) = Len(p) - n
         /\ \A i \in 1 .. Len(p) - n : DropFirst(p, n)[i] = p[n + i]
  BY SubSeqProperties DEF DropFirst

LEMMA SameTokens ==
  ASSUME NEW p \in Seq(Tokens), NEW q \in Seq(Tokens),
         Len(p) = Len(q), \A i \in 1 .. Len(p) : p[i] = q[i]
  PROVE  p = q
  OBVIOUS

\* The device of the volume with a letter, and what is left of a DOS path.
LEMMA RealPathOf ==
  ASSUME NEW v \in Volumes, NEW dos \in Seq(Tokens), dos # Null, dos[1] = v.drive
  PROVE  /\ RealPath(dos) = v.dev \o Tail(dos)
         /\ RealPath(dos) \in Seq(Tokens)
         /\ Len(RealPath(dos)) = Len(v.dev) + Len(dos) - 1
         /\ \A i \in 1 .. Len(v.dev) : RealPath(dos)[i] = v.dev[i]
         /\ \A i \in 2 .. Len(dos) : RealPath(dos)[Len(v.dev) + i - 1] = dos[i]
<1>1. (CHOOSE w \in Volumes : w.drive = dos[1]) = v
  BY PathsAssumption
<1>2. v.dev \in Seq(Tokens)
  BY PathsAssumption
<1>3. /\ Tail(dos) \in Seq(Tokens) /\ Len(dos) >= 1 /\ Len(Tail(dos)) = Len(dos) - 1
      /\ \A i \in 1 .. Len(dos) - 1 : Tail(dos)[i] = dos[i + 1]
  BY DEF Null
<1>4. RealPath(dos) = v.dev \o Tail(dos)
  BY <1>1 DEF RealPath
<1>5. \A i \in 2 .. Len(dos) : RealPath(dos)[Len(v.dev) + i - 1] = dos[i]
  <2> SUFFICES ASSUME NEW i \in 2 .. Len(dos) PROVE RealPath(dos)[Len(v.dev) + i - 1] = dos[i]
    OBVIOUS
  <2>1. (v.dev \o Tail(dos))[Len(v.dev) + (i - 1)] = Tail(dos)[i - 1]
    BY <1>2, <1>3
  <2> QED
    BY <2>1, <1>2, <1>3, <1>4
<1> QED
  BY <1>2, <1>3, <1>4, <1>5

-----------------------------------------------------------------------------
(* A file the driver took is on the volume of the share, and the service's *)
(* map finds that volume.                                                  *)

\* Two devices a file is at or beneath are one.
LEMMA OneDevice ==
  ASSUME NEW nt \in Files, NEW v \in Volumes, NEW w \in Volumes,
         AtOrBelow(nt, v.dev), IsPrefix(w.dev, nt), Len(v.dev) <= Len(w.dev)
  PROVE  v = w
<1>1. nt \in Seq(Tokens) /\ v.dev \in Seq(Tokens) /\ w.dev \in Seq(Tokens)
  BY PathsAssumption
<1>2. AtOrBelow(w.dev, v.dev)
  <2>1. \A i \in 1 .. Len(v.dev) : v.dev[i] = w.dev[i]
    BY <1>1, BelowTokens, PrefixTokens
  <2>2. Len(w.dev) > Len(v.dev) => w.dev[Len(v.dev) + 1] = Sep
    BY <1>1, BelowTokens, PrefixTokens
  <2> QED
    BY <1>1, <2>1, <2>2, BelowTokens
<1> QED
  BY <1>2, PathsAssumption

LEMMA OnTheShare ==
  ASSUME PathsTypeOK, NEW nt \in Files, RbfIsProtected(nt),
         NEW v \in vols, AtOrBelow(nt, v.dev)
  PROVE  v.drive = share[1] /\ AtOrBelow(nt, v.dev \o Tail(share))
<1>1. share \in Shares /\ v \in Volumes /\ share \in Seq(Tokens) /\ share # Null
  BY PathsAssumption DEF PathsTypeOK
<1>2. PICK s \in Volumes : s.drive = share[1]
  BY <1>1, PathsAssumption
<1>3. nt \in Seq(Tokens) /\ s.dev \in Seq(Tokens) /\ v.dev \in Seq(Tokens) /\ nt # s.dev
  BY <1>1, PathsAssumption
<1> DEFINE real == RealPath(share)
<1>4. /\ real = s.dev \o Tail(share)
      /\ real \in Seq(Tokens) /\ Len(real) = Len(s.dev) + Len(share) - 1
      /\ \A i \in 1 .. Len(s.dev) : real[i] = s.dev[i]
      /\ \A i \in 2 .. Len(share) : real[Len(s.dev) + i - 1] = share[i]
  BY <1>1, <1>2, RealPathOf
<1>5. AtOrBelow(nt, real)
  BY DEF RbfIsProtected
<1> HIDE DEF real
<1>6. /\ Len(real) <= Len(nt) /\ \A i \in 1 .. Len(real) : real[i] = nt[i]
      /\ Len(nt) > Len(real) => nt[Len(real) + 1] = Sep
  BY <1>3, <1>4, <1>5, BelowTokens
<1>7. Len(share) \in Nat \ {0} /\ Len(s.dev) \in Nat /\ Len(nt) \in Nat
  BY <1>1, <1>3 DEF Null
<1>8. AtOrBelow(nt, s.dev)
  <2>1. Len(s.dev) <= Len(nt) /\ \A i \in 1 .. Len(s.dev) : s.dev[i] = nt[i]
    BY <1>4, <1>6, <1>7
  <2>2. Len(nt) > Len(s.dev) => nt[Len(s.dev) + 1] = Sep
    <3>1. CASE ~(Len(share) > 1)
      <4>1. Len(share) <= 1 /\ Len(share) >= 1
        BY <3>1, <1>7
      <4>2. Len(real) = Len(s.dev)
        BY <4>1, <1>4, <1>7
      <4> QED
        BY <4>2, <1>6
    <3>2. CASE Len(share) > 1
      <4>1. share[2] = Sep
        BY <3>2, <1>1, PathsAssumption
      <4>2. real[Len(s.dev) + 2 - 1] = share[2] /\ Len(s.dev) + 1 \in 1 .. Len(real)
        BY <3>2, <1>4, <1>7
      <4> QED
        BY <4>1, <4>2, <1>6, <1>7
    <3> QED
      BY <3>1, <3>2
  <2> QED
    BY <2>1, <2>2, <1>3, BelowTokens
<1>9. v = s
  <2>1. IsPrefix(v.dev, nt) /\ IsPrefix(s.dev, nt)
    BY <1>8 DEF AtOrBelow
  <2>2. Len(v.dev) <= Len(s.dev) \/ Len(s.dev) <= Len(v.dev)
    BY <1>3
  <2> QED
    BY <1>1, <1>8, <2>1, <2>2, OneDevice
<1> QED
  BY <1>2, <1>4, <1>5, <1>9

\* The longest match is the volume a file is on.
LEMMA BestIsRight ==
  ASSUME PathsTypeOK, NEW nt \in Files, NEW v \in vols, AtOrBelow(nt, v.dev)
  PROVE  Matches(nt) # {} /\ BestMatch(nt) = v
<1>1. vols \subseteq Volumes
  BY DEF PathsTypeOK
<1>2. v \in Matches(nt)
  BY DEF Matches, AtOrBelow
<1>3. \A w \in Matches(nt) : Len(v.dev) <= Len(w.dev) => w = v
  BY <1>1, OneDevice DEF Matches
<1>4. \A w \in Volumes : Len(w.dev) \in Nat
  <2>1. \A w \in Volumes : w.dev \in Seq(Tokens)
    BY PathsAssumption
  <2> QED
    BY <2>1
<1>5. \A w \in Matches(nt) : Len(v.dev) >= Len(w.dev)
  BY <1>1, <1>3, <1>4 DEF Matches
<1> QED
  BY <1>2, <1>3, <1>5 DEF BestMatch

\* One separator follows the device, and VolNtToDos leaves it out.
LEMMA OneSkipped ==
  ASSUME NEW rest \in Seq(Tokens), Len(rest) >= 1, rest[1] = Sep, 1 < Len(rest) => rest[2] # Sep
  PROVE  1 = CHOOSE k \in 0 .. Len(rest) :
               /\ \A i \in 1 .. k : rest[i] = Sep
               /\ k < Len(rest) => rest[k + 1] # Sep
<1> DEFINE Skips(k) == /\ \A i \in 1 .. k : rest[i] = Sep
                       /\ k < Len(rest) => rest[k + 1] # Sep
<1>1. 1 \in 0 .. Len(rest) /\ Skips(1)
  OBVIOUS
<1>2. ASSUME NEW k \in 0 .. Len(rest), Skips(k) PROVE k = 1
  <2>1. k # 0
    BY <1>2
  <2>2. ~(k >= 2)
    BY <1>2
  <2> QED
    BY <2>1, <2>2
<1> HIDE DEF Skips
<1>3. 1 = CHOOSE k \in 0 .. Len(rest) : Skips(k)
  BY <1>1, <1>2
<1> QED
  BY <1>3 DEF Skips

LEMMA DroppedTwice ==
  ASSUME NEW p \in Seq(Tokens), NEW n \in Nat, n < Len(p)
  PROVE  LET q == DropFirst(DropFirst(p, n), 1)
         IN  /\ q \in Seq(Tokens) /\ Len(q) = Len(p) - n - 1
             /\ \A i \in 1 .. Len(p) - n - 1 : q[i] = p[n + 1 + i]
<1>1. PICK rest \in Seq(Tokens) :
        /\ rest = DropFirst(p, n)
        /\ Len(rest) = Len(p) - n /\ \A i \in 1 .. Len(p) - n : rest[i] = p[n + i]
  <2>1. n \in 0 .. Len(p)
    OBVIOUS
  <2> QED
    BY <2>1, Dropped
<1>2. PICK q \in Seq(Tokens) :
        /\ q = DropFirst(rest, 1)
        /\ Len(q) = Len(p) - n - 1 /\ \A i \in 1 .. Len(p) - n - 1 : q[i] = rest[1 + i]
  <2>1. 1 \in 0 .. Len(rest) /\ Len(rest) - 1 = Len(p) - n - 1
    BY <1>1
  <2>2. /\ DropFirst(rest, 1) \in Seq(Tokens) /\ Len(DropFirst(rest, 1)) = Len(rest) - 1
        /\ \A i \in 1 .. Len(rest) - 1 : DropFirst(rest, 1)[i] = rest[1 + i]
    BY <2>1, Dropped
  <2> QED
    BY <2>1, <2>2
<1>3. ASSUME NEW i \in 1 .. Len(p) - n - 1 PROVE q[i] = p[n + 1 + i]
  <2>1. q[i] = rest[1 + i] /\ 1 + i \in 1 .. Len(p) - n /\ n + (1 + i) = n + 1 + i
    BY <1>2
  <2> QED
    BY <2>1, <1>1
<1> QED
  BY <1>1, <1>2, <1>3

LEMMA Rooted ==
  ASSUME NEW c \in Tokens, NEW q \in Seq(Tokens)
  PROVE  LET p == <<c, Sep>> \o q
         IN  /\ p \in Seq(Tokens) /\ Len(p) = Len(q) + 2
             /\ p[1] = c /\ p[2] = Sep
             /\ \A i \in 1 .. Len(q) : p[i + 2] = q[i]
<1>1. Sep \in Tokens
  BY PathsAssumption
<1> QED
  BY <1>1

\* Both forms of a path have the same tokens after the volume.
LEMMA DosForm ==
  ASSUME PathsTypeOK, NEW nt \in Files, NEW v \in vols, AtOrBelow(nt, v.dev)
  PROVE  /\ Len(nt) > Len(v.dev) /\ Len(v.dev) \in Nat
         /\ VolNtToDos(nt) \in Seq(Tokens)
         /\ Len(VolNtToDos(nt)) = Len(nt) - Len(v.dev) + 1
         /\ VolNtToDos(nt)[1] = v.drive
         /\ \A i \in 2 .. Len(nt) - Len(v.dev) + 1 : VolNtToDos(nt)[i] = nt[Len(v.dev) + i - 1]
<1>1. v \in Volumes /\ nt \in Seq(Tokens) /\ v.dev \in Seq(Tokens) /\ v.drive \in Tokens /\ nt # v.dev
  BY PathsAssumption DEF PathsTypeOK
<1> DEFINE n == Len(v.dev)
           rest == DropFirst(nt, n)
<1>2. /\ n \in Nat /\ n <= Len(nt) /\ \A i \in 1 .. n : v.dev[i] = nt[i]
      /\ Len(nt) > n => nt[n + 1] = Sep
  BY <1>1, BelowTokens
<1>3. Len(nt) > n /\ nt[n + 1] = Sep
  BY <1>1, <1>2, SameTokens
<1>4. n + 1 < Len(nt) => nt[n + 2] # Sep
  <2>1. n + 1 \in 1 .. Len(nt) /\ n + 1 + 1 = n + 2
    BY <1>1, <1>2, <1>3
  <2> QED
    BY <1>3, <2>1, PathsAssumption
<1> HIDE DEF n
<1>5. VolNtToDos(nt) = <<v.drive, Sep>> \o DropFirst(rest, 1)
  <2>1. /\ rest \in Seq(Tokens) /\ Len(rest) = Len(nt) - n
        /\ \A i \in 1 .. Len(nt) - n : rest[i] = nt[n + i]
    BY <1>1, <1>2, <1>3, Dropped
  <2>2. Len(rest) >= 1 /\ rest[1] = Sep /\ (1 < Len(rest) => rest[2] # Sep)
    BY <1>1, <1>2, <1>3, <1>4, <2>1
  <2> HIDE DEF rest
  <2>3. 1 = CHOOSE k \in 0 .. Len(rest) :
               /\ \A i \in 1 .. k : rest[i] = Sep
               /\ k < Len(rest) => rest[k + 1] # Sep
    BY <2>1, <2>2, OneSkipped
  <2> QED
    BY <2>3, BestIsRight DEF VolNtToDos, rest, n
<1>6. PICK below \in Seq(Tokens) :
        /\ below = DropFirst(rest, 1) /\ Len(below) = Len(nt) - n - 1
        /\ \A i \in 1 .. Len(nt) - n - 1 : below[i] = nt[n + 1 + i]
  BY <1>1, <1>2, <1>3, DroppedTwice
<1>7. PICK dos \in Seq(Tokens) :
        /\ dos = VolNtToDos(nt) /\ Len(dos) = Len(below) + 2
        /\ dos[1] = v.drive /\ dos[2] = Sep
        /\ \A i \in 1 .. Len(below) : dos[i + 2] = below[i]
  <2>1. VolNtToDos(nt) = <<v.drive, Sep>> \o below /\ v.drive \in Tokens
    BY <1>1, <1>5, <1>6
  <2> QED
    BY <2>1, Rooted
<1>8. ASSUME NEW i \in 2 .. Len(nt) - n + 1 PROVE dos[i] = nt[n + i - 1]
  <2>1. CASE i = 2
    BY <2>1, <1>2, <1>3, <1>7
  <2>2. CASE i > 2
    <3>1. PICK j \in 1 .. Len(nt) - n - 1 : i = j + 2
      BY <2>2, <1>1, <1>2
    <3>2. dos[j + 2] = below[j]
      BY <1>6, <1>7
    <3>3. below[j] = nt[n + 1 + j] /\ n + 1 + j = n + i - 1
      BY <3>1, <1>2, <1>6
    <3> QED
      BY <3>1, <3>2, <3>3
  <2>3. i = 2 \/ i > 2
    BY <1>1, <1>2
  <2> QED
    BY <2>1, <2>2, <2>3
<1>9. Len(dos) = Len(nt) - n + 1
  BY <1>1, <1>2, <1>6, <1>7
<1> QED
  BY <1>2, <1>3, <1>7, <1>8, <1>9 DEF n

LEMMA RealHome ==
  ASSUME PathsTypeOK, NEW nt \in Files, NEW v \in vols, AtOrBelow(nt, v.dev)
  PROVE  RealPath(VolNtToDos(nt)) = nt
<1>1. v \in Volumes /\ nt \in Seq(Tokens) /\ v.dev \in Seq(Tokens)
  BY PathsAssumption DEF PathsTypeOK
<1>2. PICK dos \in Seq(Tokens), n \in Nat :
        /\ dos = VolNtToDos(nt) /\ n = Len(v.dev) /\ Len(nt) > n
        /\ Len(dos) = Len(nt) - n + 1 /\ dos[1] = v.drive
        /\ \A i \in 2 .. Len(nt) - n + 1 : dos[i] = nt[n + i - 1]
  BY DosForm
<1>3. dos # Null
  BY <1>1, <1>2 DEF Null
<1>4. PICK real \in Seq(Tokens) :
         /\ real = RealPath(dos) /\ Len(real) = n + Len(dos) - 1
         /\ \A i \in 1 .. n : real[i] = v.dev[i]
         /\ \A i \in 2 .. Len(dos) : real[n + i - 1] = dos[i]
  <2>1. dos[1] = v.drive
    BY <1>2
  <2>2. /\ RealPath(dos) \in Seq(Tokens) /\ Len(RealPath(dos)) = Len(v.dev) + Len(dos) - 1
        /\ \A i \in 1 .. Len(v.dev) : RealPath(dos)[i] = v.dev[i]
        /\ \A i \in 2 .. Len(dos) : RealPath(dos)[Len(v.dev) + i - 1] = dos[i]
    BY <1>1, <1>3, <2>1, RealPathOf
  <2>3. PICK real \in Seq(Tokens) : real = RealPath(dos)
    BY <2>2
  <2> QED
    BY <1>2, <2>2, <2>3, Zenon
<1>5. Len(real) = Len(nt)
  BY <1>1, <1>2, <1>4
<1>6. ASSUME NEW i \in 1 .. Len(nt) PROVE real[i] = nt[i]
  <2>1. CASE i <= n
    <3>1. \A k \in 1 .. Len(v.dev) : v.dev[k] = nt[k]
      BY <1>1, BelowTokens
    <3> QED
      BY <2>1, <3>1, <1>2, <1>4
  <2>2. CASE i > n
    <3>1. /\ i - n + 1 \in 2 .. Len(nt) - n + 1 /\ i - n + 1 \in 2 .. Len(dos)
          /\ n + (i - n + 1) - 1 = i
      BY <2>2, <1>1, <1>2
    <3>2. real[n + (i - n + 1) - 1] = dos[i - n + 1] /\ dos[i - n + 1] = nt[n + (i - n + 1) - 1]
      BY <1>2, <1>4, <3>1
    <3> QED
      BY <3>1, <3>2
  <2>3. i <= n \/ i > n
    BY <1>1, <1>2
  <2> QED
    BY <2>1, <2>2, <2>3
<1> QED
  BY <1>1, <1>2, <1>4, <1>5, <1>6, SameTokens

LEMMA ShareTokens ==
  ASSUME PathsTypeOK, NEW nt \in Files, RbfIsProtected(nt),
         NEW v \in vols, AtOrBelow(nt, v.dev)
  PROVE  /\ share \in Seq(Tokens) /\ Len(share) >= 1 /\ share[1] = v.drive
         /\ Len(v.dev) + Len(share) - 1 <= Len(nt)
         /\ \A i \in 2 .. Len(share) : share[i] = nt[Len(v.dev) + i - 1]
         /\ Len(nt) > Len(v.dev) + Len(share) - 1 => nt[Len(v.dev) + Len(share)] = Sep
<1>1. v \in Volumes /\ nt \in Seq(Tokens) /\ v.dev \in Seq(Tokens)
      /\ share \in Seq(Tokens) /\ share # Null
  BY PathsAssumption DEF PathsTypeOK
<1>2. share[1] = v.drive /\ AtOrBelow(nt, v.dev \o Tail(share))
  BY OnTheShare
<1>3. PICK real \in Seq(Tokens), n \in Nat :
        /\ n = Len(v.dev) /\ real = v.dev \o Tail(share) /\ Len(real) = n + Len(share) - 1
        /\ \A i \in 2 .. Len(share) : real[n + i - 1] = share[i]
  <2>1. /\ RealPath(share) = v.dev \o Tail(share) /\ RealPath(share) \in Seq(Tokens)
        /\ Len(RealPath(share)) = Len(v.dev) + Len(share) - 1
        /\ \A i \in 2 .. Len(share) : RealPath(share)[Len(v.dev) + i - 1] = share[i]
    BY <1>1, <1>2, RealPathOf
  <2>2. Len(v.dev) \in Nat
    BY <1>1
  <2> QED
    BY <2>1, <2>2
<1>4. /\ Len(real) <= Len(nt) /\ \A i \in 1 .. Len(real) : real[i] = nt[i]
      /\ Len(nt) > Len(real) => nt[Len(real) + 1] = Sep
  BY <1>1, <1>2, <1>3, BelowTokens
<1>5. Len(share) >= 1
  BY <1>1 DEF Null
<1>6. ASSUME NEW i \in 2 .. Len(share) PROVE share[i] = nt[n + i - 1]
  <2>1. n + i - 1 \in 1 .. Len(real)
    BY <1>1, <1>3
  <2> QED
    BY <2>1, <1>3, <1>4
<1>7. Len(real) + 1 = n + Len(share)
  BY <1>1, <1>3
<1> QED
  BY <1>1, <1>2, <1>3, <1>4, <1>5, <1>6, <1>7

LEMMA HomeAllowed ==
  ASSUME PathsTypeOK, NEW nt \in Files, RbfIsProtected(nt),
         NEW v \in vols, AtOrBelow(nt, v.dev)
  PROVE  CanRestore(nt)
<1>1. v \in Volumes /\ nt \in Seq(Tokens) /\ v.drive # ".."
  BY PathsAssumption DEF PathsTypeOK
<1>2. PICK dos \in Seq(Tokens), n \in Nat :
        /\ dos = VolNtToDos(nt) /\ n = Len(v.dev) /\ Len(nt) > n
        /\ Len(dos) = Len(nt) - n + 1 /\ dos[1] = v.drive
        /\ \A i \in 2 .. Len(nt) - n + 1 : dos[i] = nt[n + i - 1]
  BY DosForm
<1>3. dos # Null
  BY <1>1, <1>2 DEF Null
<1>4. \A i \in 1 .. Len(dos) : dos[i] # ".."
  <2> SUFFICES ASSUME NEW i \in 1 .. Len(dos) PROVE dos[i] # ".."
    OBVIOUS
  <2>1. CASE i = 1
    BY <2>1, <1>1, <1>2
  <2>2. CASE i # 1
    <3>1. i \in 2 .. Len(nt) - n + 1 /\ n + i - 1 \in 1 .. Len(nt)
      BY <2>2, <1>1, <1>2
    <3>2. nt[n + i - 1] # ".."
      BY <3>1, PathsAssumption
    <3> QED
      BY <3>1, <3>2, <1>2
  <2> QED
    BY <2>1, <2>2
<1>5. ~HasDotDot(dos)
  BY <1>4 DEF HasDotDot
<1>6. PICK m \in Nat :
        /\ m = Len(share) /\ share \in Seq(Tokens) /\ m >= 1 /\ share[1] = v.drive
        /\ n + m - 1 <= Len(nt)
        /\ \A i \in 2 .. m : share[i] = nt[n + i - 1]
        /\ Len(nt) > n + m - 1 => nt[n + m] = Sep
  BY <1>2, ShareTokens
<1>7. AtOrBelow(dos, share)
  <2>1. Len(share) <= Len(dos)
    BY <1>1, <1>2, <1>6
  <2>2. ASSUME NEW i \in 1 .. Len(share) PROVE share[i] = dos[i]
    <3>1. CASE i = 1
      BY <3>1, <1>2, <1>6
    <3>2. CASE i # 1
      <4>1. i \in 2 .. m /\ i \in 2 .. Len(nt) - n + 1
        BY <3>2, <2>1, <1>1, <1>2, <1>6
      <4> QED
        BY <4>1, <1>2, <1>6
    <3> QED
      BY <3>1, <3>2
  <2>3. Len(dos) > Len(share) => dos[Len(share) + 1] = Sep
    <3> SUFFICES ASSUME Len(dos) > m PROVE dos[m + 1] = Sep
      BY <1>6
    <3>1. m + 1 \in 2 .. Len(nt) - n + 1 /\ n + (m + 1) - 1 = n + m /\ Len(nt) > n + m - 1
      <4>1. PICK len \in Nat : len = Len(nt)
        BY <1>1
      <4>2. len - n + 1 > m
        BY <4>1, <1>2
      <4> QED
        BY <4>1, <4>2, <1>6
    <3>2. dos[m + 1] = nt[n + (m + 1) - 1]
      BY <3>1, <1>2
    <3> QED
      BY <3>1, <3>2, <1>6
  <2> QED
    BY <2>1, <2>2, <2>3, <1>6, BelowTokens
<1> QED
  BY <1>2, <1>3, <1>5, <1>7 DEF CanRestore, DestOf, DestIsAllowed

-----------------------------------------------------------------------------
(* Recursive functions.  Induction over the naturals comes from their      *)
(* being well founded.                                                     *)

LEMMA Least ==
  ASSUME NEW S, S \subseteq Nat, S # {}
  PROVE  \E n \in S : \A m \in S : n <= m
<1> DEFINE R == {ss \in Nat \X Nat : ss[1] < ss[2]}
<1>1. IsWellFoundedOn(R, Nat)
  BY NatLessThanWellFounded DEF OpToRel
<1>2. \E x \in S : \A y \in S : ~ (<<y, x>> \in R)
  <2> HIDE DEF R
  <2> QED
    BY <1>1, WFMin
<1>3. \A x, y \in Nat : <<y, x>> \in R <=> y < x
  OBVIOUS
<1> HIDE DEF R
<1>4. PICK x \in S : \A y \in S : ~ (<<y, x>> \in R)
  BY <1>2
<1>5. \A y \in S : ~ (y < x)
  BY <1>3, <1>4
<1> QED
  BY <1>5

LEMMA Induction ==
  ASSUME NEW S, S \subseteq Nat, 0 \in S, \A n \in S : n + 1 \in S
  PROVE  S = Nat
<1> SUFFICES ASSUME Nat \ S # {} PROVE FALSE
  OBVIOUS
<1>1. PICK n \in Nat \ S : \A m \in Nat \ S : n <= m
  BY Least
<1>2. n - 1 \in S
  BY <1>1
<1> QED
  BY <1>1, <1>2

LEMMA CountUp ==
  ASSUME NEW len \in Nat, NEW S, 0 \in S, \A n \in 0 .. len - 1 : n \in S => n + 1 \in S
  PROVE  \A n \in 0 .. len : n \in S
<1> DEFINE T == {n \in Nat : n <= len => n \in S}
<1>1. 0 \in T /\ T \subseteq Nat
  OBVIOUS
<1>2. \A n \in T : n + 1 \in T
  OBVIOUS
<1>3. T = Nat
  <2> HIDE DEF T
  <2> QED
    BY <1>1, <1>2, Induction
<1> QED
  BY <1>3

\* What a function defined by recursion up to len does: step[n][d] is its value
\* at n after the value d.
Unrolls(f, len, base, step) ==
  f[0] = base /\ \A n \in 1 .. len : f[n] = step[n][f[n - 1]]

LEMMA Unrolled ==
  ASSUME NEW len \in Nat, NEW D, NEW base \in D, NEW step \in [1 .. len -> [D -> D]]
  PROVE  \E f \in [0 .. len -> D] : Unrolls(f, len, base, step)
<1> DEFINE Done == {m \in 0 .. len : \E f \in [0 .. m -> D] : Unrolls(f, m, base, step)}
<1>1. 0 \in Done
  <2>1. [n \in 0 .. 0 |-> base] \in [0 .. 0 -> D]
    OBVIOUS
  <2>2. Unrolls([n \in 0 .. 0 |-> base], 0, base, step)
    BY DEF Unrolls
  <2> QED
    BY <2>1, <2>2
<1>2. ASSUME NEW m \in 0 .. len - 1, m \in Done PROVE m + 1 \in Done
  <2>1. PICK f \in [0 .. m -> D] : Unrolls(f, m, base, step)
    BY <1>2
  <2> DEFINE g == [n \in 0 .. m + 1 |-> IF n = m + 1 THEN step[m + 1][f[m]] ELSE f[n]]
  <2>2. m \in Nat /\ m + 1 \in 1 .. len /\ step[m + 1][f[m]] \in D
    OBVIOUS
  <2>3. g \in [0 .. m + 1 -> D]
    BY <2>2
  <2>4. g[0] = base
    BY <2>1, <2>2 DEF Unrolls
  <2>5. ASSUME NEW n \in 1 .. m + 1 PROVE g[n] = step[n][g[n - 1]]
    <3>1. CASE n = m + 1
      BY <3>1, <2>2
    <3>2. CASE n # m + 1
      <4>1. g[n] = f[n] /\ g[n - 1] = f[n - 1] /\ n \in 1 .. m
        BY <2>2, <3>2
      <4>2. f[n] = step[n][f[n - 1]]
        BY <2>1, <4>1 DEF Unrolls
      <4> QED
        BY <4>1, <4>2
    <3> QED
      BY <3>1, <3>2
  <2> HIDE DEF g
  <2>6. Unrolls(g, m + 1, base, step)
    BY <2>4, <2>5 DEF Unrolls
  <2> QED
    BY <2>2, <2>3, <2>6
<1>3. \A m \in 0 .. len - 1 : m \in Done => m + 1 \in Done
  BY <1>2
<1>4. len \in Done
  <2> HIDE DEF Done
  <2>1. \A m \in 0 .. len : m \in Done
    BY <1>1, <1>3, CountUp, Zenon
  <2> QED
    BY <2>1
<1> QED
  BY <1>4

Follows(f, len, D, base, step) ==
  f[0] = base /\ \A n \in 1 .. len : f[n - 1] \in D => f[n] = step[n][f[n - 1]]

LEMMA UnrolledTyped ==
  ASSUME NEW len \in Nat, NEW D, NEW base \in D, NEW step \in [1 .. len -> [D -> D]],
         NEW f, Follows(f, len, D, base, step)
  PROVE  \A n \in 0 .. len : f[n] \in D
<1> DEFINE S == {n \in 0 .. len : f[n] \in D}
<1>1. 0 \in S
  BY DEF Follows
<1>2. ASSUME NEW n \in 0 .. len - 1, n \in S PROVE n + 1 \in S
  <2>1. PICK m \in 1 .. len : m = n + 1 /\ m - 1 = n
    OBVIOUS
  <2>2. f[n] \in D /\ f[m - 1] = f[n]
    BY <1>2, <2>1
  <2> HIDE DEF S
  <2>3. f[m] = step[m][f[n]]
    BY <2>2 DEF Follows
  <2>4. f[m] \in D
    BY <2>2, <2>3
  <2> QED
    BY <2>1, <2>4 DEF S
<1>3. \A n \in 0 .. len - 1 : n \in S => n + 1 \in S
  BY <1>2
<1>4. \A n \in 0 .. len : n \in S
  <2> HIDE DEF S
  <2> QED
    BY <1>1, <1>3, CountUp, Zenon
<1> QED
  BY <1>4

-----------------------------------------------------------------------------
(* LIKE and what SqlLikeEscape writes for it.                              *)

\* out[n] is what is written for the first n tokens.
Escapes(out, p, wild, len) ==
  /\ EscapeBut(p, wild) = out[len] /\ out[0] = <<>>
  /\ \A n \in 0 .. len : out[n] \in Seq(Tokens)
  /\ \A n \in 1 .. len :
       out[n] = out[n - 1] \o (IF p[n] \in wild THEN <<Sep, p[n]>> ELSE <<p[n]>>)

LEMMA EscapeSteps ==
  ASSUME NEW p \in Seq(Tokens), NEW wild, NEW len \in Nat, len = Len(p)
  PROVE  \E out : Escapes(out, p, wild, len)
<1> DEFINE Escaped(n) == IF p[n] \in wild THEN <<Sep, p[n]>> ELSE <<p[n]>>
           Body(f) == [n \in 0 .. Len(p) |-> IF n = 0 THEN <<>> ELSE f[n - 1] \o Escaped(n)]
           out == CHOOSE f : f = Body(f)
           step == [n \in 1 .. len |-> [q \in Seq(Tokens) |-> q \o Escaped(n)]]
<1>1. EscapeBut(p, wild) = out[Len(p)]
  BY Zenon DEF EscapeBut
<1>2. step \in [1 .. len -> [Seq(Tokens) -> Seq(Tokens)]]
  <2>1. Sep \in Tokens
    BY PathsAssumption
  <2>2. \A n \in 1 .. len : p[n] \in Tokens
    OBVIOUS
  <2>3. \A c \in Tokens : <<Sep, c>> \in Seq(Tokens) /\ <<c>> \in Seq(Tokens)
    BY <2>1
  <2>4. \A n \in 1 .. len : Escaped(n) \in Seq(Tokens)
    BY <2>2, <2>3
  <2> HIDE DEF Escaped
  <2>5. ASSUME NEW n \in 1 .. len, NEW q \in Seq(Tokens) PROVE q \o Escaped(n) \in Seq(Tokens)
    <3>1. PICK e \in Seq(Tokens) : e = Escaped(n)
      BY <2>4
    <3>2. q \o e \in Seq(Tokens)
      OBVIOUS
    <3> QED
      BY <3>1, <3>2
  <2> QED
    BY <2>5
<1> HIDE DEF Escaped
<1>3. \A f, n : n \in 1 .. len /\ f[n - 1] \in Seq(Tokens) => step[n][f[n - 1]] = f[n - 1] \o Escaped(n)
  OBVIOUS
<1>4. <<>> \in Seq(Tokens)
  OBVIOUS
<1> HIDE DEF step, Body, out
<1>5. PICK f \in [0 .. len -> Seq(Tokens)] : Unrolls(f, len, <<>>, step)
  BY <1>2, <1>4, Unrolled
<1>6. f = Body(f)
  <2>1. ASSUME NEW n \in 0 .. len PROVE f[n] = IF n = 0 THEN <<>> ELSE f[n - 1] \o Escaped(n)
    <3>1. CASE n = 0
      BY <3>1, <1>5 DEF Unrolls
    <3>2. CASE n # 0
      <4>1. n \in 1 .. len /\ n - 1 \in 0 .. len
        BY <3>2
      <4>1a. f[n - 1] \in Seq(Tokens)
        BY <4>1
      <4>2. f[n] = step[n][f[n - 1]]
        BY <4>1, <1>5 DEF Unrolls
      <4> QED
        BY <3>2, <4>1, <4>1a, <4>2, <1>3
    <3> QED
      BY <3>1, <3>2
  <2> QED
    BY <2>1 DEF Body
<1>7. out = Body(out)
  BY <1>6 DEF out
<1>8. out[0] = <<>>
  BY <1>7 DEF Body
<1>9. \A n \in 1 .. len : out[n] = out[n - 1] \o Escaped(n)
  <2>1. \A n \in 0 .. len : Body(out)[n] = IF n = 0 THEN <<>> ELSE out[n - 1] \o Escaped(n)
    BY DEF Body
  <2>2. \A n \in 0 .. Len(p) : out[n] = IF n = 0 THEN <<>> ELSE out[n - 1] \o Escaped(n)
    BY <1>7, <2>1, Zenon
  <2>3. \A n \in 1 .. len : n \in 0 .. Len(p) /\ n # 0
    OBVIOUS
  <2> QED
    BY <2>2, <2>3
<1>10. \A n \in 1 .. len : out[n - 1] \in Seq(Tokens) => out[n] = step[n][out[n - 1]]
  BY <1>3, <1>9
<1>11. \A n \in 0 .. len : out[n] \in Seq(Tokens)
  <2>1. PICK g, D, base, st : g = out /\ D = Seq(Tokens) /\ base = <<>> /\ st = step
    OBVIOUS
  <2>2. base \in D /\ st \in [1 .. len -> [D -> D]] /\ g[0] = base
    BY <2>1, <1>2, <1>4, <1>8
  <2>3. \A n \in 1 .. len : g[n - 1] \in D => g[n] = st[n][g[n - 1]]
    BY <2>1, <1>10
  <2>4. Follows(g, len, D, base, st)
    BY <2>2, <2>3 DEF Follows
  <2>5. \A n \in 0 .. len : g[n] \in D
    BY <2>2, <2>4, UnrolledTyped
  <2> QED
    BY <2>1, <2>5
<1>12. EscapeBut(p, wild) = out[len]
  BY <1>1
<1> QED
  BY <1>8, <1>9, <1>11, <1>12 DEF Escaped, Escapes

States(s) == [at : SUBSET (0 .. Len(s)), escape : BOOLEAN]

LEMMA LikeStepType ==
  ASSUME NEW s \in Seq(Tokens), NEW was \in States(s), NEW c
  PROVE  LikeStep(s, was, c) \in States(s)
<1>1. was.at \subseteq 0 .. Len(s)
  BY DEF States
<1>2. OneMore(s, was.at) \subseteq 0 .. Len(s) /\ Literal(s, was.at, c) \subseteq 0 .. Len(s)
  BY DEF OneMore, Literal
<1>3. {i \in 0 .. Len(s) : \E k \in was.at : k <= i} \subseteq 0 .. Len(s)
  OBVIOUS
<1> QED
  BY <1>1, <1>2, <1>3 DEF LikeStep, States

\* run[n] is what is known after n tokens of the pattern.
Runs(run, s, pat, len) ==
  /\ LikeRun(s, pat) = run[len] /\ run[0] = [at |-> {0}, escape |-> FALSE]
  /\ \A n \in 1 .. len : run[n] = LikeStep(s, run[n - 1], pat[n])

LEMMA LikeSteps ==
  ASSUME NEW s \in Seq(Tokens), NEW pat \in Seq(Tokens), NEW len \in Nat, len = Len(pat)
  PROVE  \E run : Runs(run, s, pat, len)
<1> DEFINE start == [at |-> {0}, escape |-> FALSE]
           Body(f) == [n \in 0 .. Len(pat) |-> IF n = 0 THEN start ELSE LikeStep(s, f[n - 1], pat[n])]
           run == CHOOSE f : f = Body(f)
           step == [n \in 1 .. len |-> [was \in States(s) |-> LikeStep(s, was, pat[n])]]
<1>1. LikeRun(s, pat) = run[Len(pat)]
  BY Zenon DEF LikeRun
<1>2. step \in [1 .. len -> [States(s) -> States(s)]]
  BY LikeStepType
<1>3. \A f, n : n \in 1 .. len /\ f[n - 1] \in States(s) => step[n][f[n - 1]] = LikeStep(s, f[n - 1], pat[n])
  OBVIOUS
<1>4. start \in States(s)
  BY DEF States
<1> HIDE DEF step, Body, run, start
<1>5. PICK f \in [0 .. len -> States(s)] : Unrolls(f, len, start, step)
  BY <1>2, <1>4, Unrolled
<1>6. f = Body(f)
  <2>1. ASSUME NEW n \in 0 .. len PROVE f[n] = IF n = 0 THEN start ELSE LikeStep(s, f[n - 1], pat[n])
    <3>1. CASE n = 0
      BY <3>1, <1>5 DEF Unrolls
    <3>2. CASE n # 0
      <4>1. n \in 1 .. len /\ n - 1 \in 0 .. len
        BY <3>2
      <4>2. f[n - 1] \in States(s)
        BY <4>1
      <4>3. f[n] = step[n][f[n - 1]]
        BY <4>1, <1>5 DEF Unrolls
      <4> QED
        BY <3>2, <4>1, <4>2, <4>3, <1>3
    <3> QED
      BY <3>1, <3>2
  <2> QED
    BY <2>1 DEF Body
<1>7. run = Body(run)
  BY <1>6 DEF run
<1>8. run[0] = start
  BY <1>7 DEF Body
<1>9. \A n \in 1 .. len : run[n] = LikeStep(s, run[n - 1], pat[n])
  <2>1. \A n \in 0 .. Len(pat) : Body(run)[n] = IF n = 0 THEN start ELSE LikeStep(s, run[n - 1], pat[n])
    BY DEF Body
  <2>2. \A n \in 0 .. Len(pat) : run[n] = IF n = 0 THEN start ELSE LikeStep(s, run[n - 1], pat[n])
    BY <1>7, <2>1, Zenon
  <2>3. \A n \in 1 .. len : n \in 0 .. Len(pat) /\ n # 0
    OBVIOUS
  <2> QED
    BY <2>2, <2>3
<1> QED
  BY <1>1, <1>8, <1>9 DEF start, Runs

\* r begins with q.
Begins(q, r) == Len(q) <= Len(r) /\ \A i \in 1 .. Len(q) : q[i] = r[i]

LEMMA Extended ==
  ASSUME NEW q \in Seq(Tokens), NEW r \in Seq(Tokens)
  PROVE  q \o r \in Seq(Tokens) /\ Len(q \o r) = Len(q) + Len(r) /\ Begins(q, q \o r)
  BY DEF Begins

LEMMA BeginsTransitive ==
  ASSUME NEW q \in Seq(Tokens), NEW r \in Seq(Tokens), NEW t \in Seq(Tokens), Begins(q, r), Begins(r, t)
  PROVE  Begins(q, t)
<1>1. PICK a \in Nat, b \in Nat, c \in Nat : a = Len(q) /\ b = Len(r) /\ c = Len(t)
  OBVIOUS
<1>2. a <= b /\ b <= c /\ (\A i \in 1 .. a : q[i] = r[i]) /\ (\A i \in 1 .. b : r[i] = t[i])
  BY <1>1 DEF Begins
<1>3. a <= c /\ \A i \in 1 .. a : q[i] = t[i]
  BY <1>2
<1> QED
  BY <1>1, <1>3 DEF Begins

LEMMA EscapeWritten ==
  ASSUME NEW p \in Seq(Tokens), NEW wild, NEW len \in Nat, len = Len(p)
  PROVE  \E out : Escapes(out, p, wild, len) /\ \A k \in 0 .. len : Begins(out[k], out[len])
<1>0. PICK out : Escapes(out, p, wild, len)
  BY EscapeSteps
<1>1. /\ EscapeBut(p, wild) = out[len] /\ out[0] = <<>>
      /\ \A n \in 0 .. len : out[n] \in Seq(Tokens)
      /\ \A n \in 1 .. len :
           out[n] = out[n - 1] \o (IF p[n] \in wild THEN <<Sep, p[n]>> ELSE <<p[n]>>)
  BY <1>0 DEF Escapes
<1>2. ASSUME NEW k \in 1 .. len
      PROVE  Begins(out[k - 1], out[k])
  <2>1. PICK q \in Seq(Tokens) : q = out[k - 1]
    BY <1>1
  <2>2. PICK c \in Tokens : c = p[k]
    OBVIOUS
  <2>2a. Sep \in Tokens
    BY PathsAssumption
  <2>2b. <<Sep, c>> \in Seq(Tokens) /\ <<c>> \in Seq(Tokens)
    BY <2>2a
  <2>3. PICK r \in Seq(Tokens) : r = IF p[k] \in wild THEN <<Sep, p[k]>> ELSE <<p[k]>>
    BY <2>2, <2>2b
  <2>4. out[k] = q \o r
    BY <1>1, <2>1, <2>3
  <2> QED
    BY <2>1, <2>4, Extended
<1> DEFINE S == {k \in 0 .. len : \A j \in 0 .. k : Begins(out[j], out[k])}
<1>3. 0 \in S
  BY <1>1 DEF Begins
<1>4. ASSUME NEW k \in 0 .. len - 1, k \in S PROVE k + 1 \in S
  <2>1. PICK m \in 1 .. len : m = k + 1 /\ m - 1 = k
    OBVIOUS
  <2>2. \A j \in 0 .. k : Begins(out[j], out[k])
    BY <1>4
  <2> HIDE DEF S
  <2>3. ASSUME NEW j \in 0 .. m PROVE Begins(out[j], out[m])
    <3>1. CASE j = m
      BY <3>1, <1>1 DEF Begins
    <3>2. CASE j # m
      <4>1. j \in 0 .. k /\ out[j] \in Seq(Tokens) /\ out[k] \in Seq(Tokens) /\ out[m] \in Seq(Tokens)
        BY <3>2, <2>1, <1>1
      <4>2. Begins(out[j], out[k]) /\ Begins(out[k], out[m])
        BY <2>1, <2>2, <4>1, <1>2
      <4> QED
        BY <4>1, <4>2, BeginsTransitive
    <3> QED
      BY <3>1, <3>2
  <2> QED
    BY <2>1, <2>3 DEF S
<1>5. \A k \in 0 .. len - 1 : k \in S => k + 1 \in S
  BY <1>4
<1>6. \A k \in 0 .. len : k \in S
  <2> HIDE DEF S
  <2> QED
    BY <1>3, <1>5, CountUp, Zenon
<1>7. \A k \in 0 .. len : Begins(out[k], out[len])
  BY <1>6
<1> QED
  BY <1>0, <1>7

\* The lengths of s matched by the first k tokens of p, taken literally.
Got(s, p, k) == {n \in {k} : k <= Len(s) /\ \A i \in 1 .. k : s[i] = p[i]}
Known(s, p, k) == [at |-> Got(s, p, k), escape |-> FALSE]

LEMMA GotMore ==
  ASSUME NEW s \in Seq(Tokens), NEW p \in Seq(Tokens), NEW k \in Nat
  PROVE  Literal(s, Got(s, p, k), p[k + 1]) = Got(s, p, k + 1)
<1>1. PICK len \in Nat : len = Len(s)
  OBVIOUS
<1>2. ASSUME NEW n
      PROVE  n \in Literal(s, Got(s, p, k), p[k + 1]) <=> n \in 1 .. len /\ n - 1 \in Got(s, p, k) /\ s[n] = p[k + 1]
  BY <1>1 DEF Literal, OneMore
<1>3. ASSUME NEW n \in 1 .. len
      PROVE  n - 1 \in Got(s, p, k) <=> n = k + 1 /\ k <= len /\ \A i \in 1 .. k : s[i] = p[i]
  BY <1>1 DEF Got
<1>4. ASSUME NEW n
      PROVE  n \in Got(s, p, k + 1) <=> n = k + 1 /\ k + 1 <= len /\ \A i \in 1 .. k + 1 : s[i] = p[i]
  BY <1>1 DEF Got
<1>5. (\A i \in 1 .. k + 1 : s[i] = p[i]) <=> (\A i \in 1 .. k : s[i] = p[i]) /\ s[k + 1] = p[k + 1]
  <2>1. \A i \in 1 .. k + 1 : i \in 1 .. k \/ i = k + 1
    OBVIOUS
  <2>2. k + 1 \in 1 .. k + 1 /\ \A i \in 1 .. k : i \in 1 .. k + 1
    OBVIOUS
  <2> QED
    BY <2>1, <2>2, Zenon
<1>6. k + 1 <= len <=> k + 1 \in 1 .. len
  OBVIOUS
<1>7. k + 1 <= len => k <= len
  OBVIOUS
<1> QED
  BY <1>2, <1>3, <1>4, <1>5, <1>6, <1>7

Wild == {"%", "_", Sep}

LEMMA LiteralStep ==
  ASSUME NEW s \in Seq(Tokens), NEW p \in Seq(Tokens), NEW k \in Nat, p[k + 1] \notin Wild
  PROVE  LikeStep(s, Known(s, p, k), p[k + 1]) = Known(s, p, k + 1)
  BY GotMore DEF LikeStep, Known, Wild

LEMMA EscapedStep ==
  ASSUME NEW s \in Seq(Tokens), NEW p \in Seq(Tokens), NEW k \in Nat
  PROVE  LikeStep(s, LikeStep(s, Known(s, p, k), Sep), p[k + 1]) = Known(s, p, k + 1)
<1>1. LikeStep(s, Known(s, p, k), Sep) = [at |-> Got(s, p, k), escape |-> TRUE]
  BY DEF LikeStep, Known, Sep
<1>2. LikeStep(s, [at |-> Got(s, p, k), escape |-> TRUE], p[k + 1]) = Known(s, p, k + 1)
  BY GotMore DEF LikeStep, Known
<1> QED
  BY <1>1, <1>2

LEMMA EndOne ==
  ASSUME NEW q \in Seq(Tokens), NEW c \in Tokens, NEW pat \in Seq(Tokens), Begins(q \o <<c>>, pat)
  PROVE  Len(q \o <<c>>) = Len(q) + 1 /\ Len(q) + 1 <= Len(pat) /\ pat[Len(q) + 1] = c
<1>1. Len(q \o <<c>>) = Len(q) + 1
  OBVIOUS
<1>2. (q \o <<c>>)[Len(q) + 1] = c
  OBVIOUS
<1>3. Len(q) + 1 \in 1 .. Len(q \o <<c>>)
  BY <1>1
<1> QED
  BY <1>1, <1>2, <1>3 DEF Begins

LEMMA EndTwo ==
  ASSUME NEW q \in Seq(Tokens), NEW b \in Tokens, NEW c \in Tokens, NEW pat \in Seq(Tokens),
         Begins(q \o <<b, c>>, pat)
  PROVE  /\ Len(q \o <<b, c>>) = Len(q) + 2 /\ Len(q) + 2 <= Len(pat)
         /\ pat[Len(q) + 1] = b /\ pat[Len(q) + 2] = c
<1>1. Len(q \o <<b, c>>) = Len(q) + 2
  OBVIOUS
<1>2. (q \o <<b, c>>)[Len(q) + 1] = b
  OBVIOUS
<1>3. (q \o <<b, c>>)[Len(q) + 2] = c
  OBVIOUS
<1>4. Len(q) + 1 \in 1 .. Len(q \o <<b, c>>) /\ Len(q) + 2 \in 1 .. Len(q \o <<b, c>>)
  BY <1>1
<1> QED
  BY <1>1, <1>2, <1>3, <1>4 DEF Begins

\* The pattern beyond the first k - 1 tokens, which took it to position a.
LEMMA PatternStep ==
  ASSUME NEW p \in Seq(Tokens), NEW len \in Nat, len = Len(p), NEW out, Escapes(out, p, Wild, len),
         NEW pat \in Seq(Tokens), NEW k \in 1 .. len, Begins(out[k], pat), NEW a \in Nat, a = Len(out[k - 1])
  PROVE  /\ p[k] \in Wild => /\ Len(out[k]) = a + 2 /\ a + 2 <= Len(pat)
                             /\ pat[a + 1] = Sep /\ pat[a + 2] = p[k]
         /\ p[k] \notin Wild => Len(out[k]) = a + 1 /\ a + 1 <= Len(pat) /\ pat[a + 1] = p[k]
<1>1. PICK c \in Tokens : c = p[k]
  OBVIOUS
<1>2. Sep \in Tokens
  BY PathsAssumption
<1>3. k - 1 \in 0 .. len
  OBVIOUS
<1>4. PICK q \in Seq(Tokens) : q = out[k - 1] /\ a = Len(q)
  BY <1>3 DEF Escapes
<1>5. out[k] = q \o (IF p[k] \in Wild THEN <<Sep, p[k]>> ELSE <<p[k]>>)
  BY <1>4, Zenon DEF Escapes
<1>6. CASE p[k] \in Wild
  <2>1. out[k] = q \o <<Sep, c>>
    BY <1>1, <1>5, <1>6
  <2>2. Begins(q \o <<Sep, c>>, pat)
    BY <2>1
  <2>3. /\ Len(q \o <<Sep, c>>) = Len(q) + 2 /\ Len(q) + 2 <= Len(pat)
        /\ pat[Len(q) + 1] = Sep /\ pat[Len(q) + 2] = c
    BY <2>2, <1>2, EndTwo
  <2> QED
    BY <2>1, <2>3, <1>1, <1>4, <1>6
<1>7. CASE p[k] \notin Wild
  <2>1. out[k] = q \o <<c>>
    BY <1>1, <1>5, <1>7
  <2>2. Begins(q \o <<c>>, pat)
    BY <2>1
  <2>3. Len(q \o <<c>>) = Len(q) + 1 /\ Len(q) + 1 <= Len(pat) /\ pat[Len(q) + 1] = c
    BY <2>2, EndOne
  <2> QED
    BY <2>1, <2>3, <1>1, <1>4, <1>7
<1> QED
  BY <1>6, <1>7

LEMMA KnownSteps ==
  ASSUME NEW s \in Seq(Tokens), NEW p \in Seq(Tokens), NEW len \in Nat, len = Len(p),
         NEW out, Escapes(out, p, Wild, len),
         NEW pat \in Seq(Tokens), \A k \in 0 .. len : Begins(out[k], pat),
         NEW run, Runs(run, s, pat, Len(pat))
  PROVE  run[Len(out[len])] = Known(s, p, len)
<1> DEFINE S == {k \in 0 .. len : run[Len(out[k])] = Known(s, p, k)}
<1>1. 0 \in S
  <2>1. run[0] = [at |-> {0}, escape |-> FALSE]
    BY DEF Runs
  <2>2. Got(s, p, 0) = {0}
    <3>1. 0 <= Len(s) /\ 1 .. 0 = {}
      OBVIOUS
    <3> QED
      BY <3>1 DEF Got
  <2>3. out[0] = <<>>
    BY DEF Escapes
  <2>4. Len(out[0]) = 0
    BY <2>3
  <2> QED
    <3>1. run[Len(out[0])] = Known(s, p, 0)
      BY <2>1, <2>2, <2>4 DEF Known
    <3> QED
      BY <3>1
<1>2. ASSUME NEW k \in 0 .. len - 1, k \in S PROVE k + 1 \in S
  <2>1. PICK j \in 1 .. len : j = k + 1 /\ j - 1 = k
    OBVIOUS
  <2>2. PICK a \in Nat : a = Len(out[k]) /\ a = Len(out[j - 1])
    BY <2>1 DEF Escapes
  <2>3. run[Len(out[k])] = Known(s, p, k) /\ k \in Nat
    BY <1>2
  <2>3a. run[a] = Known(s, p, k)
    BY <2>2, <2>3, Zenon
  <2> HIDE DEF S
  <2>4. \A n \in 1 .. Len(pat) : run[n] = LikeStep(s, run[n - 1], pat[n])
    BY DEF Runs
  <2>5. Begins(out[j], pat)
    BY <2>1
  <2>6. CASE p[j] \in Wild
    <3>1. Len(out[j]) = a + 2 /\ a + 2 <= Len(pat) /\ pat[a + 1] = Sep /\ pat[a + 2] = p[j]
      BY <2>2, <2>5, <2>6, PatternStep
    <3>2. run[a + 1] = LikeStep(s, run[a], Sep)
      BY <2>4, <3>1
    <3>3. run[a + 2] = LikeStep(s, run[a + 1], p[j])
      BY <2>4, <3>1
    <3>4. LikeStep(s, LikeStep(s, Known(s, p, k), Sep), p[k + 1]) = Known(s, p, k + 1)
      BY <2>3, EscapedStep
    <3> QED
      BY <3>1, <3>2, <3>3, <3>4, <2>1, <2>3a DEF S
  <2>7. CASE p[j] \notin Wild
    <3>1. Len(out[j]) = a + 1 /\ a + 1 <= Len(pat) /\ pat[a + 1] = p[j]
      BY <2>2, <2>5, <2>7, PatternStep
    <3>2. run[a + 1] = LikeStep(s, run[a], p[j])
      BY <2>4, <3>1
    <3>3. p[k + 1] \notin Wild
      BY <2>1, <2>7
    <3>4. LikeStep(s, Known(s, p, k), p[k + 1]) = Known(s, p, k + 1)
      BY <2>3, <3>3, LiteralStep
    <3> QED
      BY <3>1, <3>2, <3>3, <3>4, <2>1, <2>3a DEF S
  <2> QED
    BY <2>6, <2>7
<1>3. \A k \in 0 .. len - 1 : k \in S => k + 1 \in S
  BY <1>2
<1>4. \A k \in 0 .. len : k \in S
  <2> HIDE DEF S
  <2> QED
    BY <1>1, <1>3, CountUp, Zenon
<1> QED
  BY <1>4

\* What SqlLikeEscape makes of a prefix, with a "%" after it, matches exactly what
\* starts with the prefix, whatever wildcards that has in it.
LEMMA EscapedMatches ==
  ASSUME NEW s \in Seq(Tokens), NEW p \in Seq(Tokens)
  PROVE  Like(s, SqlLikeEscape(p) \o <<"%">>) <=> IsPrefix(p, s)
<1>1. PICK len \in Nat : len = Len(p)
  OBVIOUS
<1>2. PICK out : Escapes(out, p, Wild, len) /\ \A k \in 0 .. len : Begins(out[k], out[len])
  BY <1>1, EscapeWritten
<1>3. \A k \in 0 .. len : out[k] \in Seq(Tokens)
  BY <1>2 DEF Escapes
<1>4. PICK e \in Seq(Tokens), m \in Nat : e = out[len] /\ m = Len(e)
  BY <1>3
<1>5. e = SqlLikeEscape(p)
  BY <1>2, <1>4 DEF Escapes, SqlLikeEscape, Wild
<1>6. PICK pat \in Seq(Tokens) : pat = e \o <<"%">> /\ Len(pat) = m + 1 /\ pat[m + 1] = "%" /\ Begins(e, pat)
  <2>1. "%" \in Tokens
    BY PathsAssumption
  <2>2. <<"%">> \in Seq(Tokens) /\ Len(<<"%">>) = 1
    BY <2>1
  <2>3. (e \o <<"%">>)[m + 1] = "%"
    BY <2>2, <1>4
  <2> QED
    BY <2>2, <2>3, <1>4, Extended
<1>7. \A k \in 0 .. len : Begins(out[k], pat)
  BY <1>2, <1>3, <1>4, <1>6, BeginsTransitive
<1>8. PICK run : Runs(run, s, pat, Len(pat))
  <2>1. Len(pat) \in Nat
    OBVIOUS
  <2> QED
    BY <2>1, LikeSteps
<1>9. run[m] = Known(s, p, len)
  BY <1>1, <1>2, <1>4, <1>7, <1>8, KnownSteps
<1>10. LikeRun(s, pat) = LikeStep(s, run[m], "%")
  <2>1. LikeRun(s, pat) = run[m + 1] /\ \A n \in 1 .. m + 1 : run[n] = LikeStep(s, run[n - 1], pat[n])
    BY <1>6, <1>8 DEF Runs
  <2>2. m + 1 \in 1 .. m + 1 /\ m + 1 - 1 = m
    OBVIOUS
  <2> QED
    BY <2>1, <2>2, <1>6
<1>11. LikeStep(s, run[m], "%") =
         [at |-> {i \in 0 .. Len(s) : \E k \in Got(s, p, len) : k <= i}, escape |-> FALSE]
  BY <1>9 DEF LikeStep, Known, Sep
<1>12. Like(s, pat) <=> \E k \in Got(s, p, len) : k <= Len(s)
  <2> DEFINE ends == {i \in 0 .. Len(s) : \E k \in Got(s, p, len) : k <= i}
  <2>1. LikeRun(s, pat).at = ends /\ LikeRun(s, pat).escape = FALSE
    BY <1>10, <1>11
  <2>2. Len(s) \in ends <=> \E k \in Got(s, p, len) : k <= Len(s)
    <3>1. Len(s) \in 0 .. Len(s)
      OBVIOUS
    <3> QED
      BY <3>1
  <2> HIDE DEF ends
  <2> QED
    BY <2>1, <2>2 DEF Like
<1>13. Like(s, pat) <=> len <= Len(s) /\ \A i \in 1 .. len : s[i] = p[i]
  BY <1>12 DEF Got
<1>14. IsPrefix(p, s) <=> len <= Len(s) /\ \A i \in 1 .. len : p[i] = s[i]
  BY <1>1, PrefixTokens
<1> QED
  BY <1>5, <1>6, <1>13, <1>14

-----------------------------------------------------------------------------
(* Theorems.                                                               *)

LEMMA PathInvInit == PathsInit => PathInv
  BY DEF PathsInit, PathInv, PathsTypeOK, NoTree

LEMMA PathInvStep == PathInv /\ [PathsNext]_pathVars => PathInv'
<1> SUFFICES ASSUME PathInv, [PathsNext]_pathVars PROVE PathInv'
  OBVIOUS
<1> USE DEF PathInv, PathsTypeOK, RbfIsProtected
<1>1. ASSUME NEW nt \in Files, DeleteFile(nt) PROVE PathInv'
  BY <1>1 DEF DeleteFile
<1>2. ASSUME NEW nt \in Files, RestoreItemById(nt) PROVE PathInv'
  BY <1>2 DEF RestoreItemById
<1>3. ASSUME NEW dos \in Trees, RestoreTreeByPrefix(dos) PROVE PathInv'
  BY <1>3 DEF RestoreTreeByPrefix
<1>4. CASE UNCHANGED pathVars
  BY <1>4 DEF pathVars
<1> QED
  BY <1>1, <1>2, <1>3, <1>4 DEF PathsNext

LEMMA PathInvAlways == PathsSpec => []PathInv
  BY PathInvInit, PathInvStep, PTL DEF PathsSpec

\* Rows and requests keep their kinds.
THEOREM PathsTypes == PathsSpec => []PathsTypeOK
  BY PathInvAlways, PTL DEF PathInv

\* What the driver takes the service can give back: the path of a deleted file,
\* turned into its DOS form, passes the test of destinations and names the very
\* file, also when one device name begins another.
THEOREM ProtectedRestoresHome == PathsSpec => []RestoresHome
<1>1. PathInv => RestoresHome
  <2> SUFFICES ASSUME PathInv, NEW nt \in rows, NEW v \in vols, AtOrBelow(nt, v.dev)
               PROVE  CanRestore(nt) /\ RealPath(DestOf(nt)) = nt
    BY DEF RestoresHome
  <2>1. PathsTypeOK /\ nt \in Files /\ RbfIsProtected(nt)
    BY DEF PathInv, PathsTypeOK
  <2> QED
    BY <2>1, HomeAllowed, RealHome DEF DestOf
<1> QED
  BY <1>1, PathInvAlways, PTL

LEMMA TreeStep ==
  ASSUME PathsTypeOK, NEW dos \in Trees, RestoreTreeByPrefix(dos)
  PROVE  TreeMatchesLiterally'
<1>0. PICK prefix : prefix = VolDosToNt(dos)
  OBVIOUS
<1>1. PICK listed \in SUBSET rows :
        /\ DbListByOrigPathPrefix(prefix, listed)
        /\ tree' = [prefix |-> prefix, listed |-> listed, live |-> rows]
  BY <1>0 DEF RestoreTreeByPrefix
<1>2. prefix \in Seq(Tokens)
  <2>1. PICK v \in vols : prefix = v.dev \o Tail(dos)
    <3>1. prefix # Null
      BY <1>0 DEF RestoreTreeByPrefix
    <3> QED
      BY <1>0, <3>1 DEF VolDosToNt
  <2>2. v.dev \in Seq(Tokens) /\ dos \in Seq(Tokens) /\ dos # <<>>
    BY PathsAssumption DEF PathsTypeOK, Null
  <2> QED
    BY <2>1, <2>2
<1>3. \A nt \in rows : nt \in PrefixMatches(prefix) <=> IsPrefix(prefix, nt)
  <2>1. rows \subseteq Seq(Tokens)
    BY PathsAssumption DEF PathsTypeOK
  <2> QED
    BY <2>1, <1>2, EscapedMatches DEF PrefixMatches
<1>4. Cardinality(listed) < RBSVC_MAX_TREE_RESTORE => listed = PrefixMatches(prefix)
  <2>1. PICK c, max : c = Cardinality(listed) /\ max \in Nat /\ max = RBSVC_MAX_TREE_RESTORE
    BY PathsAssumption
  <2>2. listed = PrefixMatches(prefix) \/ c = max
    BY <1>1, <2>1 DEF DbListByOrigPathPrefix
  <2> QED
    BY <2>1, <2>2
<1>5. PrefixMatches(prefix) = {nt \in rows : IsPrefix(prefix, nt)}
  BY <1>3 DEF PrefixMatches
<1>6. listed \subseteq PrefixMatches(prefix)
  BY <1>1 DEF DbListByOrigPathPrefix
<1> QED
  BY <1>1, <1>4, <1>5, <1>6 DEF TreeMatchesLiterally

\* A tree request lists the rows whose path starts with the directory's, all of
\* them below its limit, and takes every character of that path as itself.
THEOREM TreesTaken == PathsSpec => []TreeMatchesLiterally
<1>1. PathsInit => TreeMatchesLiterally
  BY DEF PathsInit, NoTree, TreeMatchesLiterally
<1>2. PathInv /\ TreeMatchesLiterally /\ [PathsNext]_pathVars => TreeMatchesLiterally'
  <2> SUFFICES ASSUME PathsTypeOK, TreeMatchesLiterally, [PathsNext]_pathVars PROVE TreeMatchesLiterally'
    BY DEF PathInv
  <2>1. CASE UNCHANGED tree
    BY <2>1 DEF TreeMatchesLiterally
  <2> QED
    BY <2>1, TreeStep DEF PathsNext, DeleteFile, RestoreItemById, pathVars
<1> QED
  BY <1>1, <1>2, PathInvAlways, PTL DEF PathsSpec
=============================================================================
