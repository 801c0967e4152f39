------------------------------ MODULE StoreProofs ------------------------------
(***************************************************************************)
(* What the two stores of this code hold, for any number of saves, crashes *)
(* and restarts.  The Android app's, of AndroidApp: what the saved         *)
(* transcript and the groups may hold, what a wipe leaves, and how far the *)
(* app's two readings of the device agree.  The desktop's state.enc, of    *)
(* Profile: what an unlock reports of older copies and of changed clocks,  *)
(* binaries and settings, and that no message key seals twice.  The two    *)
(* share no variable; ProfileInv is the inductive invariant of the second. *)
(***************************************************************************)
EXTENDS AndroidApp, Profile, SequenceTheorems, WellFoundedInduction, TLAPS

-----------------------------------------------------------------------------
(* Transcripts *)

Rising(lines) == \A i, j \in DOMAIN lines : i < j => lines[i].id < lines[j].id
Below(lines, n) == \A i \in DOMAIN lines : lines[i].id < n

(* A line, and its text, of this epoch; a line, and its text, that is not  *)
(* of the decoy screen.  When an answer may have crossed (loose), nothing  *)
(* is known of the text.                                                   *)
Of(line, epoch, loose) == line.epoch = epoch /\ (loose \/ line.text.epoch = epoch)
Outside(line, loose) == ~line.onDecoy /\ (loose \/ ~line.text.onDecoy)
NoDecoyLine(lines, loose) == \A i \in DOMAIN lines : Outside(lines[i], loose)

(* A transcript written since the last wipe, its ids rising.                *)
Sound(lines, epoch, loose) ==
    /\ lines \in Seq(LineRecord) /\ Len(lines) <= MAX_MESSAGES
    /\ Rising(lines)
    /\ \A i \in DOMAIN lines : Of(lines[i], epoch, loose)

BookSound(b, epoch, loose) ==
    /\ b = [entries |-> b.entries, held |-> b.held, next |-> b.next,
            ephemeral |-> b.ephemeral]
    /\ b.next \in Nat \ {0} /\ b.ephemeral \in BOOLEAN
    /\ Sound(b.entries, epoch, loose) /\ Below(b.entries, b.next)
    /\ b.held # Null => Sound(b.held, epoch, loose) /\ Below(b.held, b.next)

FileSound(file, epoch, loose) == file \notin {Null, Torn} => Sound(file, epoch, loose)

(* The transcript parked behind the decoy screen is there exactly while the *)
(* screen is up, and only the lines on that screen are its own.             *)
Apart(b, onDecoy, loose) ==
    /\ onDecoy <=> b.held # Null
    /\ b.held # Null => NoDecoyLine(b.held, loose)
    /\ ~onDecoy => NoDecoyLine(b.entries, loose)

FileApart(file, loose) == file \notin {Null, Torn} => NoDecoyLine(file, loose)

(* All of this says less when it is said loosely.                          *)
LEMMA SaidLoosely ==
    ASSUME NEW loose \in BOOLEAN, NEW looser \in BOOLEAN, loose => looser, NEW epoch
    PROVE  /\ \A b : BookSound(b, epoch, loose) => BookSound(b, epoch, looser)
           /\ \A b, onDecoy : Apart(b, onDecoy, loose) => Apart(b, onDecoy, looser)
           /\ \A file : FileSound(file, epoch, loose) => FileSound(file, epoch, looser)
           /\ \A file : FileApart(file, loose) => FileApart(file, looser)
<1>1. \A line : Of(line, epoch, loose) => Of(line, epoch, looser)
  BY DEF Of
<1>2. \A line : Outside(line, loose) => Outside(line, looser)
  BY DEF Outside
<1>3. \A lines : Sound(lines, epoch, loose) => Sound(lines, epoch, looser)
  BY <1>1, Zenon DEF Sound
<1>4. \A lines : NoDecoyLine(lines, loose) => NoDecoyLine(lines, looser)
  BY <1>2, Zenon DEF NoDecoyLine
<1> QED
  BY <1>3, <1>4, Zenon DEF BookSound, Apart, FileSound, FileApart

-----------------------------------------------------------------------------
(* Numbers *)

(* A set that holds 0, and with a number the next one, holds every number. *)
LEMMA Counting ==
    ASSUME NEW S, 0 \in S, \A n \in Nat : n \in S => n + 1 \in S
    PROVE  Nat \subseteq S
<1> SUFFICES ASSUME Nat \ S # {} PROVE FALSE
  OBVIOUS
<1>1. IsWellFoundedOn(OpToRel(<, Nat), Nat)
  BY NatLessThanWellFounded
<1>2. \A x, y \in Nat : <<y, x>> \in OpToRel(<, Nat) <=> y < x
  BY DEF OpToRel
<1>3. PICK x \in Nat \ S : \A y \in Nat \ S : ~(<<y, x>> \in OpToRel(<, Nat))
  BY <1>1, WFMin
<1>4. \A y \in Nat \ S : ~(y < x)
  BY <1>2, <1>3, Zenon
<1>5. x \in Nat /\ x # 0 /\ x \notin S
  BY Zenon
<1>6. x - 1 \in S
  <2>1. x - 1 \in Nat /\ x - 1 < x
    BY <1>5
  <2> QED
    BY <1>4, <2>1, Zenon
<1>7. (x - 1) + 1 = x /\ x - 1 \in Nat
  BY <1>5
<1> QED
  BY <1>5, <1>6, <1>7, Zenon

-----------------------------------------------------------------------------
(* purge_expired *)

Stays(line) == line.exp = Never \/ now < line.exp

(* What purging keeps of the first n lines, for every n.                   *)
Follows(kept, lines, n) ==
    /\ kept[0] = <<>>
    /\ \A m \in 1 .. n :
           kept[m] = IF Stays(lines[m]) THEN Append(kept[m - 1], lines[m]) ELSE kept[m - 1]

Partly(lines, n) ==
    \E kept \in [0 .. n -> Seq(LineRecord)] : Follows(kept, lines, n)

(* some is some of the first n lines, in their order.                      *)
Rises(h, n) == \A i, j \in 1 .. n : i < j => h[i] < h[j]
PicksBy(h, some, lines, n) ==
    /\ h \in [1 .. Len(some) -> 1 .. n] /\ Rises(h, Len(some))
    /\ \A i \in 1 .. Len(some) : some[i] = lines[h[i]]
Picks(some, lines, n) ==
    /\ some \in Seq(LineRecord) /\ Len(some) <= n
    /\ \E h : PicksBy(h, some, lines, n)

(* One more line can always be judged. *)
LEMMA PartlyNext ==
    ASSUME NEW lines \in Seq(LineRecord), NEW n \in Nat, n + 1 <= Len(lines),
           Partly(lines, n)
    PROVE  Partly(lines, n + 1)
<1>1. PICK f \in [0 .. n -> Seq(LineRecord)] : Follows(f, lines, n)
  BY DEF Partly
<1> DEFINE tail == IF Stays(lines[n + 1]) THEN Append(f[n], lines[n + 1]) ELSE f[n]
           g == [m \in 0 .. n + 1 |-> IF m <= n THEN f[m] ELSE tail]
<1>2. lines[n + 1] \in LineRecord /\ f[n] \in Seq(LineRecord)
  BY LenProperties
<1>3. tail \in Seq(LineRecord)
  BY <1>2, AppendProperties
<1>4. g \in [0 .. n + 1 -> Seq(LineRecord)]
  BY <1>3
<1>5. Follows(g, lines, n + 1)
  <2>1. g[0] = <<>>
    BY <1>1 DEF Follows
  <2>2. ASSUME NEW m \in 1 .. n + 1
        PROVE  g[m] = IF Stays(lines[m]) THEN Append(g[m - 1], lines[m]) ELSE g[m - 1]
    <3>1. CASE m <= n
      <4>1. m \in 1 .. n /\ m \in 0 .. n + 1 /\ m - 1 \in 0 .. n + 1 /\ m - 1 <= n
        BY <3>1
      <4>2. g[m] = f[m] /\ g[m - 1] = f[m - 1]
        BY <3>1, <4>1
      <4>3. f[m] = IF Stays(lines[m]) THEN Append(f[m - 1], lines[m]) ELSE f[m - 1]
        BY <1>1, <4>1 DEF Follows
      <4> HIDE DEF g
      <4> QED
        BY <4>2, <4>3
    <3>2. CASE m = n + 1
      <4>1. g[m] = tail /\ g[m - 1] = f[n]
        BY <3>2
      <4> HIDE DEF g
      <4> QED
        BY <3>2, <4>1
    <3> QED
      BY <3>1, <3>2
  <2> HIDE DEF g
  <2> QED
    BY <2>1, <2>2 DEF Follows
<1> HIDE DEF g
<1> QED
  BY <1>4, <1>5 DEF Partly

(* Purging is well defined. *)
LEMMA UnexpiredFollows ==
    ASSUME NEW lines \in Seq(LineRecord)
    PROVE  \E kept : Follows(kept, lines, Len(lines)) /\ Unexpired(lines) = kept[Len(lines)]
<1> DEFINE L == Len(lines)
           All == {n \in Nat : n <= L => Partly(lines, n)}
           step(f) == [n \in 0 .. L |->
                           IF n = 0 THEN <<>>
                           ELSE IF lines[n].exp = Never \/ now < lines[n].exp
                                THEN Append(f[n - 1], lines[n]) ELSE f[n - 1]]
           kept == CHOOSE f : f = step(f)
<1>1. L \in Nat
  BY LenProperties
<1>2. 0 \in All
  <2>1. [n \in 0 .. 0 |-> <<>>] \in [0 .. 0 -> Seq(LineRecord)]
    BY EmptySeq
  <2>2. Follows([n \in 0 .. 0 |-> <<>>], lines, 0)
    BY DEF Follows
  <2> QED
    BY <2>1, <2>2 DEF Partly
<1>3. \A n \in Nat : n \in All => n + 1 \in All
  BY <1>1, PartlyNext
<1>4. L \in All
  <2> HIDE DEF All
  <2> QED
    BY <1>1, <1>2, <1>3, Counting
<1>5. PICK f \in [0 .. L -> Seq(LineRecord)] : Follows(f, lines, L)
  BY <1>1, <1>4 DEF Partly
<1>6. f = step(f)
  <2>1. ASSUME NEW n \in 0 .. L PROVE f[n] = step(f)[n]
    <3>1. step(f)[n] = IF n = 0 THEN <<>>
                       ELSE IF lines[n].exp = Never \/ now < lines[n].exp
                            THEN Append(f[n - 1], lines[n]) ELSE f[n - 1]
      OBVIOUS
    <3> HIDE DEF step
    <3>2. CASE n = 0
      BY <1>5, <3>1, <3>2 DEF Follows
    <3>3. CASE n # 0
      <4>1. n \in 1 .. L
        BY <1>1, <3>3
      <4>2. f[n] = IF Stays(lines[n]) THEN Append(f[n - 1], lines[n]) ELSE f[n - 1]
        BY <1>5, <4>1 DEF Follows
      <4>3. Stays(lines[n]) <=> (lines[n].exp = Never \/ now < lines[n].exp)
        BY DEF Stays
      <4>4. step(f)[n] = IF lines[n].exp = Never \/ now < lines[n].exp
                         THEN Append(f[n - 1], lines[n]) ELSE f[n - 1]
        BY <3>1, <3>3
      <4> QED
        BY <4>2, <4>3, <4>4
    <3> QED
      BY <3>2, <3>3
  <2>2. DOMAIN step(f) = 0 .. L /\ step(f) = [n \in 0 .. L |-> step(f)[n]]
    OBVIOUS
  <2>3. f = [n \in 0 .. L |-> f[n]]
    BY <1>5
  <2> HIDE DEF step
  <2> QED
    BY <2>1, <2>2, <2>3
<1>7. kept = step(kept)
  <2> HIDE DEF step
  <2> QED
    BY <1>6
<1>8. Unexpired(lines) = kept[L]
  BY DEF Unexpired
<1>9. PICK k : k = step(k) /\ Unexpired(lines) = k[L]
  <2> HIDE DEF kept
  <2> QED
    BY <1>7, <1>8
<1> HIDE DEF L
<1>10. k[0] = <<>>
  BY <1>1, <1>9
<1>11. ASSUME NEW m \in 1 .. L
       PROVE  k[m] = IF Stays(lines[m]) THEN Append(k[m - 1], lines[m]) ELSE k[m - 1]
  <2>1. m \in 0 .. L /\ m # 0
    BY <1>1
  <2>2. k[m] = step(k)[m]
    BY <1>9
  <2>3. step(k)[m] = IF m = 0 THEN <<>>
                     ELSE IF lines[m].exp = Never \/ now < lines[m].exp
                          THEN Append(k[m - 1], lines[m]) ELSE k[m - 1]
    BY <2>1
  <2>4. Stays(lines[m]) <=> (lines[m].exp = Never \/ now < lines[m].exp)
    BY DEF Stays
  <2> HIDE DEF step
  <2> QED
    BY <2>1, <2>2, <2>3, <2>4, Zenon
<1>12. Follows(k, lines, L)
  BY <1>10, <1>11 DEF Follows
<1> QED
  BY <1>9, <1>12 DEF L

(* A line that is judged joins those picked before it, or does not. *)
LEMMA PicksNext ==
    ASSUME NEW lines \in Seq(LineRecord), NEW n \in Nat, n + 1 <= Len(lines),
           NEW some, Picks(some, lines, n)
    PROVE  Picks(some, lines, n + 1) /\ Picks(Append(some, lines[n + 1]), lines, n + 1)
<1>1. PICK h : PicksBy(h, some, lines, n)
  BY DEF Picks
<1>2. /\ some \in Seq(LineRecord) /\ Len(some) <= n /\ Len(some) \in Nat
      /\ lines[n + 1] \in LineRecord
  BY LenProperties DEF Picks
<1>3. /\ h \in [1 .. Len(some) -> 1 .. n] /\ Rises(h, Len(some))
      /\ \A i \in 1 .. Len(some) : some[i] = lines[h[i]]
  BY <1>1 DEF PicksBy
<1>4. Picks(some, lines, n + 1)
  <2>1. h \in [1 .. Len(some) -> 1 .. n + 1]
    BY <1>3
  <2>2. PicksBy(h, some, lines, n + 1)
    BY <1>3, <2>1 DEF PicksBy
  <2> QED
    BY <1>2, <2>2 DEF Picks
<1>5. PICK t : t = Append(some, lines[n + 1])
  OBVIOUS
<1>6. /\ t \in Seq(LineRecord) /\ Len(t) = Len(some) + 1
      /\ \A i \in 1 .. Len(some) : t[i] = some[i]
      /\ t[Len(some) + 1] = lines[n + 1]
  BY <1>2, <1>5, AppendProperties
<1>7. Picks(t, lines, n + 1)
  <2> DEFINE g == [i \in 1 .. Len(t) |-> IF i <= Len(some) THEN h[i] ELSE n + 1]
  <2>1. \A i \in 1 .. Len(some) : h[i] \in 1 .. n /\ i \in 1 .. Len(t) /\ g[i] = h[i]
    BY <1>2, <1>3, <1>6
  <2>2. g[Len(some) + 1] = n + 1 /\ \A i \in 1 .. Len(t) : i \in 1 .. Len(some) \/ i = Len(some) + 1
    BY <1>2, <1>6
  <2>3. g \in [1 .. Len(t) -> 1 .. n + 1]
    BY <1>2, <1>3, <1>6
  <2> HIDE DEF g
  <2>4. \A i \in 1 .. Len(t) : t[i] = lines[g[i]]
    BY <1>3, <1>6, <2>1, <2>2
  <2>5. Rises(g, Len(t))
    <3> SUFFICES ASSUME NEW i \in 1 .. Len(t), NEW j \in 1 .. Len(t), i < j
                 PROVE  g[i] < g[j]
      BY DEF Rises
    <3>1. i \in 1 .. Len(some)
      BY <1>2, <1>6
    <3>2. CASE j \in 1 .. Len(some)
      <4>1. h[i] < h[j]
        BY <1>3, <3>1, <3>2 DEF Rises
      <4> QED
        BY <2>1, <3>1, <3>2, <4>1
    <3>3. CASE j = Len(some) + 1
      <4>1. h[i] \in 1 .. n /\ g[i] = h[i] /\ g[j] = n + 1
        BY <2>1, <2>2, <3>1, <3>3
      <4> QED
        BY <4>1
    <3> QED
      BY <2>2, <3>2, <3>3
  <2>6. PicksBy(g, t, lines, n + 1)
    BY <2>3, <2>4, <2>5 DEF PicksBy
  <2>7. Len(t) <= n + 1
    BY <1>2, <1>6
  <2> QED
    BY <1>6, <2>6, <2>7 DEF Picks
<1> QED
  BY <1>4, <1>5, <1>7

(* The lines that stay are lines of the transcript, in their order.        *)
LEMMA UnexpiredPicks ==
    ASSUME NEW lines \in Seq(LineRecord)
    PROVE  Picks(Unexpired(lines), lines, Len(lines))
<1>1. PICK kept : Follows(kept, lines, Len(lines)) /\ Unexpired(lines) = kept[Len(lines)]
  BY UnexpiredFollows
<1> DEFINE All == {n \in Nat : n <= Len(lines) => Picks(kept[n], lines, n)}
<1>2. Len(lines) \in Nat
  BY LenProperties
<1>3. 0 \in All
  <2>1. <<>> \in Seq(LineRecord) /\ Len(<<>>) = 0
    BY EmptySeq
  <2>2. PicksBy([i \in 1 .. 0 |-> i], <<>>, lines, 0)
    BY <2>1 DEF PicksBy, Rises
  <2>3. Picks(<<>>, lines, 0)
    BY <2>1, <2>2 DEF Picks
  <2> QED
    BY <1>1, <2>3 DEF Follows
<1>4. ASSUME NEW n \in Nat, n \in All PROVE n + 1 \in All
  <2>1. CASE n + 1 <= Len(lines)
    <3>1. Picks(kept[n], lines, n)
      BY <1>2, <1>4, <2>1
    <3>2. kept[n + 1] \in {kept[n], Append(kept[n], lines[n + 1])}
      <4>1. n + 1 \in 1 .. Len(lines) /\ (n + 1) - 1 = n
        BY <1>2, <2>1
      <4> QED
        BY <1>1, <4>1 DEF Follows
    <3>3. Picks(kept[n + 1], lines, n + 1)
      BY <2>1, <3>1, <3>2, PicksNext
    <3> QED
      BY <3>3
  <2>2. CASE ~(n + 1 <= Len(lines))
    BY <2>2
  <2> QED
    BY <2>1, <2>2
<1>5. Len(lines) \in All
  <2> HIDE DEF All
  <2> QED
    BY <1>2, <1>3, <1>4, Counting
<1> QED
  BY <1>1, <1>2, <1>5

-----------------------------------------------------------------------------
(* What each call on the book keeps *)

(* A missing file and a torn one are told from a transcript. *)
LEMMA FilesAreNotTranscripts ==
    Null \notin Seq(LineRecord) /\ Torn \notin Seq(LineRecord)
  BY ChatAssumption

(* The empty transcript. *)
LEMMA EmptySound ==
    \A epoch, loose, n :
        Sound(<<>>, epoch, loose) /\ NoDecoyLine(<<>>, loose) /\ Below(<<>>, n)
<1>1. <<>> \in Seq(LineRecord) /\ Len(<<>>) = 0 /\ DOMAIN <<>> = {}
  BY EmptySeq
<1>2. 0 <= MAX_MESSAGES
  BY ChatAssumption
<1> QED
  BY <1>1, <1>2 DEF Sound, NoDecoyLine, Below, Rising

(* purge_expired keeps a transcript sound. *)
LEMMA UnexpiredSound ==
    ASSUME NEW lines, NEW epoch, NEW loose \in BOOLEAN, Sound(lines, epoch, loose)
    PROVE  /\ Sound(Unexpired(lines), epoch, loose)
           /\ \A n : Below(lines, n) => Below(Unexpired(lines), n)
           /\ NoDecoyLine(lines, loose) => NoDecoyLine(Unexpired(lines), loose)
<1>1. lines \in Seq(LineRecord) /\ Len(lines) <= MAX_MESSAGES /\ Rising(lines)
      /\ \A i \in DOMAIN lines : Of(lines[i], epoch, loose)
  BY DEF Sound
<1>2. PICK u : u = Unexpired(lines)
  OBVIOUS
<1>3. u \in Seq(LineRecord) /\ Len(u) <= Len(lines) /\ \E h : PicksBy(h, u, lines, Len(lines))
  BY <1>1, <1>2, UnexpiredPicks DEF Picks
<1>4. PICK h : PicksBy(h, u, lines, Len(lines))
  BY <1>3
<1>5. /\ Len(lines) \in Nat /\ DOMAIN lines = 1 .. Len(lines)
      /\ Len(u) \in Nat /\ DOMAIN u = 1 .. Len(u)
  BY <1>1, <1>3, LenProperties
<1>6. /\ \A i \in DOMAIN u : h[i] \in DOMAIN lines /\ u[i] = lines[h[i]]
      /\ \A i, j \in DOMAIN u : i < j => h[i] < h[j]
  BY <1>4, <1>5 DEF PicksBy, Rises
<1>7. Rising(u)
  BY <1>1, <1>6 DEF Rising
<1>8. Len(u) <= MAX_MESSAGES
  BY <1>1, <1>3, <1>5, ChatAssumption
<1>9. Sound(u, epoch, loose)
  BY <1>1, <1>3, <1>6, <1>7, <1>8 DEF Sound
<1>10. \A n : Below(lines, n) => Below(u, n)
  BY <1>6 DEF Below
<1>11. NoDecoyLine(lines, loose) => NoDecoyLine(u, loose)
  BY <1>6 DEF NoDecoyLine
<1> QED
  BY <1>2, <1>9, <1>10, <1>11

(* A transcript one line longer, and one line shorter at its front. *)
LEMMA AppendSound ==
    ASSUME NEW lines, NEW epoch, NEW loose \in BOOLEAN, NEW n \in Nat \ {0},
           NEW line \in LineRecord,
           Sound(lines, epoch, loose), Below(lines, n), line.id = n, Of(line, epoch, loose)
    PROVE  LET full == Append(lines, line)
               kept == IF Len(full) > MAX_MESSAGES THEN Tail(full) ELSE full
           IN  /\ Sound(kept, epoch, loose) /\ Below(kept, n + 1)
               /\ (NoDecoyLine(lines, loose) /\ Outside(line, loose)) => NoDecoyLine(kept, loose)
<1>1. lines \in Seq(LineRecord) /\ Len(lines) <= MAX_MESSAGES /\ Rising(lines)
      /\ \A i \in DOMAIN lines : Of(lines[i], epoch, loose)
  BY DEF Sound
<1>2. PICK full : full = Append(lines, line)
  OBVIOUS
<1>3. /\ full \in Seq(LineRecord) /\ full # <<>> /\ Len(full) = Len(lines) + 1
      /\ \A i \in 1 .. Len(lines) : full[i] = lines[i]
      /\ full[Len(lines) + 1] = line
  BY <1>1, <1>2, AppendProperties
<1>4. /\ Len(lines) \in Nat /\ DOMAIN lines = 1 .. Len(lines)
      /\ Len(full) \in Nat /\ DOMAIN full = 1 .. Len(full)
  BY <1>1, <1>3, LenProperties
<1>5. \A i \in 1 .. Len(full) : \/ i \in 1 .. Len(lines) /\ full[i] = lines[i]
                                \/ i = Len(lines) + 1 /\ full[i] = line
  BY <1>3, <1>4
<1>6. ASSUME NEW i \in 1 .. Len(lines) PROVE lines[i].id \in Nat /\ lines[i].id < n
  <2>1. lines[i] \in LineRecord
    BY <1>1
  <2>2. lines[i].id \in Nat
    BY <2>1 DEF LineRecord
  <2> QED
    BY <1>4, <2>2 DEF Below
<1>7. Rising(full)
  <2> SUFFICES ASSUME NEW i \in 1 .. Len(full), NEW j \in 1 .. Len(full), i < j
               PROVE  full[i].id < full[j].id
    BY <1>4 DEF Rising
  <2>1. i \in 1 .. Len(lines)
    BY <1>3, <1>4
  <2>2. full[i] = lines[i]
    BY <1>3, <2>1
  <2>3. CASE j \in 1 .. Len(lines)
    BY <1>1, <1>3, <1>4, <2>1, <2>3 DEF Rising
  <2>4. CASE full[j] = line
    BY <1>6, <2>1, <2>2, <2>4
  <2> QED
    BY <1>5, <2>3, <2>4
<1>8. \A i \in 1 .. Len(full) : full[i].id < n + 1
  BY <1>5, <1>6
<1>9. \A i \in 1 .. Len(full) : Of(full[i], epoch, loose)
  BY <1>1, <1>4, <1>5
<1>10. NoDecoyLine(lines, loose) /\ Outside(line, loose)
           => \A i \in 1 .. Len(full) : Outside(full[i], loose)
  BY <1>4, <1>5 DEF NoDecoyLine
<1>11. CASE Len(full) > MAX_MESSAGES
  <2>1. PICK rest : rest = Tail(full)
    OBVIOUS
  <2>2. /\ rest \in Seq(LineRecord) /\ Len(rest) = Len(full) - 1
        /\ \A i \in 1 .. Len(rest) : rest[i] = full[i + 1]
    BY <1>3, <2>1, HeadTailProperties
  <2>3. DOMAIN rest = 1 .. Len(rest) /\ Len(rest) \in Nat
        /\ \A i \in 1 .. Len(rest) : i + 1 \in 1 .. Len(full)
    BY <1>4, <2>2, LenProperties
  <2>4. Len(rest) <= MAX_MESSAGES
    BY <1>1, <1>3, <1>4, <2>2, ChatAssumption
  <2>5. Rising(rest)
    <3> SUFFICES ASSUME NEW i \in 1 .. Len(rest), NEW j \in 1 .. Len(rest), i < j
                 PROVE  rest[i].id < rest[j].id
      BY <2>3 DEF Rising
    <3>1. i + 1 < j + 1 /\ i + 1 \in DOMAIN full /\ j + 1 \in DOMAIN full
      BY <1>4, <2>3
    <3>2. full[i + 1].id < full[j + 1].id
      BY <1>7, <3>1 DEF Rising
    <3> QED
      BY <2>2, <3>2
  <2>6. Sound(rest, epoch, loose)
    BY <1>9, <2>2, <2>3, <2>4, <2>5 DEF Sound
  <2>7. Below(rest, n + 1)
    BY <1>8, <2>2, <2>3 DEF Below
  <2>8. NoDecoyLine(lines, loose) /\ Outside(line, loose) => NoDecoyLine(rest, loose)
    BY <1>10, <2>2, <2>3 DEF NoDecoyLine
  <2> QED
    BY <1>2, <1>11, <2>1, <2>6, <2>7, <2>8
<1>12. CASE ~(Len(full) > MAX_MESSAGES)
  <2>1. Len(full) <= MAX_MESSAGES
    BY <1>4, <1>12, ChatAssumption
  <2>2. Sound(full, epoch, loose)
    BY <1>3, <1>4, <1>7, <1>9, <2>1 DEF Sound
  <2>3. Below(full, n + 1)
    BY <1>4, <1>8 DEF Below
  <2>4. NoDecoyLine(lines, loose) /\ Outside(line, loose) => NoDecoyLine(full, loose)
    BY <1>4, <1>10 DEF NoDecoyLine
  <2> QED
    BY <1>2, <1>12, <2>2, <2>3, <2>4
<1> QED
  BY <1>11, <1>12

(* The book of a new process. *)
LEMMA NewBookSound ==
    \A epoch, loose : BookSound(NewBook, epoch, loose) /\ Apart(NewBook, FALSE, loose)
  BY EmptySound DEF BookSound, NewBook, Apart

(* A text that may go into the book as it is. *)
Fits(text, onDecoy, loose) ==
    loose \/ (text.epoch = wipes /\ (onDecoy \/ ~text.onDecoy))

LEMMA NewTextFits ==
    ASSUME wipes \in Nat, NEW onDecoy \in BOOLEAN
    PROVE  Here(onDecoy) \in Origin /\ \A loose : Fits(Here(onDecoy), onDecoy, loose)
  BY DEF Here, Origin, Fits

(* Making a line. *)
LEMMA AddSound ==
    ASSUME wipes \in Nat, now \in Nat,
           NEW b, NEW loose \in BOOLEAN, BookSound(b, wipes, loose),
           NEW life \in Nat, NEW onDecoy \in BOOLEAN,
           NEW text \in Origin, Fits(text, onDecoy, loose)
    PROVE  /\ BookSound(Add(b, life, onDecoy, text), wipes, loose)
           /\ Apart(b, onDecoy, loose) => Apart(Add(b, life, onDecoy, text), onDecoy, loose)
<1>1. PICK line : line = [id |-> b.next, epoch |-> wipes, onDecoy |-> onDecoy, text |-> text,
                          exp |-> IF life = 0 THEN Never ELSE now + life]
  OBVIOUS
<1>2. b.next \in Nat \ {0} /\ b.ephemeral \in BOOLEAN
      /\ Sound(b.entries, wipes, loose) /\ Below(b.entries, b.next)
      /\ (b.held # Null => Sound(b.held, wipes, loose) /\ Below(b.held, b.next))
  BY DEF BookSound
<1>3. /\ line \in LineRecord /\ line.id = b.next /\ line.onDecoy = onDecoy
      /\ Of(line, wipes, loose) /\ (~onDecoy => Outside(line, loose))
  <2>1. line \in LineRecord
    BY <1>1, <1>2 DEF LineRecord, Never
  <2>2. line.id = b.next /\ line.onDecoy = onDecoy /\ line.epoch = wipes /\ line.text = text
    BY <1>1
  <2> QED
    BY <2>1, <2>2 DEF Of, Outside, Fits
<1>4. PICK full : full = Append(b.entries, line)
  OBVIOUS
<1>5. PICK kept : kept = IF Len(full) > MAX_MESSAGES THEN Tail(full) ELSE full
  OBVIOUS
<1>6. /\ Sound(kept, wipes, loose) /\ Below(kept, b.next + 1)
      /\ (NoDecoyLine(b.entries, loose) /\ Outside(line, loose)) => NoDecoyLine(kept, loose)
  BY <1>2, <1>3, <1>4, <1>5, AppendSound
<1>7. PICK c : c = Add(b, life, onDecoy, text)
  OBVIOUS
<1>8. c = [b EXCEPT !.next = @ + 1, !.entries = kept]
  BY <1>1, <1>4, <1>5, <1>7 DEF Add
<1>9. c = [entries |-> kept, held |-> b.held, next |-> b.next + 1, ephemeral |-> b.ephemeral]
  <2>1. b = [entries |-> b.entries, held |-> b.held, next |-> b.next, ephemeral |-> b.ephemeral]
    BY DEF BookSound
  <2> QED
    BY <1>8, <2>1
<1>10. b.held # Null => Below(b.held, b.next + 1)
  <2> SUFFICES ASSUME b.held # Null, NEW i \in DOMAIN b.held PROVE b.held[i].id < b.next + 1
    BY DEF Below
  <2>1. b.held[i].id < b.next
    BY <1>2 DEF Below
  <2>2. b.held \in Seq(LineRecord)
    BY <1>2 DEF Sound
  <2>3. b.held[i] \in LineRecord
    BY <2>2, LenProperties
  <2>4. b.held[i].id \in Nat
    BY <2>3 DEF LineRecord
  <2> QED
    BY <1>2, <2>1, <2>4
<1>11. BookSound(c, wipes, loose)
  BY <1>2, <1>6, <1>9, <1>10 DEF BookSound
<1>12. Apart(b, onDecoy, loose) => Apart(c, onDecoy, loose)
  BY <1>3, <1>6, <1>9 DEF Apart
<1> QED
  BY <1>7, <1>11, <1>12

(* purge_expired. *)
LEMMA PurgeSound ==
    ASSUME NEW b, NEW epoch, NEW loose \in BOOLEAN, BookSound(b, epoch, loose)
    PROVE  /\ BookSound(PurgeExpired(b), epoch, loose)
           /\ \A onDecoy : Apart(b, onDecoy, loose) => Apart(PurgeExpired(b), onDecoy, loose)
<1>1. b.next \in Nat \ {0} /\ b.ephemeral \in BOOLEAN
      /\ Sound(b.entries, epoch, loose) /\ Below(b.entries, b.next)
      /\ (b.held # Null => Sound(b.held, epoch, loose) /\ Below(b.held, b.next))
  BY DEF BookSound
<1>2. PICK shown : shown = Unexpired(b.entries)
  OBVIOUS
<1>3. PICK held : held = IF b.held = Null THEN Null ELSE Unexpired(b.held)
  OBVIOUS
<1>4. PICK c : c = PurgeExpired(b)
  OBVIOUS
<1>5. c = [entries |-> shown, held |-> held, next |-> b.next, ephemeral |-> b.ephemeral]
  <2>1. b = [entries |-> b.entries, held |-> b.held, next |-> b.next, ephemeral |-> b.ephemeral]
    BY DEF BookSound
  <2>2. c = [b EXCEPT !.entries = Unexpired(@),
                      !.held = IF @ = Null THEN Null ELSE Unexpired(@)]
    BY <1>4 DEF PurgeExpired
  <2> QED
    BY <1>2, <1>3, <2>1, <2>2
<1>6. Sound(shown, epoch, loose) /\ Below(shown, b.next)
      /\ (NoDecoyLine(b.entries, loose) => NoDecoyLine(shown, loose))
  BY <1>1, <1>2, UnexpiredSound
<1>7. b.held = Null => held = Null
  BY <1>3
<1>8. b.held # Null => /\ Sound(held, epoch, loose) /\ Below(held, b.next) /\ held # Null
                       /\ NoDecoyLine(b.held, loose) => NoDecoyLine(held, loose)
  <2> SUFFICES ASSUME b.held # Null
               PROVE  /\ Sound(held, epoch, loose) /\ Below(held, b.next) /\ held # Null
                      /\ NoDecoyLine(b.held, loose) => NoDecoyLine(held, loose)
    OBVIOUS
  <2>1. held = Unexpired(b.held)
    BY <1>3
  <2>2. Sound(held, epoch, loose) /\ Below(held, b.next)
        /\ (NoDecoyLine(b.held, loose) => NoDecoyLine(held, loose))
    BY <1>1, <2>1, UnexpiredSound
  <2>3. held # Null
    BY <2>2, FilesAreNotTranscripts DEF Sound
  <2> QED
    BY <2>2, <2>3
<1>9. BookSound(c, epoch, loose)
  BY <1>1, <1>5, <1>6, <1>7, <1>8 DEF BookSound
<1>10. ASSUME NEW onDecoy, Apart(b, onDecoy, loose) PROVE Apart(c, onDecoy, loose)
  BY <1>5, <1>6, <1>7, <1>8, <1>10 DEF Apart
<1> QED
  BY <1>4, <1>9, <1>10

(* A line made and the book purged, as the shell always does. *)
LEMMA AddMessageSound ==
    ASSUME wipes \in Nat, now \in Nat, ttl \in Nat,
           NEW b, NEW loose \in BOOLEAN, BookSound(b, wipes, loose),
           NEW onDecoy \in BOOLEAN, NEW text \in Origin, Fits(text, onDecoy, loose)
    PROVE  /\ BookSound(AddMessage(b, onDecoy, text), wipes, loose)
           /\ Apart(b, onDecoy, loose) => Apart(AddMessage(b, onDecoy, text), onDecoy, loose)
<1>1. PICK c : c = Add(b, ttl, onDecoy, text)
  OBVIOUS
<1>2. BookSound(c, wipes, loose) /\ (Apart(b, onDecoy, loose) => Apart(c, onDecoy, loose))
  BY <1>1, AddSound
<1>3. AddMessage(b, onDecoy, text) = PurgeExpired(c)
  BY <1>1 DEF AddMessage
<1> QED
  BY <1>2, <1>3, PurgeSound

(* The decoy screen comes and goes; a clear. *)
LEMMA ParkSound ==
    ASSUME NEW b, NEW epoch, NEW loose \in BOOLEAN, BookSound(b, epoch, loose)
    PROVE  /\ BookSound(Park(b), epoch, loose)
           /\ Apart(b, FALSE, loose) => Apart(Park(b), TRUE, loose)
<1>1. b = [entries |-> b.entries, held |-> b.held, next |-> b.next, ephemeral |-> b.ephemeral]
  BY DEF BookSound
<1>2. PICK c : c = Park(b)
  OBVIOUS
<1>3. c = [entries |-> <<>>, held |-> IF b.held = Null THEN b.entries ELSE b.held,
           next |-> b.next, ephemeral |-> b.ephemeral]
  <2>1. c = [b EXCEPT !.held = IF @ = Null THEN b.entries ELSE @, !.entries = <<>>]
    BY <1>2 DEF Park
  <2> QED
    BY <1>1, <2>1
<1>4. b.entries # Null
  BY FilesAreNotTranscripts DEF BookSound, Sound
<1>5. BookSound(c, epoch, loose)
  BY <1>3, EmptySound DEF BookSound
<1>6. Apart(b, FALSE, loose) => Apart(c, TRUE, loose)
  BY <1>3, <1>4 DEF Apart
<1> QED
  BY <1>2, <1>5, <1>6

(* Leaving the decoy screen brings the parked transcript back. *)
LEMMA UnparkSound ==
    ASSUME NEW b, NEW epoch, NEW loose \in BOOLEAN, BookSound(b, epoch, loose)
    PROVE  /\ BookSound(Unpark(b), epoch, loose)
           /\ Apart(b, TRUE, loose) => Apart(Unpark(b), FALSE, loose)
<1>1. b = [entries |-> b.entries, held |-> b.held, next |-> b.next, ephemeral |-> b.ephemeral]
  BY DEF BookSound
<1>2. CASE b.held = Null
  <2>1. Unpark(b) = b /\ ~Apart(b, TRUE, loose)
    BY <1>2 DEF Unpark, Apart
  <2> QED
    BY <2>1
<1>3. CASE b.held # Null
  <2>1. PICK c : c = Unpark(b)
    OBVIOUS
  <2>2. c = [b EXCEPT !.entries = b.held, !.held = Null]
    BY <1>3, <2>1 DEF Unpark
  <2>3. c = [entries |-> b.held, held |-> Null, next |-> b.next, ephemeral |-> b.ephemeral]
    BY <1>1, <2>2
  <2>4. BookSound(c, epoch, loose)
    BY <1>3, <2>3 DEF BookSound
  <2>5. Apart(b, TRUE, loose) => Apart(c, FALSE, loose)
    BY <1>3, <2>3 DEF Apart
  <2> QED
    BY <2>1, <2>4, <2>5
<1> QED
  BY <1>2, <1>3

(* A cleared book is sound whatever wipe comes next. *)
LEMMA ClearSound ==
    ASSUME NEW b, NEW epoch, NEW loose \in BOOLEAN, BookSound(b, epoch, loose)
    PROVE  \A later, any : BookSound(Clear(b), later, any) /\ Apart(Clear(b), FALSE, any)
<1>1. b = [entries |-> b.entries, held |-> b.held, next |-> b.next, ephemeral |-> b.ephemeral]
      /\ b.next \in Nat \ {0} /\ b.ephemeral \in BOOLEAN
  BY DEF BookSound
<1>2. PICK c : c = Clear(b)
  OBVIOUS
<1>3. c = [b EXCEPT !.entries = <<>>, !.held = Null]
  BY <1>2 DEF Clear
<1>4. c = [entries |-> <<>>, held |-> Null, next |-> b.next, ephemeral |-> b.ephemeral]
  BY <1>1, <1>3
<1>5. \A later, any : BookSound(c, later, any)
  BY <1>1, <1>4, EmptySound DEF BookSound
<1>6. \A any : Apart(c, FALSE, any)
  BY <1>4, EmptySound DEF Apart
<1> QED
  BY <1>2, <1>5, <1>6

(* The mark that keeps a transcript off the disk touches no line. *)
LEMMA EphemeralSound ==
    ASSUME NEW b, NEW epoch, NEW loose \in BOOLEAN, BookSound(b, epoch, loose),
           NEW ephemeral \in BOOLEAN
    PROVE  LET c == [b EXCEPT !.ephemeral = ephemeral]
           IN  /\ BookSound(c, epoch, loose) /\ c.held = b.held
               /\ \A onDecoy : Apart(b, onDecoy, loose) => Apart(c, onDecoy, loose)
<1>1. b = [entries |-> b.entries, held |-> b.held, next |-> b.next, ephemeral |-> b.ephemeral]
  BY DEF BookSound
<1>2. PICK c : c = [b EXCEPT !.ephemeral = ephemeral]
  OBVIOUS
<1>3. c = [entries |-> b.entries, held |-> b.held, next |-> b.next, ephemeral |-> ephemeral]
  BY <1>1, <1>2
<1>4. BookSound(c, epoch, loose)
  BY <1>3 DEF BookSound
<1>5. \A onDecoy : Apart(b, onDecoy, loose) => Apart(c, onDecoy, loose)
  BY <1>3 DEF Apart
<1> QED
  BY <1>2, <1>3, <1>4, <1>5

(* What the book exports is a transcript of its own lines. *)
LEMMA ExportSound ==
    ASSUME NEW b, NEW epoch, NEW loose \in BOOLEAN, BookSound(b, epoch, loose)
    PROVE  /\ Sound(Export(b), epoch, loose)
           /\ \A onDecoy : Apart(b, onDecoy, loose) => NoDecoyLine(Export(b), loose)
<1>1. Sound(Export(b), epoch, loose)
  BY EmptySound DEF Export, PersistedEntries, BookSound
<1>2. ASSUME NEW onDecoy, Apart(b, onDecoy, loose) PROVE NoDecoyLine(Export(b), loose)
  BY <1>2, EmptySound DEF Export, PersistedEntries, Apart
<1> QED
  BY <1>1, <1>2

(* A sound file is loadable: its ids differ because they rise. *)
LEMMA SoundLoads ==
    ASSUME NEW file, NEW epoch, NEW loose \in BOOLEAN, Sound(file, epoch, loose)
    PROVE  Loadable(file)
<1>1. /\ file \in Seq(LineRecord) /\ Len(file) <= MAX_MESSAGES
      /\ \A i, j \in DOMAIN file : i < j => file[i].id < file[j].id
  BY DEF Sound, Rising
<1>2. DOMAIN file = 1 .. Len(file) /\ Len(file) \in Nat
  BY <1>1, LenProperties
<1>3. ASSUME NEW i \in DOMAIN file, NEW j \in DOMAIN file, i # j
      PROVE  file[i].id # file[j].id
  <2>1. file[i].id \in Nat /\ file[j].id \in Nat
    <3>1. file[i] \in LineRecord /\ file[j] \in LineRecord
      BY <1>1, <1>2
    <3> QED
      BY <3>1 DEF LineRecord
  <2>2. i < j \/ j < i
    BY <1>2, <1>3
  <2> QED
    BY <1>1, <2>1, <2>2
<1>4. file \notin {Null, Torn}
  BY <1>1, FilesAreNotTranscripts
<1> QED
  BY <1>1, <1>3, <1>4 DEF Loadable

(* The id after a file is above every id in it. *)
LEMMA NextIdAfterSound ==
    ASSUME NEW file, NEW epoch, NEW loose \in BOOLEAN, Sound(file, epoch, loose)
    PROVE  NextIdAfter(file) \in Nat \ {0} /\ Below(file, NextIdAfter(file))
<1>1. /\ file \in Seq(LineRecord)
      /\ \A i, j \in DOMAIN file : i < j => file[i].id < file[j].id
  BY DEF Sound, Rising
<1>2. DOMAIN file = 1 .. Len(file) /\ Len(file) \in Nat
  BY <1>1, LenProperties
<1>3. ASSUME NEW i \in DOMAIN file PROVE file[i].id \in Nat
  <2>1. file[i] \in LineRecord
    BY <1>1, <1>2
  <2> QED
    BY <2>1 DEF LineRecord
<1>4. CASE file = <<>>
  <2>1. NextIdAfter(file) = 1 /\ DOMAIN file = {}
    BY <1>4, EmptySeq DEF NextIdAfter
  <2> QED
    BY <2>1 DEF Below
<1>5. CASE file # <<>>
  <2>1. Len(file) \in 1 .. Len(file)
    BY <1>1, <1>5, EmptySeq
  <2>2. PICK high : high = file[Len(file)].id
    OBVIOUS
  <2>3. high \in Ids(file) /\ high \in Nat
    BY <1>2, <1>3, <2>1, <2>2 DEF Ids
  <2>4. ASSUME NEW i \in DOMAIN file PROVE file[i].id <= high
    <3>1. CASE i = Len(file)
      BY <1>3, <2>2, <3>1
    <3>2. CASE i < Len(file)
      BY <1>1, <1>2, <1>3, <2>1, <2>2, <3>2
    <3> QED
      BY <1>2, <3>1, <3>2
  <2>5. \A k \in Ids(file) : k <= high
    BY <2>4 DEF Ids
  <2>6. PICK m : m = CHOOSE top \in Ids(file) : \A k \in Ids(file) : k <= top
    OBVIOUS
  <2>7. m \in Ids(file) /\ \A k \in Ids(file) : k <= m
    BY <2>3, <2>5, <2>6
  <2>8. NextIdAfter(file) = 1 + m
    BY <1>5, <2>6 DEF NextIdAfter
  <2>9. m \in Nat
    BY <1>3, <2>7 DEF Ids
  <2>10. ASSUME NEW i \in DOMAIN file PROVE file[i].id < 1 + m
    <3>1. file[i].id \in Ids(file) /\ file[i].id \in Nat
      BY <1>3 DEF Ids
    <3>2. file[i].id <= m
      BY <2>7, <3>1
    <3> QED
      BY <2>9, <3>1, <3>2
  <2> QED
    BY <2>8, <2>9, <2>10 DEF Below
<1> QED
  BY <1>4, <1>5

(* A sound file read over the book. *)
LEMMA LoadSound ==
    ASSUME NEW b, NEW file, NEW epoch, NEW loose \in BOOLEAN,
           BookSound(b, epoch, loose), Sound(file, epoch, loose)
    PROVE  /\ BookSound(Load(b, file), epoch, loose)
           /\ NoDecoyLine(file, loose) => Apart(Load(b, file), FALSE, loose)
<1>1. b = [entries |-> b.entries, held |-> b.held, next |-> b.next, ephemeral |-> b.ephemeral]
      /\ b.ephemeral \in BOOLEAN
  BY DEF BookSound
<1>2. PICK u : u = Unexpired(file)
  OBVIOUS
<1>3. PICK n : n = NextIdAfter(file)
  OBVIOUS
<1>4. PICK c : c = Load(b, file)
  OBVIOUS
<1>5. c = [b EXCEPT !.entries = u, !.held = Null, !.next = n]
  BY <1>2, <1>3, <1>4 DEF Load
<1>6. c = [entries |-> u, held |-> Null, next |-> n, ephemeral |-> b.ephemeral]
  BY <1>1, <1>5
<1>7. Sound(u, epoch, loose) /\ Below(u, n) /\ n \in Nat \ {0}
      /\ (NoDecoyLine(file, loose) => NoDecoyLine(u, loose))
  BY <1>2, <1>3, UnexpiredSound, NextIdAfterSound
<1>8. BookSound(c, epoch, loose)
  BY <1>1, <1>6, <1>7 DEF BookSound
<1>9. NoDecoyLine(file, loose) => Apart(c, FALSE, loose)
  BY <1>6, <1>7 DEF Apart
<1> QED
  BY <1>4, <1>8, <1>9

-----------------------------------------------------------------------------
(* The chat *)

ChatTypes ==
    /\ extreme \in BOOLEAN /\ decoy \in BOOLEAN
    /\ screenLost \in BOOLEAN /\ crossing \in BOOLEAN
    /\ now \in Nat /\ wipes \in Nat /\ ttl \in {0, 1}

VoiceSound == voiceQueue \in Seq({wipes})

(* Every answer on its way may be said of the book it will go into.         *)
AnswersFit == answers \subseteq Origin /\ \A text \in answers : Fits(text, decoy, crossing)

ChatInv ==
    /\ ChatTypes /\ VoiceSound /\ AnswersFit
    /\ BookSound(book, wipes, crossing) /\ FileSound(savedBook, wipes, crossing)
    /\ ~screenLost => Apart(book, decoy, crossing) /\ FileApart(savedBook, crossing)

(* Every step, as the chat sees it. *)
ChatStep ==
    \/ Send \/ SendVoice \/ PostedLine \/ Answer \/ PushVoiceChunk \/ TakeVoiceChunk
    \/ SetDisappearing \/ ClearMessages \/ EnterDecoy \/ LeaveDecoy
    \/ OnPause \/ OnResume \/ OnDestroy \/ EnvironmentChanges \/ Tick \/ OnCreate

ChatDies ==
    ChatForgotten /\ UNCHANGED <<extreme, condition, now, savedBook, made, wipes, marks>>

(* A step of the app is a step of the chat, a wipe, a death, or none of its business. *)
LEMMA NextForChat ==
    ASSUME [Next]_vars
    PROVE  \/ (ChatStep /\ wipes' = wipes)
           \/ ChatWiped \/ ChatDies \/ UNCHANGED chatVars
<1>1. CASE \/ ChatOnly(Send) \/ ChatOnly(SendVoice) \/ ChatOnly(PostedLine) \/ ChatOnly(Answer)
           \/ ChatOnly(PushVoiceChunk) \/ ChatOnly(TakeVoiceChunk)
           \/ ChatOnly(SetDisappearing) \/ ChatOnly(ClearMessages)
           \/ ChatOnly(EnterDecoy) \/ ChatOnly(LeaveDecoy)
           \/ ChatOnly(OnPause) \/ ChatOnly(OnResume) \/ ChatOnly(OnDestroy)
           \/ ChatOnly(EnvironmentChanges) \/ ChatOnly(Tick)
  BY <1>1, Zenon DEF ChatOnly, ChatStep
<1>2. CASE ActivityStarts
  BY <1>2, Zenon DEF ActivityStarts, ChatStep
<1>3. CASE PanicWipe
  BY <1>3, Zenon DEF PanicWipe
<1>4. CASE ProcessDies
  BY <1>4, Zenon DEF ProcessDies, ChatDies
<1>5. CASE GroupsOnly(ToggleGroups) \/ GroupsOnly(SaveKeys)
  BY <1>5, Zenon DEF GroupsOnly
<1>6. CASE \E g \in DOMAIN groups :
              \/ MayAddMember /\ GroupsOnly(AddMember(g, GroupsMayBeSaved))
              \/ ~extreme /\ GroupsOnly(RemoveMember(g, GroupsMayBeSaved))
              \/ ~extreme /\ GroupsOnly(LeaveGroup(g, GroupsMayBeSaved))
  BY <1>6, Zenon DEF GroupsOnly
<1>7. CASE UNCHANGED vars
  BY <1>7, Zenon DEF vars
<1> QED
  BY <1>1, <1>2, <1>3, <1>4, <1>5, <1>6, <1>7, Zenon DEF Next

(* Types. *)
LEMMA ChatTypesStep ==
    ASSUME ChatTypes, (ChatStep /\ wipes' = wipes) \/ ChatWiped \/ ChatDies \/ UNCHANGED chatVars
    PROVE  ChatTypes'
<1>1. extreme' = extreme
  BY DEF ChatStep, ChatWiped, ChatDies, chatVars, memory, marks, Send, SendVoice, PostedLine,
         Answer, PushVoiceChunk, TakeVoiceChunk, SetDisappearing, ClearMessages, EnterDecoy,
         LeaveDecoy, OnPause, OnResume, OnDestroy, EnvironmentChanges, Tick, OnCreate
<1>2. decoy' \in BOOLEAN
  BY DEF ChatTypes,
         ChatStep, ChatWiped, ChatDies, chatVars, memory, marks, Send, SendVoice, PostedLine,
         Answer, PushVoiceChunk, TakeVoiceChunk, SetDisappearing, ClearMessages, EnterDecoy,
         LeaveDecoy, OnPause, OnResume, OnDestroy, EnvironmentChanges, Tick, OnCreate, ChatForgotten
<1>3. screenLost' \in BOOLEAN /\ crossing' \in BOOLEAN
  BY DEF ChatTypes,
         ChatStep, ChatWiped, ChatDies, chatVars, memory, marks, Send, SendVoice, PostedLine,
         Answer, PushVoiceChunk, TakeVoiceChunk, SetDisappearing, ClearMessages, EnterDecoy,
         LeaveDecoy, OnPause, OnResume, OnDestroy, EnvironmentChanges, Tick, OnCreate, ChatForgotten
<1>4. now' \in Nat
  <2>1. now' = now \/ now' = now + 1
    BY DEF ChatStep, ChatWiped, ChatDies, chatVars, memory, marks, Send, SendVoice, PostedLine,
           Answer, PushVoiceChunk, TakeVoiceChunk, SetDisappearing, ClearMessages, EnterDecoy,
           LeaveDecoy, OnPause, OnResume, OnDestroy, EnvironmentChanges, Tick, OnCreate, ChatForgotten
  <2> QED
    BY <2>1 DEF ChatTypes
<1>5. wipes' \in Nat
  BY DEF ChatTypes, ChatWiped, ChatDies, chatVars
<1>6. ttl' \in {0, 1}
  <2>1. ttl' = ttl \/ ttl' = 1 - ttl \/ ttl' = 0
    BY DEF ChatStep, ChatWiped, ChatDies, chatVars, memory, marks, Send, SendVoice, PostedLine,
           Answer, PushVoiceChunk, TakeVoiceChunk, SetDisappearing, ClearMessages, EnterDecoy,
           LeaveDecoy, OnPause, OnResume, OnDestroy, EnvironmentChanges, Tick, OnCreate, ChatForgotten
  <2> QED
    BY <2>1 DEF ChatTypes
<1> QED
  BY <1>1, <1>2, <1>3, <1>4, <1>5, <1>6 DEF ChatTypes

(* A waiting chunk came after the last wipe. *)
LEMMA VoiceStep ==
    ASSUME VoiceSound, (ChatStep /\ wipes' = wipes) \/ ChatWiped \/ ChatDies \/ UNCHANGED chatVars
    PROVE  voiceQueue' \in Seq({wipes'})
<1>1. \A w : <<>> \in Seq({w})
  BY EmptySeq
<1>2. CASE voiceQueue' = <<>>
  BY <1>1, <1>2
<1>3. CASE voiceQueue' = voiceQueue /\ wipes' = wipes
  BY <1>3 DEF VoiceSound
<1>4. CASE PushVoiceChunk /\ wipes' = wipes
  <2>1. voiceQueue' = Append(voiceQueue, wipes)
    BY <1>4 DEF PushVoiceChunk
  <2> QED
    BY <1>4, <2>1, AppendProperties DEF VoiceSound
<1>5. CASE TakeVoiceChunk /\ wipes' = wipes
  <2>1. voiceQueue # <<>> /\ voiceQueue' = Tail(voiceQueue)
    BY <1>5 DEF TakeVoiceChunk
  <2> QED
    BY <1>5, <2>1, HeadTailProperties DEF VoiceSound
<1>6. \/ voiceQueue' = <<>>
      \/ (voiceQueue' = voiceQueue /\ wipes' = wipes)
      \/ (PushVoiceChunk /\ wipes' = wipes)
      \/ (TakeVoiceChunk /\ wipes' = wipes)
  BY DEF ChatStep, ChatWiped, ChatDies, chatVars, memory, marks, Send, SendVoice, PostedLine,
         Answer, SetDisappearing, ClearMessages, EnterDecoy, LeaveDecoy, OnPause, OnResume,
         OnDestroy, EnvironmentChanges, Tick, OnCreate, ChatForgotten
<1> QED
  BY <1>2, <1>3, <1>4, <1>5, <1>6

(* An answer on its way fits, or it has crossed. *)
LEMMA AnswersStep ==
    ASSUME ChatInv, (ChatStep /\ wipes' = wipes) \/ ChatWiped \/ ChatDies \/ UNCHANGED chatVars
    PROVE  answers' \subseteq Origin /\ \A text \in answers' : Fits(text, decoy, crossing)'
<1>i. /\ wipes \in Nat /\ decoy \in BOOLEAN /\ crossing \in BOOLEAN
      /\ answers \subseteq Origin /\ \A text \in answers : Fits(text, decoy, crossing)
      /\ voiceQueue \in Seq({wipes})
  BY DEF ChatInv, ChatTypes, AnswersFit, VoiceSound
<1>1. CASE /\ answers' \subseteq answers /\ wipes' = wipes /\ decoy' = decoy
           /\ crossing' = crossing
  BY <1>i, <1>1 DEF Fits
<1>2. CASE (Send \/ SendVoice) /\ wipes' = wipes
  <2>1. answers' = answers \cup {Here(decoy)} /\ decoy' = decoy /\ crossing' = crossing
    BY <1>2 DEF Send, SendVoice, Answered, marks
  <2>2. Here(decoy) \in Origin /\ Fits(Here(decoy), decoy, crossing)
    BY <1>i, NewTextFits
  <2>3. Fits(Here(decoy), decoy, crossing)'
    BY <1>2, <2>1, <2>2 DEF Fits, Here
  <2> QED
    BY <1>i, <1>2, <2>1, <2>2 DEF Fits
<1>3. CASE TakeVoiceChunk /\ wipes' = wipes
  <2>1. PICK text : text = [epoch |-> Head(voiceQueue), onDecoy |-> FALSE]
    OBVIOUS
  <2>2. /\ voiceQueue # <<>> /\ answers' \in {answers, answers \cup {text}}
        /\ decoy' = decoy /\ crossing' = crossing
    BY <1>3, <2>1 DEF TakeVoiceChunk, marks
  <2>3. Head(voiceQueue) \in {wipes}
    BY <1>i, <2>2, HeadTailProperties
  <2>4. text \in Origin /\ Fits(text, decoy, crossing)
    BY <1>i, <2>1, <2>3 DEF Origin, Fits
  <2> QED
    BY <1>i, <1>3, <2>2, <2>4 DEF Fits
<1>4. CASE EnterDecoy /\ wipes' = wipes
  <2>1. answers' = answers /\ decoy' = TRUE /\ crossing' = crossing
    BY <1>4 DEF EnterDecoy, marks
  <2> QED
    BY <1>i, <1>4, <2>1 DEF Fits
<1>5. CASE LeaveDecoy /\ wipes' = wipes
  <2>1. /\ answers' = answers /\ decoy' = FALSE
        /\ crossing' = (crossing \/ \E text \in answers : text.onDecoy)
    BY <1>5 DEF LeaveDecoy
  <2> QED
    BY <1>i, <1>5, <2>1 DEF Fits
<1>6. CASE ChatWiped
  <2>1. answers' = answers /\ crossing' = (answers # {})
    BY <1>6 DEF ChatWiped
  <2> QED
    BY <1>i, <2>1 DEF Fits
<1>7. CASE ChatDies
  <2>1. answers' = {}
    BY <1>7 DEF ChatDies, ChatForgotten
  <2> QED
    BY <2>1
<1>8. CASE /\ \/ PostedLine \/ Answer \/ PushVoiceChunk \/ SetDisappearing \/ ClearMessages
              \/ OnPause \/ OnResume \/ OnDestroy \/ EnvironmentChanges \/ Tick \/ OnCreate
              \/ UNCHANGED chatVars
           /\ wipes' = wipes
  <2>1. answers' \subseteq answers /\ decoy' = decoy /\ crossing' = crossing
    BY <1>8 DEF PostedLine, Answer, PushVoiceChunk, SetDisappearing, ClearMessages, OnPause,
                OnResume, OnDestroy, EnvironmentChanges, Tick, OnCreate, chatVars, memory, marks
  <2> QED
    BY <1>1, <1>8, <2>1
<1>9. UNCHANGED chatVars => wipes' = wipes
  BY DEF chatVars
<1> QED
  BY <1>2, <1>3, <1>4, <1>5, <1>6, <1>7, <1>8, <1>9, Zenon DEF ChatStep

(* What a step does to the transcript and its file. *)
LEMMA ChatBookStep ==
    ASSUME ChatInv, (ChatStep /\ wipes' = wipes) \/ ChatWiped \/ ChatDies \/ UNCHANGED chatVars
    PROVE  /\ BookSound(book', wipes', crossing') /\ FileSound(savedBook', wipes', crossing')
           /\ ~screenLost' => Apart(book', decoy', crossing') /\ FileApart(savedBook', crossing')
<1>i. /\ wipes \in Nat /\ now \in Nat /\ ttl \in Nat /\ decoy \in BOOLEAN /\ extreme \in BOOLEAN
      /\ crossing \in BOOLEAN
      /\ BookSound(book, wipes, crossing) /\ FileSound(savedBook, wipes, crossing)
      /\ (~screenLost => Apart(book, decoy, crossing) /\ FileApart(savedBook, crossing))
      /\ answers \subseteq Origin /\ \A text \in answers : Fits(text, decoy, crossing)
  BY DEF ChatInv, ChatTypes, AnswersFit
<1>0. \A w, any : /\ FileSound(Null, w, any) /\ FileSound(Torn, w, any)
                  /\ FileApart(Null, any) /\ FileApart(Torn, any)
  BY DEF FileSound, FileApart
<1>1. CASE /\ Send \/ SendVoice \/ PostedLine \/ Answer
           /\ wipes' = wipes
  <2>1. PICK text \in Origin : Fits(text, decoy, crossing) /\ book' = AddMessage(book, decoy, text)
    <3>1. Here(decoy) \in Origin /\ Fits(Here(decoy), decoy, crossing)
      BY <1>i, NewTextFits
    <3>2. CASE Send \/ SendVoice \/ PostedLine
      BY <3>1, <3>2 DEF Send, SendVoice, PostedLine, AddNewLine
    <3>3. CASE Answer
      BY <1>i, <3>3 DEF Answer
    <3> QED
      BY <1>1, <3>2, <3>3
  <2>2. /\ decoy' = decoy /\ savedBook' = savedBook
        /\ screenLost' = screenLost /\ crossing' = crossing
    BY <1>1 DEF Send, SendVoice, PostedLine, Answer, marks
  <2>3. PICK b : b = AddMessage(book, decoy, text)
    OBVIOUS
  <2>4. BookSound(b, wipes, crossing) /\ (Apart(book, decoy, crossing) => Apart(b, decoy, crossing))
    BY <1>i, <2>1, <2>3, AddMessageSound
  <2> QED
    BY <1>i, <1>1, <2>1, <2>2, <2>3, <2>4
<1>2. CASE /\ PushVoiceChunk \/ TakeVoiceChunk \/ SetDisappearing
              \/ OnResume \/ OnDestroy \/ EnvironmentChanges \/ Tick
           /\ wipes' = wipes
  <2>1. /\ book' = book /\ decoy' = decoy /\ savedBook' = savedBook
        /\ screenLost' = screenLost /\ crossing' = crossing
    BY <1>2 DEF PushVoiceChunk, TakeVoiceChunk, SetDisappearing, OnResume, OnDestroy,
                EnvironmentChanges, Tick, memory, marks
  <2> QED
    BY <1>i, <1>2, <2>1
<1>3. CASE ClearMessages /\ wipes' = wipes
  <2>1. book' = Clear(book) /\ savedBook' = Null /\ decoy' = decoy /\ crossing' = crossing
        /\ screenLost' = (screenLost \/ book.held # Null)
    BY <1>3 DEF ClearMessages
  <2>2. BookSound(Clear(book), wipes, crossing) /\ Apart(Clear(book), FALSE, crossing)
    BY <1>i, ClearSound
  <2>3. ~screenLost' => decoy' = FALSE
    BY <1>i, <2>1 DEF Apart
  <2> QED
    BY <1>0, <1>3, <2>1, <2>2, <2>3
<1>4. CASE EnterDecoy /\ wipes' = wipes
  <2>1. book' = AddMessage(Park(book), TRUE, Here(TRUE)) /\ decoy = FALSE /\ decoy' = TRUE
        /\ savedBook' = savedBook /\ screenLost' = screenLost /\ crossing' = crossing
    BY <1>i, <1>4 DEF EnterDecoy, marks
  <2>2. PICK b : b = Park(book)
    OBVIOUS
  <2>3. BookSound(b, wipes, crossing) /\ (Apart(book, decoy, crossing) => Apart(b, TRUE, crossing))
    BY <1>i, <2>1, <2>2, ParkSound
  <2>4. PICK c : c = AddMessage(b, TRUE, Here(TRUE))
    OBVIOUS
  <2>5. Here(TRUE) \in Origin /\ Fits(Here(TRUE), TRUE, crossing)
    BY <1>i, NewTextFits
  <2>6. BookSound(c, wipes, crossing) /\ (Apart(b, TRUE, crossing) => Apart(c, TRUE, crossing))
    BY <1>i, <2>3, <2>4, <2>5, AddMessageSound
  <2> QED
    BY <1>i, <1>4, <2>1, <2>2, <2>3, <2>4, <2>6
<1>5. CASE LeaveDecoy /\ wipes' = wipes
  <2>1. book' = AddMessage(Unpark(book), FALSE, Here(FALSE)) /\ decoy = TRUE /\ decoy' = FALSE
        /\ savedBook' = savedBook /\ screenLost' = screenLost
        /\ crossing' = (crossing \/ \E text \in answers : text.onDecoy)
    BY <1>i, <1>5 DEF LeaveDecoy
  <2>2. PICK b : b = Unpark(book)
    OBVIOUS
  <2>3. BookSound(b, wipes, crossing) /\ (Apart(book, decoy, crossing) => Apart(b, FALSE, crossing))
    BY <1>i, <2>1, <2>2, UnparkSound
  <2>4. PICK c : c = AddMessage(b, FALSE, Here(FALSE))
    OBVIOUS
  <2>5. Here(FALSE) \in Origin /\ Fits(Here(FALSE), FALSE, crossing)
    BY <1>i, NewTextFits
  <2>6. BookSound(c, wipes, crossing) /\ (Apart(b, FALSE, crossing) => Apart(c, FALSE, crossing))
    BY <1>i, <2>3, <2>4, <2>5, AddMessageSound
  <2>7. PICK looser \in BOOLEAN : looser = crossing' /\ (crossing => looser)
    BY <2>1
  <2>8. /\ BookSound(c, wipes, looser) /\ FileSound(savedBook, wipes, looser)
        /\ ~screenLost => Apart(c, FALSE, looser) /\ FileApart(savedBook, looser)
    BY <1>i, <2>1, <2>3, <2>6, <2>7, SaidLoosely
  <2> QED
    BY <1>5, <2>1, <2>2, <2>4, <2>7, <2>8
<1>6. CASE OnPause /\ wipes' = wipes
  <2>0. PICK outcome \in {"saved", "refused", "torn"} :
            /\ PersistMessages(outcome) /\ decoy' = decoy
            /\ screenLost' = screenLost /\ crossing' = crossing
    BY <1>6 DEF OnPause, marks
  <2>1. CASE extreme \/ clean
    <3>1. book' = [book EXCEPT !.ephemeral = TRUE] /\ savedBook' = Null
      BY <2>0, <2>1 DEF PersistMessages
    <3>2. PICK b : b = [book EXCEPT !.ephemeral = TRUE]
      OBVIOUS
    <3>3. /\ BookSound(b, wipes, crossing)
          /\ \A onDecoy : Apart(book, onDecoy, crossing) => Apart(b, onDecoy, crossing)
      BY <1>i, <3>2, EphemeralSound
    <3> QED
      BY <1>i, <1>0, <1>6, <2>0, <3>1, <3>2, <3>3
  <2>2. CASE ~(extreme \/ clean)
    <3>1. book' = book /\ savedBook' \in {Export(book), savedBook, Torn}
      BY <2>0, <2>2 DEF PersistMessages
    <3>2. /\ Sound(Export(book), wipes, crossing)
          /\ \A onDecoy : Apart(book, onDecoy, crossing) => NoDecoyLine(Export(book), crossing)
      BY <1>i, ExportSound
    <3>3. /\ FileSound(savedBook', wipes, crossing)
          /\ ~screenLost => FileApart(savedBook', crossing)
      <4>1. CASE savedBook' = Export(book)
        BY <1>i, <3>2, <4>1 DEF FileSound, FileApart
      <4>2. CASE savedBook' = savedBook
        BY <1>i, <4>2
      <4>3. CASE savedBook' = Torn
        BY <1>0, <4>3
      <4> QED
        BY <3>1, <4>1, <4>2, <4>3
    <3> QED
      BY <1>i, <1>6, <2>0, <3>1, <3>3
  <2> QED
    BY <2>1, <2>2
<1>7. CASE OnCreate /\ wipes' = wipes
  <2>1. PICK ready : ready = [book EXCEPT !.ephemeral = extreme \/ clean]
    OBVIOUS
  <2>2. PICK loaded : loaded = IF Loadable(savedBook) THEN Load(ready, savedBook) ELSE ready
    OBVIOUS
  <2>3. /\ book' = PurgeExpired(Add(PurgeExpired(loaded), 0, decoy, Here(decoy)))
        /\ screenLost' = (screenLost \/ (decoy /\ book.held # Null /\ Loadable(savedBook)))
        /\ decoy' = decoy /\ savedBook' = savedBook /\ crossing' = crossing
    BY <1>7, <2>1, <2>2 DEF OnCreate
  <2>4. /\ BookSound(ready, wipes, crossing)
        /\ \A onDecoy : Apart(book, onDecoy, crossing) => Apart(ready, onDecoy, crossing)
    <3>1. (extreme \/ clean) \in BOOLEAN
      OBVIOUS
    <3> QED
      BY <1>i, <2>1, <3>1, EphemeralSound
  <2>5. BookSound(loaded, wipes, crossing) /\ (~screenLost' => Apart(loaded, decoy, crossing))
    <3>1. CASE Loadable(savedBook)
      <4>1. savedBook \notin {Null, Torn}
        BY <3>1 DEF Loadable
      <4>2. Sound(savedBook, wipes, crossing) /\ (~screenLost => NoDecoyLine(savedBook, crossing))
        BY <1>i, <4>1 DEF FileSound, FileApart
      <4>3. /\ BookSound(loaded, wipes, crossing)
            /\ NoDecoyLine(savedBook, crossing) => Apart(loaded, FALSE, crossing)
        BY <1>i, <2>2, <2>4, <3>1, <4>2, LoadSound
      <4>4. ~screenLost' => ~screenLost /\ decoy = FALSE
        BY <1>i, <2>3, <3>1 DEF Apart
      <4> QED
        BY <4>2, <4>3, <4>4
    <3>2. CASE ~Loadable(savedBook)
      <4>1. loaded = ready
        BY <2>2, <3>2
      <4>2. ~screenLost' => ~screenLost
        BY <2>3
      <4> QED
        BY <1>i, <2>4, <4>1, <4>2
    <3> QED
      BY <3>1, <3>2
  <2>6. PICK b : b = PurgeExpired(loaded)
    OBVIOUS
  <2>7. BookSound(b, wipes, crossing) /\ (~screenLost' => Apart(b, decoy, crossing))
    BY <1>i, <2>5, <2>6, PurgeSound
  <2>8. PICK c : c = Add(b, 0, decoy, Here(decoy))
    OBVIOUS
  <2>9. BookSound(c, wipes, crossing) /\ (~screenLost' => Apart(c, decoy, crossing))
    BY <1>i, <2>7, <2>8, NewTextFits, AddSound
  <2>10. PICK d : d = PurgeExpired(c)
    OBVIOUS
  <2>11. BookSound(d, wipes, crossing) /\ (~screenLost' => Apart(d, decoy, crossing))
    BY <1>i, <2>9, <2>10, PurgeSound
  <2>12. book' = d
    BY <2>3, <2>6, <2>8, <2>10
  <2>13. ~screenLost' => FileApart(savedBook, crossing)
    BY <1>i, <2>3
  <2> QED
    BY <1>i, <1>7, <2>3, <2>11, <2>12, <2>13
<1>8. CASE ChatWiped
  <2>1. book' = Clear(book) /\ decoy' = FALSE /\ savedBook' = Null
    BY <1>8 DEF ChatWiped
  <2>2. BookSound(Clear(book), wipes', crossing') /\ Apart(Clear(book), FALSE, crossing')
    BY <1>i, ClearSound
  <2> QED
    BY <1>0, <2>1, <2>2
<1>9. CASE ChatDies
  <2>1. book' = NewBook /\ decoy' = FALSE /\ savedBook' = savedBook /\ wipes' = wipes
        /\ screenLost' = screenLost /\ crossing' = crossing
    BY <1>9 DEF ChatDies, ChatForgotten, marks
  <2> QED
    BY <1>i, <2>1, NewBookSound
<1>10. CASE UNCHANGED chatVars
  <2>1. book' = book /\ decoy' = decoy /\ savedBook' = savedBook /\ wipes' = wipes
        /\ screenLost' = screenLost /\ crossing' = crossing
    BY <1>10 DEF chatVars, memory, marks
  <2> QED
    BY <1>i, <2>1
<1> QED
  BY <1>1, <1>2, <1>3, <1>4, <1>5, <1>6, <1>7, <1>8, <1>9, <1>10, Zenon DEF ChatStep

(* The first state. *)
LEMMA ChatInvInit ==
    Init => ChatInv
<1> SUFFICES ASSUME Init PROVE ChatInv
  OBVIOUS
<1>1. ChatTypes
  BY ChatAssumption DEF Init, ChatInit, ChatTypes
<1>2. VoiceSound
  BY EmptySeq DEF Init, ChatInit, VoiceSound
<1>3. BookSound(book, wipes, crossing) /\ Apart(book, decoy, crossing)
  BY NewBookSound DEF Init, ChatInit
<1>4. FileSound(savedBook, wipes, crossing) /\ FileApart(savedBook, crossing)
  BY DEF Init, ChatInit, FileSound, FileApart
<1>5. AnswersFit
  BY DEF Init, ChatInit, AnswersFit
<1> QED
  BY <1>1, <1>2, <1>3, <1>4, <1>5 DEF ChatInv

(* Every step keeps the chat's invariant. *)
LEMMA ChatInvStep ==
    ChatInv /\ [Next]_vars => ChatInv'
<1> SUFFICES ASSUME ChatInv, [Next]_vars PROVE ChatInv'
  OBVIOUS
<1>1. (ChatStep /\ wipes' = wipes) \/ ChatWiped \/ ChatDies \/ UNCHANGED chatVars
  BY NextForChat
<1>2. ChatTypes'
  BY <1>1, ChatTypesStep DEF ChatInv
<1>3. voiceQueue' \in Seq({wipes'})
  BY <1>1, VoiceStep DEF ChatInv
<1>4. /\ BookSound(book', wipes', crossing') /\ FileSound(savedBook', wipes', crossing')
      /\ ~screenLost' => Apart(book', decoy', crossing') /\ FileApart(savedBook', crossing')
  BY <1>1, ChatBookStep
<1>5. AnswersFit'
  BY <1>1, AnswersStep DEF AnswersFit
<1> QED
  BY <1>2, <1>3, <1>4, <1>5 DEF ChatInv, VoiceSound

(* The chat's invariant holds throughout. *)
LEMMA ChatInvHolds == Spec => []ChatInv
  BY ChatInvInit, ChatInvStep, PTL DEF Spec

(* What messages.enc holds can always be read back.  The ids in it rise:    *)
(* parking, eviction and expiry keep them in order, and the id after a     *)
(* reload is above every id in the file.                                   *)
THEOREM SavedBookAlwaysLoads ==
    Spec => []SavedBookLoads
<1>1. ChatInv => SavedBookLoads
  BY SoundLoads DEF ChatInv, ChatTypes, FileSound, SavedBookLoads
<1> QED
  BY <1>1, ChatInvHolds, PTL

(* Lines of the decoy screen never reach messages.enc: whatever the book   *)
(* exports is the parked transcript as long as the screen is up.  Nor do   *)
(* their texts, unless the screen was left before an answer to one came.   *)
THEOREM DecoyIsNotSaved == Spec => []DecoyNotSaved
<1>1. ChatInv => DecoyNotSaved
  <2> SUFFICES ASSUME ChatInv, ~screenLost, savedBook \notin {Null, Torn},
                      NEW i \in DOMAIN savedBook
               PROVE  ~savedBook[i].onDecoy /\ (crossing \/ ~savedBook[i].text.onDecoy)
    BY DEF DecoyNotSaved, SavedLines, Lines
  <2>1. FileApart(savedBook, crossing)
    BY DEF ChatInv
  <2> QED
    BY <2>1 DEF FileApart, NoDecoyLine, Outside
<1> QED
  BY <1>1, ChatInvHolds, PTL

-----------------------------------------------------------------------------
(* Groups *)

(* A group list; an empty store is what a missing key file stands for.     *)
GroupList(list) == DOMAIN list \subseteq Groups /\ list \in [DOMAIN list -> SUBSET Member]
Stored(file) == IF file = NoFile THEN <<>> ELSE file

GroupTypes ==
    /\ GroupList(groups) /\ keys \in Seq(Nat) /\ saving \in BOOLEAN /\ mishap \in BOOLEAN
    /\ savedGroups # NoFile => GroupList(savedGroups)
    /\ savedKeys # NoFile => savedKeys \in Seq(Nat)
    /\ keysMade \in Nat

(* The slot of every member of the list holds that member's key.           *)
Backed(list, store) ==
    \A g \in DOMAIN list : \A m \in list[g] :
        m.key # Legacy => m.slot < Len(store) /\ store[m.slot + 1] = m.key

(* Memory is backed; while the key file is not yet written the group file  *)
(* is what memory is; otherwise the two files back each other.             *)
FilesAgree ==
    IF saving THEN savedGroups = groups
    ELSE /\ savedGroups = NoFile => savedKeys = NoFile
         /\ savedGroups # NoFile => Backed(savedGroups, Stored(savedKeys))

BackedInv == ~mishap => Backed(groups, keys) /\ FilesAgree

(* Keys of before the last wipe are nowhere.                               *)
Later(store, n) == \A i \in DOMAIN store : store[i] > n
LaterList(list, n) == \A g \in DOMAIN list : \A m \in list[g] : m.key > n
LaterInv ==
    /\ keysBefore \in Nat /\ keysBefore <= keysMade
    /\ wipes > 0 => /\ Later(keys, keysBefore) /\ LaterList(groups, keysBefore)
                    /\ savedKeys # NoFile => Later(savedKeys, keysBefore)
                    /\ savedGroups # NoFile => LaterList(savedGroups, keysBefore)

GroupInv == GroupTypes /\ BackedInv /\ LaterInv

(* Every step, as the groups see it. *)
GroupStep ==
    \/ ToggleGroups \/ SaveKeys \/ GroupScreenGone \/ GroupsForgotten
    \/ \E g \in DOMAIN groups, mayWrite \in BOOLEAN :
           AddMember(g, mayWrite) \/ RemoveMember(g, mayWrite) \/ LeaveGroup(g, mayWrite)

(* A step of the app is a step of the groups, a wipe, or leaves them alone. *)
LEMMA NextForGroups ==
    ASSUME [Next]_vars
    PROVE  \/ (GroupStep /\ UNCHANGED <<keysBefore, wipes>>)
           \/ (GroupsWiped /\ keysBefore' = keysMade)
           \/ UNCHANGED <<groupVars, keysBefore, wipes>>
<1>1. CASE \/ ChatOnly(Send) \/ ChatOnly(SendVoice) \/ ChatOnly(PostedLine) \/ ChatOnly(Answer)
           \/ ChatOnly(PushVoiceChunk) \/ ChatOnly(TakeVoiceChunk)
           \/ ChatOnly(SetDisappearing) \/ ChatOnly(ClearMessages)
           \/ ChatOnly(EnterDecoy) \/ ChatOnly(LeaveDecoy)
           \/ ChatOnly(OnPause) \/ ChatOnly(OnResume) \/ ChatOnly(OnDestroy)
           \/ ChatOnly(EnvironmentChanges) \/ ChatOnly(Tick)
  BY <1>1 DEF ChatOnly
<1>2. CASE ActivityStarts
  BY <1>2 DEF ActivityStarts, GroupStep
<1>3. CASE PanicWipe
  BY <1>3 DEF PanicWipe
<1>4. CASE ProcessDies
  BY <1>4 DEF ProcessDies, GroupStep
<1>5. CASE GroupsOnly(ToggleGroups) \/ GroupsOnly(SaveKeys)
  BY <1>5 DEF GroupsOnly, GroupStep, chatVars
<1>6. CASE \E g \in DOMAIN groups :
              \/ MayAddMember /\ GroupsOnly(AddMember(g, GroupsMayBeSaved))
              \/ ~extreme /\ GroupsOnly(RemoveMember(g, GroupsMayBeSaved))
              \/ ~extreme /\ GroupsOnly(LeaveGroup(g, GroupsMayBeSaved))
  <2>1. GroupsMayBeSaved \in BOOLEAN
    BY DEF GroupsMayBeSaved
  <2>2. PICK mayWrite \in BOOLEAN : mayWrite = GroupsMayBeSaved
    BY <2>1
  <2>3. PICK g \in DOMAIN groups :
              \/ GroupsOnly(AddMember(g, mayWrite))
              \/ GroupsOnly(RemoveMember(g, mayWrite))
              \/ GroupsOnly(LeaveGroup(g, mayWrite))
    BY <1>6, <2>2
  <2>4. UNCHANGED <<keysBefore, wipes>>
    BY <2>3 DEF GroupsOnly, chatVars
  <2>5. AddMember(g, mayWrite) \/ RemoveMember(g, mayWrite) \/ LeaveGroup(g, mayWrite)
    BY <2>3 DEF GroupsOnly
  <2> QED
    BY <2>4, <2>5 DEF GroupStep
<1>7. CASE UNCHANGED vars
  BY <1>7 DEF vars, chatVars
<1> QED
  BY <1>1, <1>2, <1>3, <1>4, <1>5, <1>6, <1>7, Zenon DEF Next

(* An empty list promises nothing. *)
LEMMA NoGroupsList ==
    /\ GroupList(NoGroups)
    /\ \A store : Backed(NoGroups, store)
    /\ \A n : LaterList(NoGroups, n)
  BY DEF GroupList, NoGroups, Backed, LaterList

(* The lists a member joins or leaves. *)
LEMMA ChangedGroup ==
    ASSUME NEW list, GroupList(list), NEW g \in DOMAIN list, NEW members \in SUBSET Member
    PROVE  LET after == [list EXCEPT ![g] = members]
           IN  /\ GroupList(after) /\ DOMAIN after = DOMAIN list
               /\ after[g] = members /\ \A h \in DOMAIN list : h # g => after[h] = list[h]
  BY DEF GroupList

(* The steps of the group screen, whatever the files say.                  *)
LEMMA AddMemberDoes ==
    ASSUME GroupTypes, NEW g \in DOMAIN groups, NEW mayWrite \in BOOLEAN, AddMember(g, mayWrite)
    PROVE  /\ ~saving /\ UNCHANGED <<savedKeys, mishap>>
           /\ keysMade' = keysMade + 1 /\ keys' = Append(keys, keysMade')
           /\ GroupList(groups') /\ DOMAIN groups' = DOMAIN groups
           /\ \A h \in DOMAIN groups : \A m \in groups'[h] :
                  m \in groups[h] \/ m = [slot |-> Len(keys), key |-> keysMade']
           /\ \/ (saving' = FALSE /\ savedGroups' = savedGroups)
              \/ (saving' = TRUE /\ savedGroups' = groups')
<1>1. /\ ~saving /\ UNCHANGED <<savedKeys, mishap>>
      /\ keysMade' = keysMade + 1 /\ keys' = Append(keys, keysMade')
  BY DEF AddMember, CreateGroupSenderKey
<1>2. PICK new : new = [slot |-> Len(keys), key |-> keysMade']
  OBVIOUS
<1>3. \/ /\ groups' = [groups EXCEPT ![g] = @ \cup {new}]
         /\ StartSave(mayWrite)
      \/ UNCHANGED <<groups, saving, savedGroups>>
  BY <1>2 DEF AddMember
<1>4. CASE UNCHANGED <<groups, saving, savedGroups>>
  BY <1>1, <1>4 DEF GroupTypes
<1>5. CASE groups' = [groups EXCEPT ![g] = @ \cup {new}] /\ StartSave(mayWrite)
  <2>1. new \in Member
    <3>1. Len(keys) \in Nat /\ keysMade' \in Nat
      BY <1>1, LenProperties DEF GroupTypes
    <3> QED
      BY <1>2, <3>1 DEF Member
  <2>2. PICK members : members = groups[g] \cup {new}
    OBVIOUS
  <2>3. members \in SUBSET Member /\ GroupList(groups)
    BY <2>1, <2>2 DEF GroupTypes, GroupList
  <2>4. groups' = [groups EXCEPT ![g] = members]
    BY <1>5, <2>2
  <2>5. /\ GroupList(groups') /\ DOMAIN groups' = DOMAIN groups
        /\ groups'[g] = members /\ \A h \in DOMAIN groups : h # g => groups'[h] = groups[h]
    BY <2>3, <2>4, ChangedGroup
  <2>6. \A h \in DOMAIN groups : \A m \in groups'[h] : m \in groups[h] \/ m = new
    BY <2>2, <2>5
  <2>7. \/ (saving' = FALSE /\ savedGroups' = savedGroups)
        \/ (saving' = TRUE /\ savedGroups' = groups')
    BY <1>5 DEF StartSave
  <2> QED
    BY <1>1, <1>2, <2>5, <2>6, <2>7
<1> QED
  BY <1>3, <1>4, <1>5

(* Taking a member out leaves fewer members and the same keys. *)
LEMMA RemoveMemberDoes ==
    ASSUME GroupTypes, NEW g \in DOMAIN groups, NEW mayWrite \in BOOLEAN, RemoveMember(g, mayWrite)
    PROVE  /\ ~saving /\ UNCHANGED <<keys, savedKeys, keysMade, mishap>>
           /\ GroupList(groups') /\ DOMAIN groups' \subseteq DOMAIN groups
           /\ \A h \in DOMAIN groups' : groups'[h] \subseteq groups[h]
           /\ \/ (saving' = FALSE /\ savedGroups' = savedGroups)
              \/ (saving' = TRUE /\ savedGroups' = groups')
<1>1. ~saving /\ UNCHANGED <<keys, savedKeys, keysMade, mishap>> /\ StartSave(mayWrite)
  BY DEF RemoveMember
<1>2. PICK m \in groups[g] : groups' = [groups EXCEPT ![g] = @ \ {m}]
  BY DEF RemoveMember
<1>3. PICK members : members = groups[g] \ {m}
  OBVIOUS
<1>4. members \in SUBSET Member /\ GroupList(groups)
  BY <1>3 DEF GroupTypes, GroupList
<1>5. groups' = [groups EXCEPT ![g] = members]
  BY <1>2, <1>3
<1>6. /\ GroupList(groups') /\ DOMAIN groups' = DOMAIN groups
      /\ groups'[g] = members /\ \A h \in DOMAIN groups : h # g => groups'[h] = groups[h]
  BY <1>4, <1>5, ChangedGroup
<1>7. \A h \in DOMAIN groups' : groups'[h] \subseteq groups[h]
  BY <1>3, <1>6
<1>8. \/ (saving' = FALSE /\ savedGroups' = savedGroups)
      \/ (saving' = TRUE /\ savedGroups' = groups')
  BY <1>1 DEF StartSave
<1> QED
  BY <1>1, <1>6, <1>7, <1>8

(* Leaving a group leaves fewer groups and the same keys. *)
LEMMA LeaveGroupDoes ==
    ASSUME GroupTypes, NEW g \in DOMAIN groups, NEW mayWrite \in BOOLEAN, LeaveGroup(g, mayWrite)
    PROVE  /\ ~saving /\ UNCHANGED <<keys, savedKeys, keysMade, mishap>>
           /\ GroupList(groups') /\ DOMAIN groups' \subseteq DOMAIN groups
           /\ \A h \in DOMAIN groups' : groups'[h] \subseteq groups[h]
           /\ \/ (saving' = FALSE /\ savedGroups' = savedGroups)
              \/ (saving' = TRUE /\ savedGroups' = groups')
<1>1. ~saving /\ UNCHANGED <<keys, savedKeys, keysMade, mishap>> /\ StartSave(mayWrite)
  BY DEF LeaveGroup
<1>2. groups' = [h \in DOMAIN groups \ {g} |-> groups[h]]
  BY DEF LeaveGroup, RemoveGroup
<1>3. /\ GroupList(groups') /\ DOMAIN groups' \subseteq DOMAIN groups
      /\ \A h \in DOMAIN groups' : groups'[h] \subseteq groups[h]
  BY <1>2 DEF GroupTypes, GroupList
<1>4. \/ (saving' = FALSE /\ savedGroups' = savedGroups)
      \/ (saving' = TRUE /\ savedGroups' = groups')
  BY <1>1 DEF StartSave
<1> QED
  BY <1>1, <1>3, <1>4

(* Reading the files gives memory what they hold, or a mishap. *)
LEMMA ToggleGroupsDoes ==
    ASSUME ToggleGroups
    PROVE  /\ ~saving /\ UNCHANGED <<saving, savedGroups, savedKeys, keysMade>>
           /\ (groups' = groups \/ (savedGroups # NoFile /\ groups' = savedGroups))
           /\ (keys' = keys \/ keys' = <<>> \/ (savedKeys # NoFile /\ keys' = savedKeys))
           /\ mishap' \in BOOLEAN
           /\ ~mishap' =>
                 /\ ~mishap
                 /\ groups' = IF savedGroups = NoFile THEN groups ELSE savedGroups
                 /\ keys' = IF savedKeys = NoFile THEN keys ELSE savedKeys
<1>1. ~saving /\ UNCHANGED <<saving, savedGroups, savedKeys, keysMade>>
  BY DEF ToggleGroups
<1>2. PICK groupsRead \in BOOLEAN, keysRead \in BOOLEAN :
           /\ groups' = IF savedGroups = NoFile \/ ~groupsRead THEN groups ELSE savedGroups
           /\ keys' = KeysAfterLoad(savedKeys, keysRead)
           /\ mishap' = (mishap \/ ~groupsRead \/ ~keysRead)
  BY DEF ToggleGroups
<1>3. keys' = IF savedKeys = NoFile THEN keys ELSE IF keysRead THEN savedKeys ELSE <<>>
  BY <1>2 DEF KeysAfterLoad
<1> QED
  BY <1>1, <1>2, <1>3

(* The second file gets the keys in memory, or a mishap. *)
LEMMA SaveKeysDoes ==
    ASSUME GroupTypes, SaveKeys
    PROVE  /\ saving /\ saving' = FALSE
           /\ UNCHANGED <<groups, keys, savedGroups, keysMade>>
           /\ savedKeys' \in {keys, NoFile} /\ mishap' \in BOOLEAN
           /\ ~mishap' => ~mishap /\ savedKeys' = keys
<1>1. /\ saving /\ saving' = FALSE
      /\ UNCHANGED <<groups, keys, savedGroups, keysMade>>
      /\ savedKeys' = ExportKeys(keys)
      /\ mishap' = (mishap \/ ExportKeys(keys) = NoFile)
  BY DEF SaveKeys
<1>2. ExportKeys(keys) \in {keys, NoFile}
  BY DEF ExportKeys
<1> QED
  BY <1>1, <1>2

-----------------------------------------------------------------------------
(* The invariant of the groups *)

(* Types. *)
LEMMA GroupTypesStep ==
    ASSUME GroupTypes, GroupStep \/ GroupsWiped \/ UNCHANGED groupVars
    PROVE  GroupTypes'
<1>t. /\ GroupList(groups) /\ keys \in Seq(Nat) /\ saving \in BOOLEAN /\ mishap \in BOOLEAN
      /\ (savedGroups # NoFile => GroupList(savedGroups))
      /\ (savedKeys # NoFile => savedKeys \in Seq(Nat))
      /\ keysMade \in Nat
  BY DEF GroupTypes
<1> DEFINE Goal == /\ GroupList(groups') /\ keys' \in Seq(Nat) /\ saving' \in BOOLEAN
                   /\ mishap' \in BOOLEAN
                   /\ (savedGroups' # NoFile => GroupList(savedGroups'))
                   /\ (savedKeys' # NoFile => savedKeys' \in Seq(Nat))
                   /\ keysMade' \in Nat
<1> SUFFICES Goal
  BY DEF GroupTypes
<1>0. <<>> \in Seq(Nat)
  BY EmptySeq
<1>1. CASE ToggleGroups
  BY <1>t, <1>0, <1>1, ToggleGroupsDoes
<1>2. CASE SaveKeys
  BY <1>t, <1>2, SaveKeysDoes
<1>3. ASSUME NEW g \in DOMAIN groups, NEW mayWrite \in BOOLEAN, AddMember(g, mayWrite)
      PROVE  Goal
  <2>1. keysMade' \in Nat /\ Append(keys, keysMade') \in Seq(Nat)
    <3>1. keysMade' = keysMade + 1
      BY <1>3, AddMemberDoes
    <3>2. keysMade' \in Nat
      BY <1>t, <3>1
    <3> QED
      BY <1>t, <3>2, AppendProperties
  <2> QED
    BY <1>t, <1>3, <2>1, AddMemberDoes
<1>4. ASSUME NEW g \in DOMAIN groups, NEW mayWrite \in BOOLEAN, RemoveMember(g, mayWrite)
      PROVE  Goal
  BY <1>t, <1>4, RemoveMemberDoes
<1>5. ASSUME NEW g \in DOMAIN groups, NEW mayWrite \in BOOLEAN, LeaveGroup(g, mayWrite)
      PROVE  Goal
  BY <1>t, <1>5, LeaveGroupDoes
<1>6. CASE GroupScreenGone
  BY <1>t, <1>6 DEF GroupScreenGone
<1>7. CASE GroupsForgotten
  BY <1>t, <1>0, <1>7, NoGroupsList DEF GroupsForgotten
<1>8. CASE GroupsWiped
  BY <1>t, <1>0, <1>8, NoGroupsList DEF GroupsWiped
<1>9. CASE UNCHANGED groupVars
  BY <1>t, <1>9 DEF groupVars, groupMemory
<1>10. Goal
  <2>1. CASE GroupStep
    BY <2>1, <1>1, <1>2, <1>3, <1>4, <1>5, <1>6, <1>7, Zenon DEF GroupStep
  <2> QED
    BY <2>1, <1>8, <1>9, Zenon
<1> QED
  BY <1>10

(* A member's key is found where it was, and more keys change nothing.      *)
LEMMA BackedByMore ==
    ASSUME NEW list, GroupList(list), NEW store \in Seq(Nat), Backed(list, store), NEW key \in Nat
    PROVE  Backed(list, Append(store, key))
<1> SUFFICES ASSUME NEW g \in DOMAIN list, NEW m \in list[g], m.key # Legacy
             PROVE  m.slot < Len(Append(store, key)) /\ Append(store, key)[m.slot + 1] = m.key
  BY DEF Backed
<1>1. m.slot < Len(store) /\ store[m.slot + 1] = m.key
  BY DEF Backed
<1>2. m \in Member
  BY DEF GroupList
<1>3. m.slot \in Nat
  BY <1>2 DEF Member
<1>4. Len(store) \in Nat
  BY LenProperties
<1>5. m.slot + 1 \in 1 .. Len(store) /\ m.slot < Len(store) + 1
  BY <1>1, <1>3, <1>4
<1> QED
  BY <1>1, <1>5, AppendProperties

(* A new member's slot is the one its key gets. *)
LEMMA BackedByLast ==
    ASSUME NEW store \in Seq(Nat), NEW key \in Nat
    PROVE  /\ Len(store) < Len(Append(store, key))
           /\ Append(store, key)[Len(store) + 1] = key
  BY AppendProperties, LenProperties

(* A list that no store backs but the empty one holds earlier members only. *)
LEMMA BackedByNone ==
    ASSUME NEW list, GroupList(list), Backed(list, <<>>), NEW store
    PROVE  Backed(list, store)
<1>1. ASSUME NEW g \in DOMAIN list, NEW m \in list[g], m.key # Legacy PROVE FALSE
  <2>1. m \in Member /\ m.slot < Len(<<>>)
    BY <1>1 DEF Backed, GroupList
  <2> QED
    BY <2>1, EmptySeq DEF Member
<1> QED
  BY <1>1 DEF Backed

(* Every step keeps lists and stores apart only by a mishap. *)
LEMMA BackedStep ==
    ASSUME GroupTypes, BackedInv, GroupStep \/ GroupsWiped \/ UNCHANGED groupVars
    PROVE  BackedInv'
<1> SUFFICES ASSUME ~mishap'
             PROVE  /\ Backed(groups', keys')
                    /\ saving' => savedGroups' = groups'
                    /\ (~saving' /\ savedGroups' = NoFile) => savedKeys' = NoFile
                    /\ (~saving' /\ savedGroups' # NoFile) => Backed(savedGroups', Stored(savedKeys'))
  BY DEF BackedInv, FilesAgree, Stored
<1> DEFINE Goal == /\ Backed(groups', keys')
                   /\ saving' => savedGroups' = groups'
                   /\ (~saving' /\ savedGroups' = NoFile) => savedKeys' = NoFile
                   /\ (~saving' /\ savedGroups' # NoFile) => Backed(savedGroups', Stored(savedKeys'))
<1>t. /\ GroupList(groups) /\ keys \in Seq(Nat) /\ saving \in BOOLEAN /\ mishap \in BOOLEAN
      /\ (savedGroups # NoFile => GroupList(savedGroups))
      /\ (savedKeys # NoFile => savedKeys \in Seq(Nat))
      /\ keysMade \in Nat
  BY DEF GroupTypes
<1>b. ~mishap => /\ Backed(groups, keys)
                 /\ saving => savedGroups = groups
                 /\ (~saving /\ savedGroups = NoFile) => savedKeys = NoFile
                 /\ (~saving /\ savedGroups # NoFile) => Backed(savedGroups, Stored(savedKeys))
  BY DEF BackedInv, FilesAgree
<1>1. CASE ToggleGroups
  <2>1. /\ ~saving /\ ~mishap /\ UNCHANGED <<saving, savedGroups, savedKeys>>
        /\ groups' = IF savedGroups = NoFile THEN groups ELSE savedGroups
        /\ keys' = IF savedKeys = NoFile THEN keys ELSE savedKeys
    BY <1>1, ToggleGroupsDoes
  <2>2. CASE savedGroups = NoFile
    BY <1>b, <2>1, <2>2
  <2>3. CASE savedGroups # NoFile /\ savedKeys = NoFile
    <3>1. Backed(savedGroups, <<>>) /\ GroupList(savedGroups)
      BY <1>t, <1>b, <2>1, <2>3 DEF Stored
    <3>2. Backed(savedGroups, keys)
      BY <3>1, BackedByNone
    <3> QED
      BY <1>b, <2>1, <2>3, <3>2
  <2>4. CASE savedGroups # NoFile /\ savedKeys # NoFile
    BY <1>b, <2>1, <2>4 DEF Stored
  <2> QED
    BY <2>2, <2>3, <2>4
<1>2. CASE SaveKeys
  <2>1. /\ saving /\ saving' = FALSE /\ ~mishap
        /\ UNCHANGED <<groups, keys, savedGroups>> /\ savedKeys' = keys
    BY <1>2, SaveKeysDoes
  <2>2. savedGroups # NoFile
    <3>1. savedGroups = groups /\ groups \in [DOMAIN groups -> SUBSET Member]
          /\ DOMAIN groups \subseteq Groups
      BY <1>t, <1>b, <2>1 DEF GroupList
    <3> QED
      BY <3>1, GroupsAssumption
  <2>3. Stored(savedKeys') = keys
    BY <1>t, <2>1, GroupsAssumption DEF Stored
  <2> QED
    BY <1>b, <2>1, <2>2, <2>3
<1>3. ASSUME NEW g \in DOMAIN groups, NEW mayWrite \in BOOLEAN, AddMember(g, mayWrite)
      PROVE  Goal
  <2>1. /\ ~saving /\ ~mishap /\ UNCHANGED <<savedKeys, mishap>>
        /\ keysMade' = keysMade + 1 /\ keys' = Append(keys, keysMade')
        /\ GroupList(groups') /\ DOMAIN groups' = DOMAIN groups
        /\ \A h \in DOMAIN groups : \A m \in groups'[h] :
                  m \in groups[h] \/ m = [slot |-> Len(keys), key |-> keysMade']
        /\ \/ (saving' = FALSE /\ savedGroups' = savedGroups)
           \/ (saving' = TRUE /\ savedGroups' = groups')
    BY <1>3, AddMemberDoes
  <2>2. keysMade' \in Nat
    BY <1>t, <2>1
  <2>3. Backed(groups, keys')
    BY <1>t, <1>b, <2>1, <2>2, BackedByMore
  <2>4. Backed(groups', keys')
    <3> SUFFICES ASSUME NEW h \in DOMAIN groups', NEW m \in groups'[h], m.key # Legacy
                 PROVE  m.slot < Len(keys') /\ keys'[m.slot + 1] = m.key
      BY DEF Backed
    <3>1. CASE m \in groups[h]
      BY <2>1, <2>3, <3>1 DEF Backed
    <3>2. CASE m = [slot |-> Len(keys), key |-> keysMade']
      <4>1. m.slot = Len(keys) /\ m.key = keysMade'
        BY <3>2
      <4>2. Len(keys) < Len(keys') /\ keys'[Len(keys) + 1] = keysMade'
        BY <1>t, <2>1, <2>2, BackedByLast
      <4> QED
        BY <4>1, <4>2
    <3> QED
      BY <2>1, <3>1, <3>2
  <2> QED
    BY <1>b, <2>1, <2>4
<1>4. ASSUME /\ ~saving /\ UNCHANGED <<keys, savedKeys, keysMade, mishap>>
             /\ GroupList(groups') /\ DOMAIN groups' \subseteq DOMAIN groups
             /\ \A h \in DOMAIN groups' : groups'[h] \subseteq groups[h]
             /\ \/ (saving' = FALSE /\ savedGroups' = savedGroups)
                \/ (saving' = TRUE /\ savedGroups' = groups')
      PROVE  Goal
  <2>1. Backed(groups', keys')
    BY <1>b, <1>4 DEF Backed
  <2> QED
    BY <1>b, <1>4, <2>1
<1>5. ASSUME NEW g \in DOMAIN groups, NEW mayWrite \in BOOLEAN,
             RemoveMember(g, mayWrite) \/ LeaveGroup(g, mayWrite)
      PROVE  Goal
  BY <1>4, <1>5, RemoveMemberDoes, LeaveGroupDoes
<1>6. CASE GroupScreenGone
  BY <1>b, <1>6 DEF GroupScreenGone
<1>7. CASE GroupsForgotten
  <2>1. ~mishap /\ ~saving /\ groups' = NoGroups /\ saving' = FALSE
        /\ UNCHANGED <<savedGroups, savedKeys>>
    BY <1>7 DEF GroupsForgotten
  <2> QED
    BY <1>b, <2>1, NoGroupsList
<1>8. CASE GroupsWiped
  <2>1. ~saving' /\ groups' = NoGroups /\ savedGroups' = NoFile /\ savedKeys' = NoFile
    BY <1>8 DEF GroupsWiped
  <2> QED
    BY <2>1, NoGroupsList
<1>9. CASE UNCHANGED groupVars
  BY <1>b, <1>9 DEF groupVars, groupMemory
<1>10. Goal
  <2>1. CASE GroupStep
    BY <2>1, <1>1, <1>2, <1>3, <1>5, <1>6, <1>7, Zenon DEF GroupStep
  <2> QED
    BY <2>1, <1>8, <1>9, Zenon
<1> QED
  BY <1>10

(* Keys made before the last wipe stay away: a new key is a later one, and  *)
(* what the files give back was saved since.                               *)
LEMMA LaterStep ==
    ASSUME GroupTypes, LaterInv,
           \/ (GroupStep /\ UNCHANGED <<keysBefore, wipes>>)
           \/ (GroupsWiped /\ keysBefore' = keysMade)
           \/ UNCHANGED <<groupVars, keysBefore, wipes>>
    PROVE  LaterInv'
<1> DEFINE Goal == /\ keysBefore' \in Nat /\ keysBefore' <= keysMade'
                   /\ wipes' > 0 =>
                         /\ Later(keys', keysBefore') /\ LaterList(groups', keysBefore')
                         /\ savedKeys' # NoFile => Later(savedKeys', keysBefore')
                         /\ savedGroups' # NoFile => LaterList(savedGroups', keysBefore')
<1> SUFFICES Goal
  BY DEF LaterInv
<1>t. keys \in Seq(Nat) /\ keysMade \in Nat
  BY DEF GroupTypes
<1>l. /\ keysBefore \in Nat /\ keysBefore <= keysMade
      /\ wipes > 0 => /\ Later(keys, keysBefore) /\ LaterList(groups, keysBefore)
                      /\ savedKeys # NoFile => Later(savedKeys, keysBefore)
                      /\ savedGroups # NoFile => LaterList(savedGroups, keysBefore)
  BY DEF LaterInv
<1>0. \A n : Later(<<>>, n)
  BY EmptySeq DEF Later
<1>1. CASE ToggleGroups /\ UNCHANGED <<keysBefore, wipes>>
  BY <1>l, <1>0, <1>1, ToggleGroupsDoes
<1>2. CASE SaveKeys /\ UNCHANGED <<keysBefore, wipes>>
  BY <1>l, <1>2, SaveKeysDoes
<1>3. ASSUME NEW g \in DOMAIN groups, NEW mayWrite \in BOOLEAN, AddMember(g, mayWrite),
             UNCHANGED <<keysBefore, wipes>>
      PROVE  Goal
  <2>1. /\ savedKeys' = savedKeys
        /\ keysMade' = keysMade + 1 /\ keys' = Append(keys, keysMade')
        /\ DOMAIN groups' = DOMAIN groups
        /\ \A h \in DOMAIN groups : \A m \in groups'[h] :
                  m \in groups[h] \/ m = [slot |-> Len(keys), key |-> keysMade']
        /\ savedGroups' = savedGroups \/ savedGroups' = groups'
    BY <1>3, AddMemberDoes
  <2>2. keysMade' \in Nat /\ keysMade' > keysBefore
    BY <1>t, <1>l, <2>1
  <2>3. Later(keys, keysBefore) => Later(keys', keysBefore)
    <3> SUFFICES ASSUME Later(keys, keysBefore), NEW i \in DOMAIN keys'
                 PROVE  keys'[i] > keysBefore
      BY DEF Later
    <3>1. /\ keys' \in Seq(Nat) /\ Len(keys') = Len(keys) + 1
          /\ \A j \in 1 .. Len(keys) : keys'[j] = keys[j]
          /\ keys'[Len(keys) + 1] = keysMade'
      BY <1>t, <2>1, <2>2, AppendProperties
    <3>2. DOMAIN keys' = 1 .. Len(keys') /\ DOMAIN keys = 1 .. Len(keys) /\ Len(keys) \in Nat
      BY <1>t, <3>1, LenProperties
    <3>3. i \in 1 .. Len(keys) \/ i = Len(keys) + 1
      BY <3>1, <3>2
    <3>4. CASE i \in 1 .. Len(keys)
      BY <3>1, <3>2, <3>4 DEF Later
    <3>5. CASE i = Len(keys) + 1
      BY <2>2, <3>1, <3>5
    <3> QED
      BY <3>3, <3>4, <3>5
  <2>4. LaterList(groups, keysBefore) => LaterList(groups', keysBefore)
    BY <2>1, <2>2 DEF LaterList
  <2> QED
    BY <1>t, <1>l, <1>3, <2>1, <2>2, <2>3, <2>4
<1>4. ASSUME /\ UNCHANGED <<keys, savedKeys, keysMade, keysBefore, wipes>>
             /\ DOMAIN groups' \subseteq DOMAIN groups
             /\ \A h \in DOMAIN groups' : groups'[h] \subseteq groups[h]
             /\ savedGroups' = savedGroups \/ savedGroups' = groups'
      PROVE  Goal
  <2>1. LaterList(groups, keysBefore) => LaterList(groups', keysBefore)
    BY <1>4 DEF LaterList
  <2> QED
    BY <1>l, <1>4, <2>1
<1>5. ASSUME NEW g \in DOMAIN groups, NEW mayWrite \in BOOLEAN,
             RemoveMember(g, mayWrite) \/ LeaveGroup(g, mayWrite),
             UNCHANGED <<keysBefore, wipes>>
      PROVE  Goal
  BY <1>4, <1>5, RemoveMemberDoes, LeaveGroupDoes
<1>6. CASE GroupScreenGone /\ UNCHANGED <<keysBefore, wipes>>
  BY <1>l, <1>6 DEF GroupScreenGone
<1>7. CASE GroupsForgotten /\ UNCHANGED <<keysBefore, wipes>>
  <2>1. groups' = NoGroups /\ keys' = <<>> /\ UNCHANGED <<savedGroups, savedKeys, keysMade>>
    BY <1>7 DEF GroupsForgotten
  <2> QED
    BY <1>l, <1>0, <1>7, <2>1, NoGroupsList
<1>8. CASE GroupsWiped /\ keysBefore' = keysMade
  <2>1. /\ groups' = NoGroups /\ keys' = <<>> /\ keysMade' = keysMade
        /\ savedGroups' = NoFile /\ savedKeys' = NoFile
    BY <1>8 DEF GroupsWiped
  <2> QED
    BY <1>t, <1>0, <1>8, <2>1, NoGroupsList
<1>9. CASE UNCHANGED <<groupVars, keysBefore, wipes>>
  BY <1>l, <1>9 DEF groupVars, groupMemory
<1>10. CASE GroupStep /\ UNCHANGED <<keysBefore, wipes>>
  BY <1>10, <1>1, <1>2, <1>3, <1>5, <1>6, <1>7, Zenon DEF GroupStep
<1> QED
  BY <1>8, <1>9, <1>10, Zenon

(* The first state: a list of an earlier build needs no key. *)
LEMMA GroupInvInit ==
    Init => GroupInv
<1> SUFFICES ASSUME Init PROVE GroupInv
  OBVIOUS
<1>0. /\ groups = NoGroups /\ keys = <<>> /\ saving = FALSE /\ savedKeys = NoFile
      /\ keysMade = 0 /\ mishap = FALSE /\ keysBefore = 0 /\ wipes = 0
  BY DEF Init, GroupsInit, ChatInit
<1>1. savedGroups # NoFile => GroupList(savedGroups) /\ Backed(savedGroups, <<>>)
  <2> SUFFICES ASSUME savedGroups # NoFile
               PROVE  GroupList(savedGroups) /\ Backed(savedGroups, <<>>)
    OBVIOUS
  <2>1. PICK members \in {{}, {[slot |-> 0, key |-> Legacy]}} :
            savedGroups = [g \in Groups |-> members]
    BY DEF Init, GroupsInit
  <2>2. members \in SUBSET Member /\ \A m \in members : m.key = Legacy
    BY DEF Member, Legacy
  <2> QED
    BY <2>1, <2>2 DEF GroupList, Backed
<1>2. GroupTypes
  BY <1>0, <1>1, NoGroupsList, EmptySeq DEF GroupTypes
<1>3. BackedInv
  BY <1>0, <1>1, NoGroupsList DEF BackedInv, FilesAgree, Stored
<1>4. LaterInv
  BY <1>0 DEF LaterInv
<1> QED
  BY <1>2, <1>3, <1>4 DEF GroupInv

(* Every step keeps the groups' invariant. *)
LEMMA GroupInvStep ==
    GroupInv /\ [Next]_vars => GroupInv'
<1> SUFFICES ASSUME GroupInv, [Next]_vars PROVE GroupInv'
  OBVIOUS
<1>1. \/ (GroupStep /\ UNCHANGED <<keysBefore, wipes>>)
      \/ (GroupsWiped /\ keysBefore' = keysMade)
      \/ UNCHANGED <<groupVars, keysBefore, wipes>>
  BY NextForGroups
<1>2. GroupStep \/ GroupsWiped \/ UNCHANGED groupVars
  BY <1>1
<1>3. GroupTypes'
  BY <1>2, GroupTypesStep DEF GroupInv
<1>4. BackedInv'
  BY <1>2, BackedStep DEF GroupInv
<1>5. LaterInv'
  BY <1>1, LaterStep DEF GroupInv
<1> QED
  BY <1>3, <1>4, <1>5 DEF GroupInv

(* The groups' invariant holds throughout. *)
LEMMA GroupInvHolds == Spec => []GroupInv
  BY GroupInvInit, GroupInvStep, PTL DEF Spec

(* As long as no save was cut, no file unreadable and no store too large   *)
(* for its file, the slot of every member holds the key made for it,       *)
(* however members and groups come and go, whichever save was refused, and *)
(* however often the files are read over memory.                           *)
THEOREM MembersAlwaysKeepTheirKeys == Spec => []MembersKeepTheirKeys
<1>1. GroupInv => MembersKeepTheirKeys
  BY DEF GroupInv, BackedInv, Backed, MembersKeepTheirKeys
<1> QED
  BY <1>1, GroupInvHolds, PTL

(* After a panic wipe no line, waiting chunk, member or key made before it *)
(* is in memory or in a file.  The wipe leaves empty whatever a later save *)
(* could write, and ids, chunks and keys made since carry the new count.   *)
(* Texts made before it are gone too, unless an answer was on its way at   *)
(* the wipe: those the wipe does not stop.                                 *)
THEOREM WipeAlwaysForgets == Spec => []WipeForgets
<1>1. ChatInv /\ GroupInv => WipeForgets
  <2> SUFFICES ASSUME ChatInv, GroupInv PROVE WipeForgets
    OBVIOUS
  <2>1. ASSUME NEW e \in BookLines \cup SavedLines
        PROVE  e.epoch = wipes /\ (crossing \/ e.text.epoch = wipes)
    <3>1. /\ Sound(book.entries, wipes, crossing)
          /\ book.held # Null => Sound(book.held, wipes, crossing)
          /\ savedBook \notin {Null, Torn} => Sound(savedBook, wipes, crossing)
      BY DEF ChatInv, BookSound, FileSound
    <3>2. \A lines : Sound(lines, wipes, crossing)
                       => \A l \in Lines(lines) : Of(l, wipes, crossing)
      BY DEF Sound, Lines
    <3>3. \/ e \in Lines(book.entries)
          \/ (book.held # Null /\ e \in Lines(book.held))
          \/ (savedBook \notin {Null, Torn} /\ e \in Lines(savedBook))
      BY DEF BookLines, SavedLines
    <3> QED
      BY <3>1, <3>2, <3>3 DEF Of
  <2>2. ASSUME NEW i \in DOMAIN voiceQueue PROVE voiceQueue[i] = wipes
    <3>1. voiceQueue \in Seq({wipes})
      BY DEF ChatInv, VoiceSound
    <3>2. DOMAIN voiceQueue = 1 .. Len(voiceQueue)
      BY <3>1, LenProperties
    <3>3. voiceQueue[i] \in {wipes}
      BY <3>1, <3>2, ElementOfSeq
    <3> QED
      BY <3>3
  <2>3. ASSUME wipes > 0
        PROVE  /\ \A k \in Lines(keys) \cup KeysOf(groups) : k > keysBefore
               /\ savedKeys # NoFile => \A k \in Lines(savedKeys) : k > keysBefore
               /\ savedGroups # NoFile => \A k \in KeysOf(savedGroups) : k > keysBefore
    <3>1. /\ Later(keys, keysBefore) /\ LaterList(groups, keysBefore)
          /\ savedKeys # NoFile => Later(savedKeys, keysBefore)
          /\ savedGroups # NoFile => LaterList(savedGroups, keysBefore)
      BY <2>3 DEF GroupInv, LaterInv
    <3>2. \A store : Later(store, keysBefore) => \A k \in Lines(store) : k > keysBefore
      BY DEF Later, Lines
    <3>3. \A list : LaterList(list, keysBefore) => \A k \in KeysOf(list) : k > keysBefore
      BY DEF LaterList, KeysOf
    <3> QED
      BY <3>1, <3>2, <3>3
  <2> QED
    BY <2>1, <2>2, <2>3 DEF WipeForgets
<1> QED
  BY <1>1, ChatInvHolds, GroupInvHolds, PTL

-----------------------------------------------------------------------------
(* The two gates of the app read the device in different ways. *)

(* The reasons found are the posture's own, each for its cause. *)
LEMMA ReasonsFound ==
    ASSUME NEW d
    PROVE  LET s == signals_from_kotlin_payload(d)
               found == posture_reasons(s)
           IN  /\ found \subseteq {"Debugger", "Rooted", "Emulator", "DebugBuild",
                                   "InsecureProps", "AirplaneMode"}
               /\ \A r \in found : Finds(s)[r]
               /\ "AirplaneMode" \in found <=> d.airplane
<1> DEFINE s == signals_from_kotlin_payload(d)
<1>1. DOMAIN Finds(s) = {"Debugger", "Rooted", "Emulator", "DebugBuild",
                         "InsecureProps", "AirplaneMode"}
  BY DEF Finds
<1>2. Finds(s)["AirplaneMode"] = d.airplane
  BY Zenon DEF Finds, signals_from_kotlin_payload
<1> QED
  BY <1>1, <1>2, Zenon DEF posture_reasons

(* A device that passes strict mode shows the posture nothing worse than airplane mode,     *)
(* unless a Build field spells an emulator's name in letters that Kotlin does not look for  *)
(* (device_posture.rs folds the case, MainActivity.kt does not).                            *)
THEOREM StrictIsNotLow ==
    ASSUME NEW d \in Devices, IsStrictModeEnabled(d),
           "emulator in other letters" \notin d.build
    PROVE  evaluate_posture(signals_from_kotlin_payload(d)) =
               IF d.airplane THEN "Degraded" ELSE "High"
<1> DEFINE s == signals_from_kotlin_payload(d)
           found == posture_reasons(s)
<1>1. found \subseteq {"AirplaneMode"}
  <2> SUFFICES ASSUME NEW r \in found PROVE r = "AirplaneMode"
    OBVIOUS
  <2>k. /\ ~d.debugger /\ ~d.debuggable
        /\ d.build \cap {"emulator", "test-keys"} = {} /\ d.type = "user"
        /\ d.props["ro.debuggable"] # "1" /\ d.props["ro.secure"] # "0"
        /\ d.props["ro.kernel.qemu"] # "1"
        /\ d.paths \cap SuPaths = {}
    BY DEF IsStrictModeEnabled, KotlinOk
  <2>1. r \in {"Debugger", "Rooted", "Emulator", "DebugBuild", "InsecureProps", "AirplaneMode"}
        /\ Finds(s)[r]
    BY ReasonsFound
  <2>2. ~Finds(s)["Debugger"]
    BY <2>k, Zenon DEF Finds, signals_from_kotlin_payload
  <2>3. ~Finds(s)["Rooted"]
    BY <2>k, Zenon DEF Finds, signals_from_kotlin_payload
  <2>4. ~Finds(s)["Emulator"]
    <3>1. d.build \cap {"emulator", "emulator in other letters"} = {}
      BY <2>k
    <3> QED
      BY <2>k, <3>1, Zenon DEF Finds, signals_from_kotlin_payload
  <2>5. ~Finds(s)["DebugBuild"]
    <3>1. "test-keys" \notin d.build
      BY <2>k
    <3> QED
      BY <2>k, <3>1, Zenon DEF Finds, signals_from_kotlin_payload
  <2>6. ~Finds(s)["InsecureProps"]
    BY <2>k, Zenon DEF Finds, signals_from_kotlin_payload
  <2> QED
    BY <2>1, <2>2, <2>3, <2>4, <2>5, <2>6, Zenon
<1>2. "AirplaneMode" \in found <=> d.airplane
  BY ReasonsFound
<1>3. found = IF d.airplane THEN {"AirplaneMode"} ELSE {}
  BY <1>1, <1>2
<1> HIDE DEF found
<1>4. CASE d.airplane
  <2>1. found = {"AirplaneMode"} /\ found # {}
    BY <1>3, <1>4
  <2> QED
    BY <1>4, <2>1 DEF evaluate_posture, found
<1>5. CASE ~d.airplane
  <2>1. found = {}
    BY <1>3, <1>5
  <2> QED
    BY <1>5, <2>1 DEF evaluate_posture, found
<1> QED
  BY <1>4, <1>5

(* So nothing the posture gates is allowed in airplane mode, and on such a device the       *)
(* voice button works exactly when strict mode passes and airplane mode is off.             *)
THEOREM VoiceNeedsBoth ==
    ASSUME NEW d \in Devices, "emulator in other letters" \notin d.build
    PROVE  VoiceAllowed(d) <=> IsStrictModeEnabled(d) /\ ~d.airplane
<1>1. CASE IsStrictModeEnabled(d)
  <2>1. evaluate_posture(signals_from_kotlin_payload(d)) =
            IF d.airplane THEN "Degraded" ELSE "High"
    BY <1>1, StrictIsNotLow
  <2>2. IsActionAllowedForSignals(d, "voice") <=> ~d.airplane
    BY <2>1 DEF IsActionAllowedForSignals, action_allowed, RiskyActions
  <2> QED
    BY <1>1, <2>2 DEF VoiceAllowed
<1>2. CASE ~IsStrictModeEnabled(d)
  BY <1>2 DEF VoiceAllowed
<1> QED
  BY <1>1, <1>2

-----------------------------------------------------------------------------
(* The profile *)

(* What an unlock reads of the two files there may be, and which of them are the file that   *)
(* was written last.                                                                          *)
View(f) == DeserializeBlob(f)
Present == {stateFile, copy} \ {None}
LastWritten == {f \in Present : View(f).id = last}

(* No key of this chain from this one on is used. *)
Fresh(key) == key # None => \A k \in sealed : k.gen = key.gen => k.n < key.n

(* A session is open on its two screens, and it has a file; what a restore holds is what its      *)
(* screen says.                                                                               *)
Places ==
    /\ session # None <=> screen \in {"main", "exportPass"}
    /\ (session # None \/ screen = "opening") => stateFile # None
    /\ screen = "restoreFilePass" => restoring \in Blob
    /\ screen \in {"restoreProfilePass", "opening"} =>
           restoring \in StateRecord /\ restoring.key = None
    /\ stateFile = None => latest = 0

(* Ids grow, and the mark is the last one once it is written. *)
Marks ==
    /\ marking # None => marking = last
    /\ ~unmarked => markFile \in {None, last}
    /\ last \in (0..saves) \cup {None}
    /\ \A f \in Present : View(f).id \in (0..saves) \cup {None}

(* The next key of a session, and of the file written last, is past every key used. *)
Keys ==
    /\ \A k \in sealed : k.gen <= saves
    /\ session # None => (session.key # None => session.key.gen <= saves + 1)
    /\ \A f \in Present : View(f).key # None => View(f).key.gen <= saves
    /\ ~older => /\ session # None => Fresh(session.key)
                 /\ \A f \in LastWritten : Fresh(View(f).key)
    /\ screen = "opening" => last # None /\ \A f \in LastWritten : View(f).key = None

(* A copy of the file written last is of the file in place. *)
CopyOfThis == (copy \in LastWritten /\ (~lost \/ screen = "opening")) => copy = stateFile

(* What is known is what the session, or the file written last, has recorded. *)
Records ==
    /\ CopyOfThis
    /\ (~older /\ ~lost /\ session # None) =>
          /\ known.settings \in {None, session.settings}
          /\ known.binary \in {None, session.digest}
    /\ (~older /\ ~lost /\ session = None /\ stateFile \in LastWritten) =>
          /\ known.settings \in {None, View(stateFile).settings}
          /\ known.binary \in {None, View(stateFile).digest}
    /\ (stateFile = None /\ ~lost) => known.settings = None /\ known.binary = None

(* The clock marks of the session and of the file written last are not behind the clock of    *)
(* any save they follow.                                                                      *)
Clocks ==
    /\ \A f \in LastWritten : View(f).mark >= RoundedDown(savedAt)
    /\ ~older => /\ session # None => session.mark >= RoundedDown(latest)
                 /\ \A f \in LastWritten : View(f).mark >= RoundedDown(latest)

-----------------------------------------------------------------------------
(* What is compared, recorded and saved. *)
LEMMA RoundedDownTyped ==
    ASSUME NEW t \in Nat
    PROVE  RoundedDown(t) \in Nat /\ (t = 0 => RoundedDown(t) = 0)
<1>1. PICK S : S = CLOCK_MARK_STEP_SECS /\ S \in Nat \ {0}
  BY ProfileAssumption
<1>2. t % S \in Nat /\ t % S <= t
  BY <1>1
<1> QED
  BY <1>1, <1>2 DEF RoundedDown

LEMMA ViewTyped ==
    ASSUME NEW f \in Blob
    PROVE  View(f) \in StateRecord
<1>1. PICK v \in 1..BLOB_VERSION, s \in StateRecord : f = [version |-> v, body |-> s]
  BY DEF Blob
<1>2. f.version = v /\ f.body = s
  BY <1>1
<1> QED
  BY <1>2 DEF View, DeserializeBlob, StateRecord, BLOB_VERSION

(* A blob of this version shows all that was saved. *)
LEMMA SerializedView ==
    ASSUME ProfileTypeOK, NEW s \in StateRecord, NEW id \in Nat \cup {None}
    PROVE  LET f == SerializeBlob(s, id)
           IN  /\ f \in Blob /\ View(f).id = id /\ View(f).key = s.key
               /\ View(f).digest = s.digest /\ View(f).settings = s.settings
               /\ View(f).mark >= s.mark /\ View(f).mark >= RoundedDown(clock)
<1>1. clock \in Nat /\ RoundedDown(clock) \in Nat
  BY ProfileAssumption, RoundedDownTyped DEF ProfileTypeOK
<1>2. PICK m \in Nat : m = AdvanceClockMark(s.mark, clock) /\ m >= s.mark /\ m >= RoundedDown(clock)
  BY <1>1 DEF AdvanceClockMark, StateRecord
<1>3. PICK b : b = [s EXCEPT !.id = id, !.mark = m]
  OBVIOUS
<1>4. /\ b \in StateRecord
      /\ b.id = id /\ b.mark = m /\ b.key = s.key /\ b.digest = s.digest /\ b.settings = s.settings
  BY <1>3 DEF StateRecord
<1>5. PICK f : f = [version |-> 13, body |-> b]
  OBVIOUS
<1>6. f = SerializeBlob(s, id)
  BY <1>2, <1>3, <1>5 DEF SerializeBlob, BLOB_VERSION
<1>7. f \in Blob /\ f.version = 13 /\ f.body = b
  BY <1>4, <1>5 DEF Blob, BLOB_VERSION
<1>8. /\ View(f).id = id /\ View(f).key = s.key /\ View(f).digest = s.digest
      /\ View(f).settings = s.settings /\ View(f).mark = m
  BY <1>4, <1>7 DEF View, DeserializeBlob
<1> QED
  BY <1>2, <1>6, <1>7, <1>8

(* What a save that works does. *)
Written(s) ==
    /\ saves' = saves + 1 /\ saves' \in 0..MaxSaves /\ mishaps' = mishaps
    /\ marking' = saves' /\ last' = saves' /\ unmarked' = TRUE /\ savedAt' = clock
    /\ stateFile' \in Blob /\ stateFile' # None
    /\ View(stateFile').id = saves' /\ View(stateFile').key = s.key
    /\ View(stateFile').digest = s.digest /\ View(stateFile').settings = s.settings
    /\ View(stateFile').mark >= s.mark /\ View(stateFile').mark >= RoundedDown(clock)

LEMMA StateWrittenMeans ==
    ASSUME ProfileTypeOK, NEW s \in StateRecord, StateWritten(s)
    PROVE  Written(s)
<1>1. PICK f, id : f = stateFile' /\ id = saves' /\ f = SerializeBlob(s, id)
  BY DEF StateWritten
<1>2. saves' = saves + 1 /\ saves' \in 0..MaxSaves /\ id \in Nat
  BY <1>1, ProfileAssumption DEF StateWritten, ProfileTypeOK
<1>3. /\ f \in Blob /\ View(f).id = id /\ View(f).key = s.key
      /\ View(f).digest = s.digest /\ View(f).settings = s.settings
      /\ View(f).mark >= s.mark /\ View(f).mark >= RoundedDown(clock)
  BY <1>1, <1>2, SerializedView
<1>4. f # None
  BY <1>3, ProfileAssumption
<1>5. View(f) = View(stateFile')
  BY <1>1, Zenon
<1>6. mishaps' = mishaps
  BY DEF StateWritten
<1> QED
  BY <1>1, <1>2, <1>3, <1>4, <1>5, <1>6 DEF StateWritten, Written

LEMMA SaveMeans ==
    ASSUME ProfileTypeOK, NEW s \in StateRecord, Save(s)
    PROVE  \/ Written(s)
           \/ /\ UNCHANGED <<saves, stateFile, marking, last, unmarked, savedAt>>
              /\ mishaps' \in 0..MaxMishaps
<1>1. CASE StateWritten(s)
  BY <1>1, StateWrittenMeans
<1>2. CASE SaveFails
  BY <1>2, ProfileAssumption DEF SaveFails, Mishap, ProfileTypeOK
<1> QED
  BY <1>1, <1>2 DEF Save

(* What is recorded at an unlock changes no key, no id and no clock mark. *)
LEMMA StampedMeans ==
    ASSUME ProfileTypeOK, NEW s \in StateRecord
    PROVE  /\ Stamped(s) \in StateRecord
           /\ Stamped(s).key = s.key /\ Stamped(s).mark = s.mark
           /\ s.settings # None => Stamped(s).settings = s.settings
           /\ s.digest # None => Stamped(s).digest = s.digest
<1>1. running \in Binaries \cup {None} /\ settingsFile \in Settings
  BY DEF ProfileTypeOK
<1>2. PICK d \in Binaries \cup {None} :
         /\ d = IF BinaryStatus(s.digest) = "unrecorded" THEN running ELSE s.digest
         /\ s.digest # None => d = s.digest
  BY <1>1 DEF BinaryStatus, StateRecord
<1>3. PICK w \in Settings \cup {None} :
         /\ w = IF s.settings = None THEN settingsFile ELSE s.settings
         /\ s.settings # None => w = s.settings
  BY <1>1 DEF StateRecord
<1>4. Stamped(s) = [s EXCEPT !.id = None, !.digest = d, !.settings = w]
  BY <1>2, <1>3 DEF Stamped, StateRecord
<1> QED
  BY <1>2, <1>3, <1>4 DEF StateRecord

LEMMA ChecksTyped ==
    ASSUME ProfileTypeOK, NEW s \in StateRecord
    PROVE  Checks(s) \in [clock : BOOLEAN, binary : BOOLEAN, settings : BOOLEAN,
                          mark : {"unrecorded", "ok", "mark-missing", "older-copy"}]
<1>1. SaveMarkStatus(s.id, markFile) \in {"unrecorded", "ok", "mark-missing", "older-copy"}
  BY DEF SaveMarkStatus
<1> QED
  BY <1>1 DEF Checks, ClockRollback, ChangesSince

-----------------------------------------------------------------------------
(* Types and places *)

(* The records of a session after each command are records. *)
LEMMA SessionTyped ==
    ASSUME ProfileTypeOK, session # None
    PROVE  /\ session \in StateRecord
           /\ \A w \in Settings : [session EXCEPT !.settings = w] \in StateRecord
           /\ \A b \in Binaries : [session EXCEPT !.digest = b] \in StateRecord
           /\ \A m \in Nat : [session EXCEPT !.mark = m] \in StateRecord
           /\ \A k \in Key : [session EXCEPT !.key = k] \in StateRecord
           /\ session.key # None => [session EXCEPT !.key.n = @ + 1] \in StateRecord
<1>1. PICK s \in StateRecord : s = session
  BY DEF ProfileTypeOK
<1>2. ASSUME s.key # None PROVE [s EXCEPT !.key.n = @ + 1] \in StateRecord
  <2>1. PICK g \in Nat, n \in Nat : s.key = [gen |-> g, n |-> n]
    BY <1>2 DEF StateRecord, Key
  <2> QED
    BY <2>1 DEF StateRecord, Key
<1> QED
  BY <1>1, <1>2 DEF StateRecord

(* What a backup holds, and what is opened of it, has no ratchets. *)
LEMMA BackupViewMeans ==
    ASSUME NEW s \in StateRecord
    PROVE  /\ BackupView(s) \in StateRecord /\ BackupView(s).key = None
           /\ BackupView(s).digest = s.digest /\ BackupView(s).mark = s.mark
           /\ BackupView(s).settings = None
BY DEF BackupView, StateRecord

LEMMA TypeInit == ProfileInit => ProfileTypeOK /\ Places
<1> SUFFICES ASSUME ProfileInit PROVE ProfileTypeOK /\ Places
  OBVIOUS
<1>1. clock \in Times /\ Off \in Settings /\ saves \in 0..MaxSaves /\ mishaps \in 0..MaxMishaps
  BY ProfileAssumption DEF ProfileInit
<1>0. /\ unmarked \in BOOLEAN /\ older \in BOOLEAN /\ lost \in BOOLEAN
      /\ warn \in [clock : BOOLEAN, binary : BOOLEAN, settings : BOOLEAN,
                  mark : {"unrecorded", "ok", "mark-missing", "older-copy"}]
  BY DEF ProfileInit, NoWarning
<1>2. CASE stateFile = None /\ KnownFrom(None)
  BY <1>0, <1>1, <1>2 DEF ProfileInit, KnownFrom, ProfileTypeOK, Places, RestoreScreens
<1>3. ASSUME NEW v \in OldVersions, NEW b \in Binaries,
             stateFile = [version |-> v, body |-> SavedByOldBuild(b)],
             KnownFrom(DeserializeBlob(stateFile))
      PROVE  ProfileTypeOK /\ Places
  <2>1. SavedByOldBuild(b) \in StateRecord
    BY ProfileAssumption DEF SavedByOldBuild, StateRecord, Key
  <2>2. stateFile \in Blob /\ stateFile # None
    BY <1>3, <2>1, ProfileAssumption DEF Blob, BLOB_VERSION
  <2>3. PICK s \in StateRecord : s = DeserializeBlob(stateFile)
    BY <2>2, ViewTyped DEF View
  <2>4. /\ known \in [settings : Settings \cup {None}, binary : Binaries \cup {None}]
        /\ markFile \in Nat \cup {None} /\ last \in Nat \cup {None}
    BY <1>3, <2>3 DEF KnownFrom, StateRecord
  <2> QED
    BY <1>0, <1>1, <2>2, <2>4 DEF ProfileInit, ProfileTypeOK, Places, RestoreScreens
<1> QED
  BY <1>2, <1>3 DEF ProfileInit

(* What a save of a session leaves is typed. *)
LEMMA SaveTyped ==
    ASSUME ProfileTypeOK, NEW s \in StateRecord, Save(s)
    PROVE  /\ stateFile' \in Blob \cup {None} /\ (stateFile # None => stateFile' # None)
           /\ saves' \in 0..MaxSaves /\ mishaps' \in 0..MaxMishaps
           /\ last' \in Nat \cup {None} /\ marking' \in Nat \cup {None}
           /\ unmarked' \in BOOLEAN /\ savedAt' \in Nat
           /\ stateFile' = None => stateFile = None
<1>1. CASE Written(s)
  BY <1>1, ProfileAssumption DEF Written, ProfileTypeOK
<1>2. CASE UNCHANGED <<saves, stateFile, marking, last, unmarked, savedAt>>
           /\ mishaps' \in 0..MaxMishaps
  BY <1>2 DEF ProfileTypeOK
<1> QED
  BY <1>1, <1>2, SaveMeans

LEMMA EndTyped ==
    ASSUME ProfileTypeOK, savedAt' \in Nat, NEW f, SessionEnds(f)
    PROVE  lost' \in BOOLEAN /\ latest' \in Nat /\ (f = None => latest' = 0)
BY DEF SessionEnds, ProfileTypeOK

(* The commands that change the session and save it. *)
LEMMA CommandTyped ==
    ASSUME ProfileTypeOK, Places, InSession, NEW s \in StateRecord, SaveSession(s),
           settingsFile' \in Settings, warn' \in [clock : BOOLEAN, binary : BOOLEAN,
              settings : BOOLEAN, mark : {"unrecorded", "ok", "mark-missing", "older-copy"}],
           sealed' \subseteq Key, UNCHANGED <<older, lost, latest>>,
           known' \in [settings : Settings \cup {None}, binary : Binaries \cup {None}]
    PROVE  ProfileTypeOK' /\ Places'
<1>1. s # None
  BY ProfileAssumption
<1>2. Save(s)
  BY DEF SaveSession
<1> QED
  BY <1>1, <1>2, SaveTyped DEF SaveSession, ProfileTypeOK, Places, InSession

LEMMA TypeStep ==
    ASSUME ProfileTypeOK, Places, [ProfileNext]_profileVars
    PROVE  ProfileTypeOK' /\ Places'
<1> USE DEF files, program, history
<1>1. CASE MarkWritten
  <2>1. unmarked' \in BOOLEAN
    BY <1>1 DEF MarkWritten
  <2> QED
    BY <1>1, <2>1 DEF MarkWritten, ProfileTypeOK, Places
<1>2. CASE MarkFails
  BY <1>2, ProfileAssumption DEF MarkFails, Mishap, ProfileTypeOK, Places
<1>3. CASE Start
  BY <1>3, ProfileAssumption DEF Start, Mishap, ProfileTypeOK, Places, RestoreScreens
<1>4. CASE TryUnlock
  <2>1. PICK l \in StateRecord : l = DeserializeBlob(stateFile)
    BY <1>4, ViewTyped DEF View, TryUnlock, StateExists, ProfileTypeOK
  <2>2. PICK s \in StateRecord : s = Stamped(l) /\ s # None
    BY StampedMeans, ProfileAssumption
  <2>3. Save(s) /\ session' = s /\ warn' = Checks(l)
    BY <1>4, <2>1, <2>2 DEF TryUnlock
  <2>4. known' \in [settings : Settings \cup {None}, binary : Binaries \cup {None}]
    <3>1. known' = [settings |-> IF l.settings = None THEN s.settings ELSE known.settings,
                    binary |-> IF l.digest = None THEN s.digest ELSE known.binary]
      BY <1>4, <2>1, <2>2 DEF TryUnlock
    <3> QED
      BY <3>1 DEF StateRecord, ProfileTypeOK
  <2>5. older' \in BOOLEAN
    BY <1>4 DEF TryUnlock, ProfileTypeOK
  <2> QED
    BY <1>4, <2>2, <2>3, <2>4, <2>5, SaveTyped, ChecksTyped
       DEF TryUnlock, ProfileTypeOK, Places, StateExists
<1>5. CASE LockUi
  <2>1. session # None /\ session \in StateRecord
    BY <1>5 DEF LockUi, Places, ProfileTypeOK
  <2>2. Save(session) /\ SessionEnds(stateFile')
    BY <1>5 DEF LockUi
  <2> QED
    BY <1>5, <2>1, <2>2, SaveTyped, EndTyped
       DEF LockUi, ProfileTypeOK, Places, NoWarning, RestoreScreens
<1>6. CASE Stop
  <2>1. lost' \in BOOLEAN /\ latest' \in Nat /\ (stateFile = None => latest' = 0)
    <3>1. savedAt' \in Nat
      BY <1>6 DEF Stop, ProfileTypeOK
    <3> QED
      BY <1>6, <3>1, EndTyped DEF Stop, ProfileTypeOK, Places
  <2> QED
    BY <1>6, <2>1, ProfileAssumption
       DEF Stop, Mishap, ProfileTypeOK, Places, NoWarning, RestoreScreens
<1>7. CASE CreateSession
  <2>1. PICK e \in StateRecord :
           e = [id |-> None, mark |-> 0, digest |-> None, settings |-> None, key |-> None]
    BY DEF StateRecord
  <2>2. PICK s \in StateRecord : s = Stamped(e) /\ s # None
    BY StampedMeans, ProfileAssumption
  <2>3. StateWritten(s) /\ session' = s /\ NewProfile(s)
    BY <1>7, <2>1, <2>2 DEF CreateSession
  <2>4. Written(s)
    BY <2>3, StateWrittenMeans
  <2>5. known' \in [settings : Settings \cup {None}, binary : Binaries \cup {None}]
    BY <2>3 DEF NewProfile, StateRecord
  <2>6. /\ unmarked' \in BOOLEAN /\ older' \in BOOLEAN /\ lost' \in BOOLEAN
        /\ warn' \in [clock : BOOLEAN, binary : BOOLEAN, settings : BOOLEAN,
                     mark : {"unrecorded", "ok", "mark-missing", "older-copy"}]
    BY <1>7, <2>3, <2>4 DEF CreateSession, NewProfile, Written, NoWarning
  <2>7. saves' \in 0..MaxSaves /\ savedAt' \in Nat /\ saves' \in Nat
    BY <2>4, ProfileAssumption DEF Written, ProfileTypeOK
  <2> QED
    BY <1>7, <2>2, <2>3, <2>4, <2>5, <2>6, <2>7
       DEF CreateSession, NewProfile, Written, ProfileTypeOK, Places
<1>8. CASE Invite
  <2>1. PICK k \in Key : k = [gen |-> saves + 1, n |-> 0]
    <3>1. saves + 1 \in Nat
      BY ProfileAssumption DEF ProfileTypeOK
    <3> QED
      BY <3>1 DEF Key
  <2>2. PICK s \in StateRecord : s = [session EXCEPT !.key = k]
    BY <1>8, <2>1, SessionTyped DEF Invite, InSession, Places
  <2>3. SaveSession(s)
    BY <1>8, <2>1, <2>2 DEF Invite
  <2> QED
    BY <1>8, <2>3, CommandTyped DEF Invite, ProfileTypeOK
<1>9. CASE SendText
  <2>1. PICK s \in StateRecord : s = [session EXCEPT !.key.n = @ + 1]
    BY <1>9, SessionTyped DEF SendText, InSession, Places
  <2>2. SaveSession(s)
    BY <1>9, <2>1 DEF SendText
  <2>3. session.key \in Key
    BY <1>9, SessionTyped DEF SendText, InSession, Places, StateRecord
  <2> QED
    BY <1>9, <2>2, <2>3, CommandTyped DEF SendText, ProfileTypeOK
<1>10. ASSUME NEW v \in Settings, SetWipeSettings(v)
       PROVE  ProfileTypeOK' /\ Places'
  <2>1. PICK s \in StateRecord : s = [session EXCEPT !.settings = settingsFile']
    BY <1>10, SessionTyped DEF SetWipeSettings, InSession, Places
  <2>2. SaveSession(s)
    BY <1>10, <2>1 DEF SetWipeSettings, RecordWipeSettings
  <2> QED
    BY <1>10, <2>2, CommandTyped DEF SetWipeSettings, RecordWipeSettings, ProfileTypeOK
<1>11. CASE WipeSettingsAccept
  <2>1. PICK s \in StateRecord : s = [session EXCEPT !.settings = settingsFile']
    BY <1>11, SessionTyped DEF WipeSettingsAccept, InSession, Places, ProfileTypeOK
  <2>2. SaveSession(s)
    BY <1>11, <2>1 DEF WipeSettingsAccept, RecordWipeSettings
  <2> QED
    BY <1>11, <2>2, CommandTyped DEF WipeSettingsAccept, RecordWipeSettings, ProfileTypeOK
<1>12. CASE BinaryAccept
  <2>1. running \in Binaries
    BY <1>12 DEF BinaryAccept, ProfileTypeOK
  <2>2. PICK s \in StateRecord : s = [session EXCEPT !.digest = running]
    BY <1>12, <2>1, SessionTyped DEF BinaryAccept, InSession, Places
  <2>3. SaveSession(s)
    BY <1>12, <2>2 DEF BinaryAccept
  <2> QED
    BY <1>12, <2>1, <2>3, CommandTyped DEF BinaryAccept, ProfileTypeOK
<1>13. CASE ClockReset
  <2>1. clock \in Nat
    BY ProfileAssumption DEF ProfileTypeOK
  <2>2. PICK s \in StateRecord, z \in StateRecord :
           s = [session EXCEPT !.mark = clock] /\ z = [session EXCEPT !.mark = 0]
    BY <1>13, <2>1, SessionTyped DEF ClockReset, InSession, Places
  <2>3. session' = s /\ s # None /\ Save(z)
    BY <1>13, <2>2, ProfileAssumption DEF ClockReset
  <2> QED
    <3>1. /\ warn' \in [clock : BOOLEAN, binary : BOOLEAN, settings : BOOLEAN,
                       mark : {"unrecorded", "ok", "mark-missing", "older-copy"}]
          /\ older' \in BOOLEAN /\ lost' \in BOOLEAN
      BY <1>13 DEF ClockReset, ProfileTypeOK
    <3> QED
      BY <1>13, <2>2, <2>3, <3>1, SaveTyped DEF ClockReset, InSession, ProfileTypeOK, Places
<1>14. CASE Wipe
  <2>1. lost' \in BOOLEAN /\ latest' = 0
    BY <1>14 DEF Wipe, SessionEnds, ProfileTypeOK
  <2> QED
    BY <1>14, <2>1, ProfileAssumption
       DEF Wipe, ProfileTypeOK, Places, NoWarning, RestoreScreens
<1>15. CASE HandleBackup
  BY <1>15 DEF HandleBackup, EntryOnly, InSession, ProfileTypeOK, Places, RestoreScreens
<1>16. CASE SubmitBackupExport
  <2>1. backup' \in Blob \cup {None}
    <3>1. CASE backup' = ExportBackup(session)
      <4>1. PICK s \in StateRecord : s = BackupView(session)
        BY <1>16, SessionTyped, BackupViewMeans DEF SubmitBackupExport, Places
      <4>2. SerializeBlob(s, None) \in Blob
        BY SerializedView
      <4> QED
        BY <3>1, <4>1, <4>2 DEF ExportBackup
    <3> QED
      BY <1>16, <3>1 DEF SubmitBackupExport, ProfileTypeOK
  <2> QED
    BY <1>16, <2>1 DEF SubmitBackupExport, EntryOnly, ProfileTypeOK, Places, RestoreScreens
<1>17. CASE CancelBackupEntry
  BY <1>17 DEF CancelBackupEntry, EntryOnly, ProfileTypeOK, Places, RestoreScreens
<1>18. CASE BeginRestore
  BY <1>18 DEF BeginRestore, EntryOnly, ProfileTypeOK, Places, RestoreScreens
<1>19. CASE SubmitRestorePath
  BY <1>19 DEF SubmitRestorePath, EntryOnly, ProfileTypeOK, Places, RestoreScreens
<1>20. CASE SubmitRestoreFilePass
  <2>1. PICK s \in StateRecord : s = DeserializeBlob(restoring)
    BY <1>20, ViewTyped DEF View, SubmitRestoreFilePass, Places
  <2>2. restoring' \in StateRecord /\ restoring'.key = None
    BY <1>20, <2>1, BackupViewMeans DEF SubmitRestoreFilePass, OpenBackup
  <2> QED
    BY <1>20, <2>2 DEF SubmitRestoreFilePass, EntryOnly, ProfileTypeOK, Places, RestoreScreens
<1>21. CASE SubmitRestoreProfilePass
  <2>1. restoring \in StateRecord /\ restoring.key = None
    BY <1>21 DEF SubmitRestoreProfilePass, Places
  <2>2. CASE InstallFreshProfile(restoring) /\ screen' = "opening" /\ UNCHANGED restoring
    <3>1. PICK s \in StateRecord : s = BackupView(restoring)
      BY <2>1, BackupViewMeans
    <3>2. Save(s) /\ stateFile' # None
      <4>1. StateWritten(s)
        BY <2>2, <3>1 DEF InstallFreshProfile
      <4>2. Written(s)
        BY <4>1, StateWrittenMeans
      <4> QED
        BY <4>1, <4>2 DEF Save, Written
    <3> QED
      BY <1>21, <2>1, <2>2, <3>1, <3>2, SaveTyped
         DEF SubmitRestoreProfilePass, ProfileTypeOK, Places, RestoreScreens
  <2>3. CASE SaveFails /\ screen' = "create" /\ restoring' = None
    BY <1>21, <2>3, ProfileAssumption
       DEF SubmitRestoreProfilePass, SaveFails, Mishap, ProfileTypeOK, Places, RestoreScreens
  <2> QED
    BY <1>21, <2>2, <2>3 DEF SubmitRestoreProfilePass
<1>22. CASE RestoreFindsProfile
  BY <1>22 DEF RestoreFindsProfile, EntryOnly, ProfileTypeOK, Places, RestoreScreens
<1>23. CASE OpenRestoredSession
  <2>1. restoring \in StateRecord
    BY <1>23 DEF OpenRestoredSession, Places
  <2>2. PICK s \in StateRecord : s = Stamped(restoring) /\ s # None
    BY <2>1, StampedMeans, ProfileAssumption
  <2>3. Save(s) /\ session' = s /\ NewProfile(s)
    BY <1>23, <2>2 DEF OpenRestoredSession
  <2>4. known' \in [settings : Settings \cup {None}, binary : Binaries \cup {None}]
    BY <2>3 DEF NewProfile, StateRecord
  <2>5. PICK c : c = Checks(restoring)
    OBVIOUS
  <2>6. warn' \in [clock : BOOLEAN, binary : BOOLEAN, settings : BOOLEAN,
                   mark : {"unrecorded", "ok", "mark-missing", "older-copy"}]
    BY <1>23, <2>1, <2>5, ChecksTyped DEF OpenRestoredSession
  <2>7. older' \in BOOLEAN /\ lost' \in BOOLEAN
    BY <2>3 DEF NewProfile
  <2>8. /\ stateFile' \in Blob \cup {None} /\ (stateFile' = None => stateFile = None)
        /\ saves' \in 0..MaxSaves /\ mishaps' \in 0..MaxMishaps
        /\ last' \in Nat \cup {None} /\ marking' \in Nat \cup {None}
        /\ unmarked' \in BOOLEAN /\ savedAt' \in Nat
    BY <2>3, SaveTyped
  <2>9. ProfileTypeOK'
    BY <1>23, <2>2, <2>3, <2>4, <2>6, <2>7, <2>8
       DEF OpenRestoredSession, NewProfile, ProfileTypeOK
  <2>10. Places'
    BY <1>23, <2>2, <2>3, <2>8 DEF OpenRestoredSession, NewProfile, Places, RestoreScreens
  <2> QED
    BY <2>9, <2>10
<1>24. CASE ClockIsSet
  BY <1>24, ProfileAssumption DEF ClockIsSet, Mishap, ProfileTypeOK, Places
<1>25. CASE TakeCopy
  BY <1>25, ProfileAssumption DEF TakeCopy, Mishap, ProfileTypeOK, Places
<1>26. CASE PutCopyBack
  BY <1>26 DEF PutCopyBack, ProfileTypeOK, Places
<1>27. CASE RemoveMark
  BY <1>27, ProfileAssumption DEF RemoveMark, Mishap, ProfileTypeOK, Places
<1>28. CASE ChangeSettingsByHand
  BY <1>28, ProfileAssumption DEF ChangeSettingsByHand, Mishap, ProfileTypeOK, Places
<1>29. CASE UNCHANGED profileVars
  BY <1>29 DEF profileVars, ProfileTypeOK, Places
<1> QED
  BY <1>1, <1>2, <1>3, <1>4, <1>5, <1>6, <1>7, <1>8, <1>9, <1>10, <1>11, <1>12, <1>13, <1>14,
     <1>15, <1>16, <1>17, <1>18, <1>19, <1>20, <1>21, <1>22, <1>23, <1>24, <1>25, <1>26, <1>27,
     <1>28, <1>29 DEF ProfileNext

-----------------------------------------------------------------------------
(* The steps that change neither the session nor its files and what is remembered of them. *)
Quiet ==
    /\ UNCHANGED <<stateFile, copy, session, last, saves, sealed, older, lost, known, savedAt,
                   latest>>
    /\ screen' = "opening" => screen = "opening"

Aside ==
    \/ Start \/ HandleBackup \/ SubmitBackupExport \/ CancelBackupEntry
    \/ BeginRestore \/ SubmitRestorePath \/ SubmitRestoreFilePass \/ RestoreFindsProfile
    \/ ClockIsSet \/ ChangeSettingsByHand \/ UNCHANGED profileVars

LEMMA QuietSteps ==
    ASSUME Aside
    PROVE  Quiet /\ UNCHANGED <<marking, markFile, unmarked>>
<1> USE DEF files, program, history, Quiet
<1>1. CASE Start
  BY <1>1 DEF Start
<1>2. CASE HandleBackup \/ SubmitBackupExport \/ CancelBackupEntry \/ BeginRestore
           \/ SubmitRestorePath \/ SubmitRestoreFilePass \/ RestoreFindsProfile
  <2>1. EntryOnly /\ screen' # "opening"
    BY <1>2 DEF HandleBackup, SubmitBackupExport, CancelBackupEntry, BeginRestore,
                SubmitRestorePath, SubmitRestoreFilePass, RestoreFindsProfile
  <2> QED
    BY <2>1 DEF EntryOnly
<1>3. CASE ClockIsSet \/ ChangeSettingsByHand
  BY <1>3 DEF ClockIsSet, ChangeSettingsByHand
<1>4. CASE UNCHANGED profileVars
  BY <1>4 DEF profileVars
<1> QED
  BY <1>1, <1>2, <1>3, <1>4 DEF Aside

LEMMA MarkSteps ==
    ASSUME MarkWritten \/ MarkFails \/ RemoveMark
    PROVE  Quiet
BY DEF MarkWritten, MarkFails, RemoveMark, Quiet, files, program, history

(* A command saves the session as it changed it, and keeps its screen. *)
LEMMA CommandSaves ==
    ASSUME ProfileTypeOK, Places,
           \/ Invite \/ SendText \/ (\E v \in Settings : SetWipeSettings(v))
           \/ WipeSettingsAccept \/ BinaryAccept
    PROVE  \E s \in StateRecord : SaveSession(s) /\ session # None
<1>1. session # None
  BY DEF Invite, SendText, SetWipeSettings, WipeSettingsAccept, BinaryAccept, InSession, Places
<1>2. CASE Invite
  <2>1. saves + 1 \in Nat
    BY ProfileAssumption DEF ProfileTypeOK
  <2>2. PICK k \in Key : k = [gen |-> saves + 1, n |-> 0]
    BY <2>1 DEF Key
  <2>3. [session EXCEPT !.key = k] \in StateRecord
    BY <1>1, SessionTyped
  <2> QED
    BY <1>1, <1>2, <2>2, <2>3 DEF Invite
<1>3. CASE SendText
  BY <1>1, <1>3, SessionTyped DEF SendText
<1>4. ASSUME NEW v \in Settings, SetWipeSettings(v) \/ WipeSettingsAccept
      PROVE  \E s \in StateRecord : SaveSession(s)
  <2>1. settingsFile' \in Settings /\ RecordWipeSettings
    BY <1>4 DEF SetWipeSettings, WipeSettingsAccept, ProfileTypeOK
  <2>2. [session EXCEPT !.settings = settingsFile'] \in StateRecord
    BY <1>1, <2>1, SessionTyped
  <2> QED
    BY <2>1, <2>2 DEF RecordWipeSettings
<1>5. CASE WipeSettingsAccept
  BY <1>1, <1>4, <1>5 DEF ProfileTypeOK
<1>6. CASE BinaryAccept
  <2>1. running \in Binaries
    BY <1>6 DEF BinaryAccept, ProfileTypeOK
  <2>2. [session EXCEPT !.digest = running] \in StateRecord
    BY <1>1, <2>1, SessionTyped
  <2> QED
    BY <1>1, <1>6, <2>2 DEF BinaryAccept
<1> QED
  BY <1>1, <1>2, <1>3, <1>4, <1>5, <1>6

-----------------------------------------------------------------------------
(* Ids and marks *)

LEMMA MarksSaved ==
    ASSUME ProfileTypeOK, Marks, NEW s \in StateRecord, Save(s), UNCHANGED <<copy, markFile>>
    PROVE  Marks'
<1>1. saves \in Nat
  BY ProfileAssumption DEF ProfileTypeOK
<1>2. CASE Written(s)
  BY <1>1, <1>2 DEF Written, Marks, Present
<1>3. CASE UNCHANGED <<saves, stateFile, marking, last, unmarked, savedAt>>
  BY <1>3 DEF Marks, Present
<1> QED
  BY <1>2, <1>3, SaveMeans

(* The file that was there before a save is no longer the newest. *)
LEMMA CopyIsBehind ==
    ASSUME ProfileTypeOK, Marks, NEW s \in StateRecord, Written(s), UNCHANGED copy
    PROVE  LastWritten' = {stateFile'} /\ (copy # None => View(copy).id # last')
<1>1. saves \in Nat
  BY ProfileAssumption DEF ProfileTypeOK
<1>2. copy # None => View(copy).id \in (0..saves) \cup {None}
  BY DEF Marks, Present
<1>3. last' = saves + 1 /\ saves + 1 \in Nat /\ saves + 1 # None
  BY <1>1, ProfileAssumption DEF Written
<1>4. copy # None => View(copy).id # last'
  BY <1>1, <1>2, <1>3, ProfileAssumption
<1>5. stateFile' # None /\ View(stateFile').id = last'
  BY DEF Written
<1> QED
  BY <1>4, <1>5 DEF LastWritten, Present

LEMMA MarksStep ==
    ASSUME ProfileTypeOK, Places, Marks, [ProfileNext]_profileVars
    PROVE  Marks'
<1> USE DEF files, program, history
<1>1. ASSUME UNCHANGED <<stateFile, copy, last, saves, marking, markFile, unmarked>>
      PROVE  Marks'
  BY <1>1 DEF Marks, Present
<1>2. CASE MarkWritten
  BY <1>2 DEF MarkWritten, Marks, Present
<1>3. CASE MarkFails
  BY <1>3 DEF MarkFails, Marks, Present
<1>4. CASE TryUnlock
  <2>1. PICK l \in StateRecord : l = DeserializeBlob(stateFile)
    BY <1>4, ViewTyped DEF View, TryUnlock, StateExists, ProfileTypeOK
  <2>2. PICK s \in StateRecord : s = Stamped(l)
    BY StampedMeans
  <2>3. Save(s) /\ UNCHANGED <<copy, markFile>>
    BY <1>4, <2>1, <2>2 DEF TryUnlock
  <2> QED
    BY <2>3, MarksSaved
<1>5. CASE LockUi
  <2>1. session \in StateRecord
    BY <1>5 DEF LockUi, Places, ProfileTypeOK
  <2> QED
    BY <1>5, <2>1, MarksSaved DEF LockUi
<1>6. CASE Stop
  BY <1>6 DEF Stop, Marks, Present
<1>7. CASE CreateSession
  <2>1. PICK e \in StateRecord :
           e = [id |-> None, mark |-> 0, digest |-> None, settings |-> None, key |-> None]
    BY DEF StateRecord
  <2>2. PICK s \in StateRecord : s = Stamped(e)
    BY StampedMeans
  <2>3. StateWritten(s)
    BY <1>7, <2>1, <2>2 DEF CreateSession
  <2> QED
    BY <1>7, <2>3, MarksSaved DEF CreateSession, Save
<1>8. ASSUME NEW s \in StateRecord, SaveSession(s) PROVE Marks'
  BY <1>8, MarksSaved DEF SaveSession
<1>9. CASE Invite \/ SendText \/ (\E v \in Settings : SetWipeSettings(v)) \/ WipeSettingsAccept
           \/ BinaryAccept
  <2>1. PICK s \in StateRecord : SaveSession(s)
    BY <1>9, CommandSaves
  <2> QED
    BY <2>1, <1>8
<1>10. CASE ClockReset
  <2>1. PICK z \in StateRecord : z = [session EXCEPT !.mark = 0]
    BY <1>10, SessionTyped DEF ClockReset, InSession, Places
  <2> QED
    BY <1>10, <2>1, MarksSaved DEF ClockReset
<1>11. CASE Wipe
  BY <1>11 DEF Wipe, InSession, Idle, Marks, Present
<1>12. CASE SubmitRestoreProfilePass
  <2>1. PICK s \in StateRecord : s = BackupView(restoring)
    BY <1>12, BackupViewMeans DEF SubmitRestoreProfilePass, Places
  <2>2. Save(s)
    BY <1>12, <2>1 DEF SubmitRestoreProfilePass, InstallFreshProfile, Save
  <2> QED
    BY <1>12, <2>2, MarksSaved DEF SubmitRestoreProfilePass
<1>13. CASE OpenRestoredSession
  <2>1. PICK s \in StateRecord : s = Stamped(restoring)
    BY <1>13, StampedMeans DEF OpenRestoredSession, Places
  <2> QED
    BY <1>13, <2>1, MarksSaved DEF OpenRestoredSession
<1>14. CASE TakeCopy
  BY <1>14 DEF TakeCopy, StateExists, Marks, Present
<1>15. CASE PutCopyBack
  BY <1>15 DEF PutCopyBack, Marks, Present
<1>16. CASE RemoveMark
  BY <1>16 DEF RemoveMark, Marks, Present
<1>17. CASE Aside
  BY <1>1, <1>17, QuietSteps DEF Quiet
<1> QED
  BY <1>2, <1>3, <1>4, <1>5, <1>6, <1>7, <1>9, <1>10, <1>11, <1>12, <1>13, <1>14, <1>15, <1>16,
     <1>17, Zenon DEF ProfileNext, Aside

-----------------------------------------------------------------------------
(* Keys *)

LEMMA KeysQuiet ==
    ASSUME Keys, Quiet
    PROVE  Keys'
BY DEF Keys, Quiet, Present, LastWritten, Fresh

(* A save of a record whose next key is fresh keeps the newest file's fresh. *)
LEMMA KeysSaved ==
    ASSUME ProfileTypeOK, Marks, Keys, NEW s \in StateRecord, Save(s), UNCHANGED <<copy, sealed>>,
           s.key # None => s.key.gen <= saves + 1,
           session' # None => session'.key = s.key,
           screen' # "opening",
           ~older' => Fresh(s.key),
           ~older' => \A f \in LastWritten : Fresh(View(f).key)
    PROVE  Keys'
<1>1. saves \in Nat /\ sealed \subseteq Key
  BY ProfileAssumption DEF ProfileTypeOK
<1>2. s.key # None => s.key \in Key
  BY DEF StateRecord
<1>3. \A k \in Key : k.gen \in Nat /\ k.n \in Nat
  BY DEF Key
<1>4. copy # None => View(copy).key = None \/ View(copy).key \in Key
  BY ViewTyped DEF ProfileTypeOK, StateRecord
<1>5. CASE Written(s)
  <2>1. LastWritten' = {stateFile'}
    BY <1>5, CopyIsBehind
  <2>2. saves' = saves + 1 /\ View(stateFile').key = s.key
    BY <1>5 DEF Written
  <2>3. \A k \in sealed' : k.gen <= saves'
    BY <1>1, <1>3, <2>2 DEF Keys
  <2>4. \A f \in Present' : View(f).key # None => View(f).key.gen <= saves'
    <3>1. copy # None => (View(copy).key # None => View(copy).key.gen <= saves)
      BY DEF Keys, Present
    <3> QED
      BY <1>1, <1>3, <1>4, <2>2, <3>1 DEF Present
  <2>5. ~older' /\ s.key # None => \A k \in sealed' : k.gen = s.key.gen => k.n < s.key.n
    BY DEF Fresh
  <2>6. session' # None => (session'.key # None => session'.key.gen <= saves' + 1)
    BY <1>1, <1>2, <1>3, <2>2
  <2>7. ~older' => /\ session' # None => Fresh(session.key)'
                   /\ \A f \in LastWritten' : Fresh(View(f).key)'
    BY <2>1, <2>2, <2>5 DEF Fresh
  <2> QED
    BY <2>3, <2>4, <2>6, <2>7 DEF Keys
<1>6. CASE UNCHANGED <<saves, stateFile, last>>
  BY <1>6 DEF Keys, Present, LastWritten, Fresh
<1> QED
  BY <1>5, <1>6, SaveMeans

(* The frame that is sent uses the session's next key, and the save is past it. *)
LEMMA KeysSent ==
    ASSUME ProfileTypeOK, Places, Marks, Keys, SendText
    PROVE  Keys'
<1>1. saves \in Nat /\ sealed \subseteq Key
  BY ProfileAssumption DEF ProfileTypeOK
<1>2. session # None /\ session.key # None /\ session \in StateRecord
  BY DEF SendText, InSession, Places, ProfileTypeOK
<1>3. PICK g \in Nat, n \in Nat : session.key = [gen |-> g, n |-> n]
  BY <1>2 DEF StateRecord, Key
<1>4. PICK s \in StateRecord : s = [session EXCEPT !.key.n = @ + 1]
  BY <1>2, SessionTyped
<1>5. s.key = [gen |-> g, n |-> n + 1]
  BY <1>2, <1>3, <1>4 DEF StateRecord
<1>6. Save(s) /\ stateFile' # stateFile /\ session' = s /\ UNCHANGED <<copy, screen, older>>
  BY <1>4 DEF SendText, SaveSession
<1>7. sealed' = sealed \cup {session.key}
  BY DEF SendText
<1>8. Written(s)
  BY <1>6, SaveMeans
<1>9. LastWritten' = {stateFile'}
  BY <1>6, <1>8, CopyIsBehind
<1>10. saves' = saves + 1 /\ View(stateFile').key = s.key
  BY <1>8 DEF Written
<1>11. g <= saves + 1
  BY <1>2, <1>3 DEF Keys
<1>12. \A k \in sealed' : k.gen <= saves'
  BY <1>1, <1>3, <1>7, <1>10, <1>11 DEF Keys, Key
<1>13. \A f \in Present' : View(f).key # None => View(f).key.gen <= saves'
  <2>1. copy # None => (View(copy).key # None => View(copy).key \in Key /\ View(copy).key.gen <= saves)
    BY ViewTyped DEF Keys, Present, ProfileTypeOK, StateRecord
  <2> QED
    BY <1>1, <1>5, <1>6, <1>10, <1>11, <2>1 DEF Present, Key
<1>14. ~older' => Fresh(s.key)'
  <2>1. ~older' => Fresh(session.key)
    BY <1>2, <1>6 DEF Keys
  <2> QED
    BY <1>1, <1>2, <1>3, <1>5, <1>7, <2>1 DEF Fresh, Key
<1>15. screen' # "opening"
  BY <1>6 DEF SendText, InSession
<1> QED
  BY <1>5, <1>6, <1>9, <1>10, <1>11, <1>12, <1>13, <1>14, <1>15 DEF Keys, Fresh

LEMMA KeysStep ==
    ASSUME ProfileTypeOK, Places, Marks, Keys, [ProfileNext]_profileVars
    PROVE  Keys'
<1> USE DEF files, program, history
<1>1. CASE MarkWritten \/ MarkFails \/ RemoveMark \/ Aside
  BY <1>1, MarkSteps, QuietSteps, KeysQuiet
<1>2. CASE TryUnlock
  <2>1. stateFile \in Present /\ stateFile \in Blob
    BY <1>2 DEF TryUnlock, StateExists, Present, ProfileTypeOK
  <2>2. PICK l \in StateRecord : l = View(stateFile)
    BY <2>1, ViewTyped
  <2>3. PICK s \in StateRecord : s = Stamped(l) /\ s.key = l.key
    BY StampedMeans
  <2>4. Save(s) /\ UNCHANGED <<copy, sealed>> /\ session' = s /\ screen' = "main"
    BY <1>2, <2>2, <2>3 DEF TryUnlock, View
  <2>5. ~older' => ~older /\ stateFile \in LastWritten
    BY <1>2, <2>1 DEF TryUnlock, LastWritten, View
  <2>6. s.key # None => s.key.gen <= saves + 1
    <3>1. l.key # None => l.key.gen <= saves /\ l.key.gen \in Nat
      BY <2>1, <2>2 DEF Keys, StateRecord, Key
    <3> QED
      BY <2>3, <3>1, ProfileAssumption DEF ProfileTypeOK
  <2>7. ~older' => Fresh(s.key) /\ \A f \in LastWritten : Fresh(View(f).key)
    BY <2>2, <2>3, <2>5 DEF Keys
  <2> QED
    BY <2>4, <2>6, <2>7, KeysSaved
<1>3. CASE LockUi
  <2>1. session # None /\ session \in StateRecord
    BY <1>3 DEF LockUi, Places, ProfileTypeOK
  <2>2. Save(session) /\ UNCHANGED <<copy, sealed, older>> /\ session' = None /\ screen' # "opening"
    BY <1>3 DEF LockUi
  <2> QED
    BY <2>1, <2>2, KeysSaved DEF Keys
<1>4. CASE Stop
  BY <1>4 DEF Stop, Keys, Present, LastWritten, Fresh
<1>5. CASE CreateSession
  <2>1. PICK e \in StateRecord : e.key = None /\
           e = [id |-> None, mark |-> 0, digest |-> None, settings |-> None, key |-> None]
    BY DEF StateRecord
  <2>2. PICK s \in StateRecord : s = Stamped(e) /\ s.key = None
    BY <2>1, StampedMeans
  <2>3. StateWritten(s) /\ UNCHANGED <<copy, sealed>> /\ session' = s /\ screen' = "main"
    BY <1>5, <2>1, <2>2 DEF CreateSession
  <2>4. Written(s)
    BY <2>3, StateWrittenMeans
  <2>5. LastWritten' = {stateFile'} /\ View(stateFile').key = None /\ saves' = saves + 1
    BY <2>2, <2>3, <2>4, CopyIsBehind DEF Written
  <2>6. saves \in Nat /\ \A k \in sealed : k.gen \in Nat
    BY ProfileAssumption DEF ProfileTypeOK, Key
  <2>7. copy # None => (View(copy).key # None => View(copy).key.gen \in Nat)
    BY ViewTyped DEF ProfileTypeOK, StateRecord, Key
  <2> QED
    BY <2>2, <2>3, <2>5, <2>6, <2>7 DEF Keys, Present, Fresh
<1>6. CASE Invite
  <2>1. session # None /\ session \in StateRecord /\ saves \in Nat /\ sealed \subseteq Key
    BY <1>6, ProfileAssumption DEF Invite, InSession, Places, ProfileTypeOK
  <2>2. PICK k \in Key : k = [gen |-> saves + 1, n |-> 0]
    <3>1. saves + 1 \in Nat
      BY <2>1
    <3> QED
      BY <3>1 DEF Key
  <2>3. PICK s \in StateRecord : s = [session EXCEPT !.key = k] /\ s.key = k
    BY <2>1, SessionTyped DEF StateRecord
  <2>4. /\ Save(s) /\ UNCHANGED <<copy, sealed, older, screen>> /\ session' = s
        /\ screen' # "opening"
    BY <1>6, <2>2, <2>3 DEF Invite, SaveSession, InSession
  <2>5. Fresh(s.key)
    <3>1. \A j \in sealed : j.gen # saves + 1
      BY <2>1 DEF Keys, Key
    <3>2. k.gen = saves + 1
      BY <2>2
    <3> QED
      BY <2>3, <3>1, <3>2 DEF Fresh
  <2>6. s.key # None => s.key.gen <= saves + 1
    BY <2>1, <2>2, <2>3
  <2>7. ~older' => \A f \in LastWritten : Fresh(View(f).key)
    BY <2>4 DEF Keys
  <2> QED
    BY <2>4, <2>5, <2>6, <2>7, KeysSaved
<1>7. CASE SendText
  BY <1>7, KeysSent
<1>8. ASSUME NEW s \in StateRecord, Save(s), session # None, s.key = session.key,
             session'.key = session.key, UNCHANGED <<copy, sealed, older>>, screen' # "opening"
      PROVE  Keys'
  BY <1>8, KeysSaved DEF Keys
<1>9. CASE (\E v \in Settings : SetWipeSettings(v)) \/ WipeSettingsAccept
  <2>1. RecordWipeSettings /\ settingsFile' \in Settings /\ InSession
    BY <1>9 DEF SetWipeSettings, WipeSettingsAccept, ProfileTypeOK
  <2>2. session # None /\ session \in StateRecord
    BY <2>1 DEF InSession, Places, ProfileTypeOK
  <2>3. PICK s \in StateRecord : s = [session EXCEPT !.settings = settingsFile'] /\ s.key = session.key
    BY <2>1, <2>2, SessionTyped DEF StateRecord
  <2> QED
    BY <1>8, <2>1, <2>2, <2>3 DEF RecordWipeSettings, SaveSession, InSession
<1>10. CASE BinaryAccept
  <2>1. session # None /\ session \in StateRecord /\ running \in Binaries
    BY <1>10 DEF BinaryAccept, InSession, Places, ProfileTypeOK
  <2>2. PICK s \in StateRecord : s = [session EXCEPT !.digest = running] /\ s.key = session.key
    BY <2>1, SessionTyped DEF StateRecord
  <2> QED
    BY <1>8, <1>10, <2>1, <2>2 DEF BinaryAccept, SaveSession, InSession
<1>11. CASE ClockReset
  <2>1. session # None /\ session \in StateRecord /\ clock \in Nat
    BY <1>11, ProfileAssumption DEF ClockReset, InSession, Places, ProfileTypeOK
  <2>2. PICK s \in StateRecord : s = [session EXCEPT !.mark = clock] /\ s.key = session.key
    BY <2>1, SessionTyped DEF StateRecord
  <2>3. PICK z \in StateRecord : z = [session EXCEPT !.mark = 0] /\ z.key = session.key
    BY <2>1, SessionTyped DEF StateRecord
  <2> QED
    BY <1>8, <1>11, <2>1, <2>2, <2>3 DEF ClockReset, InSession
<1>12. CASE Wipe
  BY <1>12 DEF Wipe, Keys, Present, LastWritten, Fresh
<1>13. CASE SubmitRestoreProfilePass
  <2>1. PICK s \in StateRecord : s = BackupView(restoring) /\ s.key = None
    BY <1>13, BackupViewMeans DEF SubmitRestoreProfilePass, Places
  <2>2. CASE StateWritten(s)
    <3>1. Written(s) /\ UNCHANGED <<copy, sealed, session, older>> /\ session = None
      BY <1>13, <2>2, StateWrittenMeans DEF SubmitRestoreProfilePass, Places
    <3>2. LastWritten' = {stateFile'} /\ View(stateFile').key = None /\ saves' = saves + 1 /\ last' = saves'
      BY <2>1, <3>1, CopyIsBehind DEF Written
    <3>3. saves \in Nat /\ (\A k \in sealed : k.gen \in Nat) /\ last' # None
      BY <3>2, ProfileAssumption DEF ProfileTypeOK, Key
    <3>4. copy # None => (View(copy).key # None => View(copy).key.gen \in Nat)
      BY ViewTyped DEF ProfileTypeOK, StateRecord, Key
    <3> QED
      BY <3>1, <3>2, <3>3, <3>4 DEF Keys, Present, Fresh
  <2>3. CASE SaveFails /\ screen' = "create"
    BY <1>13, <2>3 DEF SubmitRestoreProfilePass, SaveFails, Keys, Present, LastWritten, Fresh
  <2> QED
    BY <1>13, <2>1, <2>2, <2>3 DEF SubmitRestoreProfilePass, InstallFreshProfile
<1>14. CASE OpenRestoredSession
  <2>1. restoring \in StateRecord /\ restoring.key = None
    BY <1>14 DEF OpenRestoredSession, Places
  <2>2. PICK s \in StateRecord : s = Stamped(restoring) /\ s.key = None
    BY <2>1, StampedMeans
  <2>3. Save(s) /\ UNCHANGED <<copy, sealed>> /\ session' = s /\ screen' = "main"
    BY <1>14, <2>2 DEF OpenRestoredSession
  <2>4. \A f \in LastWritten : Fresh(View(f).key)
    BY <1>14 DEF OpenRestoredSession, Keys, Fresh
  <2> QED
    BY <2>2, <2>3, <2>4, KeysSaved DEF Fresh
<1>15. CASE TakeCopy
  BY <1>15 DEF TakeCopy, StateExists, Keys, Present, LastWritten, Fresh
<1>16. CASE PutCopyBack
  BY <1>16 DEF PutCopyBack, Keys, Present, LastWritten, Fresh
<1> QED
  BY <1>1, <1>2, <1>3, <1>4, <1>5, <1>6, <1>7, <1>9, <1>10, <1>11, <1>12, <1>13, <1>14, <1>15,
     <1>16, Zenon DEF ProfileNext, Aside

-----------------------------------------------------------------------------
(* What is recorded *)

LEMMA RecordsQuiet ==
    ASSUME Records, Quiet
    PROVE  Records'
BY DEF Records, CopyOfThis, Quiet, Present, LastWritten

LEMMA CopySaved ==
    ASSUME ProfileTypeOK, Marks, CopyOfThis, NEW s \in StateRecord, Save(s), UNCHANGED copy,
           (~lost' \/ screen' = "opening") => (~lost \/ screen = "opening")
    PROVE  CopyOfThis'
<1>1. CASE Written(s)
  <2>1. copy' # None => View(copy').id # last'
    <3>1. PICK c : c = copy /\ c = copy'
      OBVIOUS
    <3>2. c # None => View(c).id # last'
      BY <1>1, <3>1, CopyIsBehind
    <3> QED
      BY <3>1, <3>2
  <2> QED
    BY <2>1 DEF CopyOfThis, LastWritten, Present
<1>2. CASE UNCHANGED <<stateFile, last>>
  BY <1>2 DEF CopyOfThis, LastWritten, Present
<1> QED
  BY <1>1, <1>2, SaveMeans

(* A session that ends and is not lost has what it recorded in its file. *)
LEMMA EndMeans ==
    ASSUME NEW f, f # None, SessionEnds(f), ~lost'
    PROVE  /\ ~lost
           /\ View(f).settings = session.settings /\ View(f).digest = session.digest
BY DEF SessionEnds, View

(* The commands of a session that go on with what it has recorded, or record it as known. *)
LEMMA RecordsSaved ==
    ASSUME ProfileTypeOK, Marks, Records, NEW s \in StateRecord, Save(s),
           UNCHANGED <<copy, older, lost>>, session # None, session' # None, stateFile # None,
           screen' # "opening",
           \/ UNCHANGED known.settings /\ session'.settings = session.settings
           \/ known'.settings = session'.settings,
           \/ UNCHANGED known.binary /\ session'.digest = session.digest
           \/ known'.binary = session'.digest
    PROVE  Records'
<1>1. CopyOfThis'
  BY CopySaved DEF Records
<1>2. stateFile' # None
  BY SaveTyped
<1>3. (~older /\ ~lost) => /\ known.settings \in {None, session.settings}
                           /\ known.binary \in {None, session.digest}
  BY DEF Records
<1> QED
  BY <1>1, <1>2, <1>3 DEF Records

LEMMA RecordsStep ==
    ASSUME ProfileTypeOK, Places, Marks, Records, [ProfileNext]_profileVars
    PROVE  Records'
<1> USE DEF files, program, history
<1>1. CASE MarkWritten \/ MarkFails \/ RemoveMark \/ Aside
  BY <1>1, MarkSteps, QuietSteps, RecordsQuiet
<1>2. CASE TryUnlock
  <2>1. stateFile \in Present /\ stateFile \in Blob /\ session = None /\ stateFile # None
    BY <1>2 DEF TryUnlock, StateExists, Present, ProfileTypeOK, Places
  <2>2. PICK l \in StateRecord : l = View(stateFile)
    BY <2>1, ViewTyped
  <2>3. PICK s \in StateRecord : /\ s = Stamped(l)
                                 /\ s.settings = l.settings \/ l.settings = None
                                 /\ s.digest = l.digest \/ l.digest = None
    BY StampedMeans
  <2>4. Save(s) /\ UNCHANGED <<copy, lost>> /\ session' = s /\ screen' = "main"
    BY <1>2, <2>2, <2>3 DEF TryUnlock, View
  <2>5. ~older' => ~older /\ stateFile \in LastWritten
    BY <1>2, <2>1 DEF TryUnlock, LastWritten, View
  <2>6. CopyOfThis'
    BY <2>4, CopySaved DEF Records
  <2>7. stateFile' # None /\ s # None
    BY <2>1, <2>4, SaveTyped, ProfileAssumption
  <2>8. known' = [settings |-> IF l.settings = None THEN s.settings ELSE known.settings,
                  binary |-> IF l.digest = None THEN s.digest ELSE known.binary]
    BY <1>2, <2>2, <2>3 DEF TryUnlock, View
  <2>9. (~older' /\ ~lost') => /\ known.settings \in {None, l.settings}
                               /\ known.binary \in {None, l.digest}
    BY <2>1, <2>2, <2>4, <2>5 DEF Records
  <2>10. (~older' /\ ~lost') => /\ known'.settings \in {None, s.settings}
                                /\ known'.binary \in {None, s.digest}
    BY <2>3, <2>8, <2>9
  <2> QED
    BY <2>4, <2>6, <2>7, <2>10 DEF Records
<1>3. CASE LockUi
  <2>1. session # None /\ session \in StateRecord /\ stateFile # None
    BY <1>3 DEF LockUi, Places, ProfileTypeOK
  <2>2. /\ Save(session) /\ UNCHANGED <<copy, older, known>> /\ session' = None
        /\ screen' # "opening" /\ SessionEnds(stateFile')
    BY <1>3 DEF LockUi
  <2>3. PICK f : f = stateFile' /\ f # None
    BY <2>1, <2>2, SaveTyped
  <2>4. ~lost' => /\ ~lost
                  /\ View(f).settings = session.settings /\ View(f).digest = session.digest
    BY <2>2, <2>3, EndMeans
  <2>5. CopyOfThis'
    BY <2>1, <2>2, <2>4, CopySaved DEF Records
  <2>6. (~older' /\ ~lost') => /\ known'.settings \in {None, View(f).settings}
                               /\ known'.binary \in {None, View(f).digest}
    BY <2>1, <2>2, <2>4 DEF Records
  <2> QED
    BY <2>2, <2>3, <2>5, <2>6 DEF Records
<1>4. CASE Stop
  <2>1. UNCHANGED <<stateFile, copy, last, older, known>> /\ session' = None /\ screen' = "off"
    BY <1>4 DEF Stop
  <2>2. CASE session # None
    <3>1. stateFile # None /\ SessionEnds(stateFile)
      BY <1>4, <2>2 DEF Stop, Places
    <3>2. ~lost' => /\ ~lost /\ View(stateFile).settings = session.settings
                    /\ View(stateFile).digest = session.digest
      BY <3>1, EndMeans
    <3> QED
      BY <2>1, <2>2, <3>1, <3>2 DEF Records, CopyOfThis, LastWritten, Present
  <2>3. CASE session = None
    <3>1. lost' = lost
      BY <1>4, <2>3 DEF Stop
    <3> QED
      BY <2>1, <2>3, <3>1 DEF Records, CopyOfThis, LastWritten, Present
  <2> QED
    BY <2>2, <2>3
<1>5. CASE CreateSession
  <2>1. PICK e \in StateRecord :
           e = [id |-> None, mark |-> 0, digest |-> None, settings |-> None, key |-> None]
    BY DEF StateRecord
  <2>2. PICK s \in StateRecord : s = Stamped(e) /\ s # None
    BY StampedMeans, ProfileAssumption
  <2>3. StateWritten(s) /\ UNCHANGED copy /\ session' = s /\ screen' = "main" /\ NewProfile(s)
    BY <1>5, <2>1, <2>2 DEF CreateSession
  <2>4. Written(s)
    BY <2>3, StateWrittenMeans
  <2>5. CopyOfThis'
    BY <2>3, <2>4, CopyIsBehind DEF CopyOfThis, Written
  <2>6. known'.settings = s.settings /\ known'.binary = s.digest
    BY <2>3 DEF NewProfile
  <2> QED
    BY <2>2, <2>3, <2>4, <2>5, <2>6 DEF Records, Written
<1>6. CASE Invite
  <2>1. session # None /\ session \in StateRecord /\ stateFile # None /\ saves + 1 \in Nat
    BY <1>6, ProfileAssumption DEF Invite, InSession, Places, ProfileTypeOK
  <2>2. PICK k \in Key : k = [gen |-> saves + 1, n |-> 0]
    BY <2>1 DEF Key
  <2>3. PICK s \in StateRecord : s = [session EXCEPT !.key = k] /\ s # None
    BY <2>1, SessionTyped, ProfileAssumption
  <2>4. s.settings = session.settings /\ s.digest = session.digest
    BY <2>1, <2>3 DEF StateRecord
  <2> QED
    BY <1>6, <2>1, <2>2, <2>3, <2>4, RecordsSaved DEF Invite, SaveSession, InSession
<1>7. CASE SendText
  <2>1. session # None /\ session \in StateRecord /\ stateFile # None
    BY <1>7 DEF SendText, InSession, Places, ProfileTypeOK
  <2>2. PICK s \in StateRecord : s = [session EXCEPT !.key.n = @ + 1] /\ s # None
    BY <1>7, <2>1, SessionTyped, ProfileAssumption DEF SendText
  <2>3. s.settings = session.settings /\ s.digest = session.digest
    BY <2>1, <2>2 DEF StateRecord
  <2> QED
    BY <1>7, <2>1, <2>2, <2>3, RecordsSaved DEF SendText, SaveSession, InSession
<1>8. CASE (\E v \in Settings : SetWipeSettings(v)) \/ WipeSettingsAccept
  <2>1. RecordWipeSettings /\ settingsFile' \in Settings /\ InSession
    BY <1>8 DEF SetWipeSettings, WipeSettingsAccept, ProfileTypeOK
  <2>2. session # None /\ session \in StateRecord /\ stateFile # None
    BY <2>1 DEF InSession, Places, ProfileTypeOK
  <2>3. PICK s \in StateRecord : s = [session EXCEPT !.settings = settingsFile'] /\ s # None
    BY <2>1, <2>2, SessionTyped, ProfileAssumption
  <2>4. s.settings = settingsFile' /\ s.digest = session.digest
    BY <2>2, <2>3 DEF StateRecord
  <2>5. known'.settings = s.settings /\ known'.binary = known.binary
    BY <2>1, <2>4 DEF RecordWipeSettings, ProfileTypeOK
  <2> QED
    BY <2>1, <2>2, <2>3, <2>4, <2>5, RecordsSaved DEF RecordWipeSettings, SaveSession, InSession
<1>9. CASE BinaryAccept
  <2>1. session # None /\ session \in StateRecord /\ stateFile # None /\ running \in Binaries
    BY <1>9 DEF BinaryAccept, InSession, Places, ProfileTypeOK
  <2>2. PICK s \in StateRecord : s = [session EXCEPT !.digest = running] /\ s # None
    BY <2>1, SessionTyped, ProfileAssumption
  <2>3. s.settings = session.settings /\ s.digest = running
    BY <2>1, <2>2 DEF StateRecord
  <2>4. known'.settings = known.settings /\ known'.binary = s.digest
    BY <1>9, <2>3 DEF BinaryAccept, ProfileTypeOK
  <2> QED
    BY <1>9, <2>1, <2>2, <2>3, <2>4, RecordsSaved DEF BinaryAccept, SaveSession, InSession
<1>10. CASE ClockReset
  <2>1. session # None /\ session \in StateRecord /\ stateFile # None /\ clock \in Nat
    BY <1>10, ProfileAssumption DEF ClockReset, InSession, Places, ProfileTypeOK
  <2>2. PICK s \in StateRecord : s = [session EXCEPT !.mark = clock] /\ s # None
    BY <2>1, SessionTyped, ProfileAssumption
  <2>3. s.settings = session.settings /\ s.digest = session.digest
    BY <2>1, <2>2 DEF StateRecord
  <2>4. PICK z \in StateRecord : z = [session EXCEPT !.mark = 0]
    BY <2>1, SessionTyped
  <2> QED
    BY <1>10, <2>1, <2>2, <2>3, <2>4, RecordsSaved DEF ClockReset, InSession
<1>11. CASE Wipe
  BY <1>11 DEF Wipe, SessionEnds, Records, CopyOfThis
<1>12. CASE SubmitRestoreProfilePass
  <2>1. PICK s \in StateRecord : s = BackupView(restoring)
    BY <1>12, BackupViewMeans DEF SubmitRestoreProfilePass, Places
  <2>2. stateFile = None /\ session = None /\ UNCHANGED <<copy, session, older, lost, known>>
    BY <1>12 DEF SubmitRestoreProfilePass, StateExists, Places
  <2>3. CASE StateWritten(s)
    <3>1. Written(s)
      BY <2>3, StateWrittenMeans
    <3>2. CopyOfThis'
      BY <2>2, <3>1, CopyIsBehind DEF CopyOfThis, Written
    <3> QED
      BY <2>2, <3>1, <3>2 DEF Records, Written
  <2>4. CASE SaveFails /\ screen' = "create"
    BY <2>2, <2>4 DEF SaveFails, Records, CopyOfThis, LastWritten, Present
  <2> QED
    BY <1>12, <2>1, <2>3, <2>4 DEF SubmitRestoreProfilePass, InstallFreshProfile
<1>13. CASE OpenRestoredSession
  <2>1. restoring \in StateRecord /\ stateFile # None
    BY <1>13 DEF OpenRestoredSession, Places
  <2>2. PICK s \in StateRecord : s = Stamped(restoring) /\ s # None
    BY <2>1, StampedMeans, ProfileAssumption
  <2>3. /\ Save(s) /\ UNCHANGED copy /\ session' = s /\ screen = "opening" /\ screen' = "main"
        /\ NewProfile(s)
    BY <1>13, <2>2 DEF OpenRestoredSession
  <2>4. CopyOfThis'
    BY <2>3, CopySaved DEF Records
  <2>5. known'.settings = s.settings /\ known'.binary = s.digest /\ stateFile' # None
    BY <2>1, <2>3, SaveTyped DEF NewProfile
  <2> QED
    BY <2>2, <2>3, <2>4, <2>5 DEF Records
<1>14. CASE TakeCopy
  BY <1>14 DEF TakeCopy, StateExists, Records, CopyOfThis, LastWritten, Present
<1>15. CASE PutCopyBack
  BY <1>15 DEF PutCopyBack, Records, CopyOfThis, LastWritten, Present
<1> QED
  BY <1>1, <1>2, <1>3, <1>4, <1>5, <1>6, <1>7, <1>8, <1>9, <1>10, <1>11, <1>12, <1>13, <1>14,
     <1>15, Zenon DEF ProfileNext, Aside

-----------------------------------------------------------------------------
(* Clock marks *)

LEMMA ClocksQuiet ==
    ASSUME Clocks, Quiet
    PROVE  Clocks'
BY DEF Clocks, Quiet, Present, LastWritten

(* A save leaves marks not behind latest', if the record saved has one that is not. *)
LEMMA ClocksSaved ==
    ASSUME ProfileTypeOK, Marks, Clocks, NEW s \in StateRecord, Save(s), UNCHANGED copy,
           NEW m \in Nat, m = RoundedDown(latest'),
           ~older' => (session' # None => session'.mark >= m),
           ~older' /\ savedAt' = clock => s.mark >= m \/ RoundedDown(clock) >= m,
           ~older' /\ savedAt' = savedAt => \A f \in LastWritten : View(f).mark >= m
    PROVE  Clocks'
<1>1. clock \in Nat /\ RoundedDown(clock) \in Nat /\ s.mark \in Nat
  BY ProfileAssumption, RoundedDownTyped DEF ProfileTypeOK, StateRecord
<1>2. CASE Written(s)
  <2>1. LastWritten' = {stateFile'} /\ savedAt' = clock
    BY <1>2, CopyIsBehind DEF Written
  <2>2. PICK f : f = stateFile' /\ f \in Blob
    BY <1>2 DEF Written
  <2>3. View(f).mark \in Nat /\ View(f).mark >= s.mark /\ View(f).mark >= RoundedDown(clock)
    BY <1>2, <2>2, ViewTyped DEF Written, StateRecord
  <2>4. RoundedDown(savedAt') = RoundedDown(clock)
    BY <2>1
  <2>5. ~older' => View(f).mark >= m
    BY <1>1, <2>1, <2>3
  <2>6. RoundedDown(savedAt)' = RoundedDown(clock) /\ RoundedDown(latest)' = m
    BY <2>4 DEF RoundedDown
  <2> QED
    BY <2>1, <2>2, <2>3, <2>5, <2>6 DEF Clocks
<1>3. CASE UNCHANGED <<stateFile, last, savedAt>>
  <2>1. RoundedDown(latest)' = m
    BY DEF RoundedDown
  <2> QED
    BY <1>3, <2>1 DEF Clocks, LastWritten, Present
<1> QED
  BY <1>2, <1>3, SaveMeans

(* What the clock said when a session ended that has its file. *)
LEMMA EndLatest ==
    ASSUME NEW f, f # None, SessionEnds(f)
    PROVE  latest' \in {savedAt', latest}
BY DEF SessionEnds

(* The commands that leave the session's mark. *)
LEMMA ClocksKept ==
    ASSUME ProfileTypeOK, Marks, Clocks, NEW s \in StateRecord, Save(s),
           UNCHANGED <<copy, older, latest>>, session # None, s.mark = session.mark, session' = s
    PROVE  Clocks'
<1>1. PICK m \in Nat : m = RoundedDown(latest) /\ m = RoundedDown(latest')
  BY RoundedDownTyped DEF ProfileTypeOK
<1>2. ~older' => s.mark >= m /\ \A f \in LastWritten : View(f).mark >= m
  BY <1>1 DEF Clocks
<1> QED
  BY <1>1, <1>2, ClocksSaved

LEMMA ClocksStep ==
    ASSUME ProfileTypeOK, Places, Marks, Clocks, [ProfileNext]_profileVars
    PROVE  Clocks'
<1> USE DEF files, program, history
<1>1. CASE MarkWritten \/ MarkFails \/ RemoveMark \/ Aside
  BY <1>1, MarkSteps, QuietSteps, ClocksQuiet
<1>2. CASE TryUnlock
  <2>1. stateFile \in Present /\ stateFile \in Blob
    BY <1>2 DEF TryUnlock, StateExists, Present, ProfileTypeOK
  <2>2. PICK l \in StateRecord : l = View(stateFile)
    BY <2>1, ViewTyped
  <2>3. PICK s \in StateRecord : s = Stamped(l) /\ s.mark = l.mark
    BY StampedMeans
  <2>4. Save(s) /\ UNCHANGED <<copy, latest>> /\ session' = s
    BY <1>2, <2>2, <2>3 DEF TryUnlock, View
  <2>5. ~older' => ~older /\ stateFile \in LastWritten
    BY <1>2, <2>1 DEF TryUnlock, LastWritten, View
  <2>6. PICK m \in Nat : m = RoundedDown(latest) /\ m = RoundedDown(latest')
    BY <2>4, RoundedDownTyped DEF ProfileTypeOK
  <2>7. ~older' => s.mark >= m /\ \A f \in LastWritten : View(f).mark >= m
    BY <2>2, <2>3, <2>5, <2>6 DEF Clocks
  <2> QED
    BY <2>4, <2>6, <2>7, ClocksSaved
<1>3. CASE LockUi
  <2>1. session # None /\ session \in StateRecord /\ stateFile # None
    BY <1>3 DEF LockUi, Places, ProfileTypeOK
  <2>2. /\ Save(session) /\ UNCHANGED <<copy, older>> /\ session' = None
        /\ SessionEnds(stateFile')
    BY <1>3 DEF LockUi
  <2>3. savedAt' \in Nat /\ latest' \in {savedAt', latest}
    <3>1. PICK f : f = stateFile' /\ f # None
      BY <2>1, <2>2, SaveTyped
    <3> QED
      BY <2>1, <2>2, <3>1, SaveTyped, EndLatest
  <2>4. latest' \in Nat
    BY <2>3 DEF ProfileTypeOK
  <2>5. PICK m \in Nat : m = RoundedDown(latest')
    BY <2>4, RoundedDownTyped
  <2>6. ~older' /\ savedAt' = clock => session.mark >= m \/ RoundedDown(clock) >= m
    <3>1. CASE latest' = savedAt'
      <4>1. RoundedDown(clock) \in Nat
        BY ProfileAssumption, RoundedDownTyped DEF ProfileTypeOK
      <4> QED
        BY <2>5, <3>1, <4>1
    <3>2. CASE latest' = latest
      BY <2>1, <2>2, <2>5, <3>2 DEF Clocks
    <3> QED
      BY <2>3, <3>1, <3>2
  <2>7. ~older' /\ savedAt' = savedAt => \A f \in LastWritten : View(f).mark >= m
    <3>1. latest' = savedAt => \A f \in LastWritten : View(f).mark >= m
      BY <2>5 DEF Clocks
    <3>2. latest' = latest /\ ~older => \A f \in LastWritten : View(f).mark >= m
      BY <2>5 DEF Clocks
    <3> QED
      BY <2>2, <2>3, <3>1, <3>2
  <2> QED
    BY <2>1, <2>2, <2>5, <2>6, <2>7, ClocksSaved
<1>4. CASE Stop
  <2>1. UNCHANGED <<stateFile, copy, last, older, savedAt>> /\ session' = None
    BY <1>4 DEF Stop
  <2>2. latest' \in {savedAt, latest}
    <3>1. CASE session # None
      <4>1. stateFile # None /\ SessionEnds(stateFile)
        BY <1>4, <3>1 DEF Stop, Places
      <4> QED
        BY <2>1, <4>1, EndLatest
    <3>2. CASE session = None
      BY <1>4, <3>2 DEF Stop
    <3> QED
      BY <3>1, <3>2
  <2>3. LastWritten' = LastWritten /\ RoundedDown(savedAt)' = RoundedDown(savedAt)
    BY <2>1 DEF LastWritten, Present, RoundedDown
  <2>4. RoundedDown(latest)' \in {RoundedDown(savedAt), RoundedDown(latest)}
    BY <2>2 DEF RoundedDown
  <2> QED
    BY <2>1, <2>3, <2>4 DEF Clocks
<1>5. CASE CreateSession
  <2>1. PICK e \in StateRecord : e.mark = 0 /\
           e = [id |-> None, mark |-> 0, digest |-> None, settings |-> None, key |-> None]
    BY DEF StateRecord
  <2>2. PICK s \in StateRecord : s = Stamped(e) /\ s.mark = 0
    BY <2>1, StampedMeans
  <2>3. StateWritten(s) /\ UNCHANGED copy /\ session' = s /\ NewProfile(s)
    BY <1>5, <2>1, <2>2 DEF CreateSession
  <2>4. PICK m \in Nat : m = RoundedDown(latest') /\ m = 0
    BY <2>3, RoundedDownTyped DEF NewProfile
  <2>5. savedAt' = savedAt => clock = savedAt
    BY <2>3 DEF StateWritten
  <2>6. \A f \in LastWritten : View(f).mark >= 0
    BY ViewTyped DEF LastWritten, Present, ProfileTypeOK, StateRecord
  <2> QED
    BY <2>2, <2>3, <2>4, <2>6, ClocksSaved DEF Save
<1>6. CASE Invite
  <2>1. session # None /\ session \in StateRecord /\ saves + 1 \in Nat
    BY <1>6, ProfileAssumption DEF Invite, InSession, Places, ProfileTypeOK
  <2>2. PICK k \in Key : k = [gen |-> saves + 1, n |-> 0]
    BY <2>1 DEF Key
  <2>3. PICK s \in StateRecord : s = [session EXCEPT !.key = k]
    BY <2>1, SessionTyped
  <2>4. s.mark = session.mark
    BY <2>1, <2>3 DEF StateRecord
  <2> QED
    BY <1>6, <2>1, <2>2, <2>3, <2>4, ClocksKept DEF Invite, SaveSession
<1>7. CASE SendText
  <2>1. session # None /\ session \in StateRecord
    BY <1>7 DEF SendText, InSession, Places, ProfileTypeOK
  <2>2. PICK s \in StateRecord : s = [session EXCEPT !.key.n = @ + 1]
    BY <1>7, <2>1, SessionTyped DEF SendText
  <2>3. s.mark = session.mark
    BY <2>1, <2>2 DEF StateRecord
  <2> QED
    BY <1>7, <2>1, <2>2, <2>3, ClocksKept DEF SendText, SaveSession
<1>8. CASE (\E v \in Settings : SetWipeSettings(v)) \/ WipeSettingsAccept
  <2>1. RecordWipeSettings /\ settingsFile' \in Settings /\ InSession
    BY <1>8 DEF SetWipeSettings, WipeSettingsAccept, ProfileTypeOK
  <2>2. session # None /\ session \in StateRecord
    BY <2>1 DEF InSession, Places, ProfileTypeOK
  <2>3. PICK s \in StateRecord : s = [session EXCEPT !.settings = settingsFile']
                                 /\ s.mark = session.mark
    BY <2>1, <2>2, SessionTyped DEF StateRecord
  <2> QED
    BY <2>1, <2>2, <2>3, ClocksKept DEF RecordWipeSettings, SaveSession
<1>9. CASE BinaryAccept
  <2>1. session # None /\ session \in StateRecord /\ running \in Binaries
    BY <1>9 DEF BinaryAccept, InSession, Places, ProfileTypeOK
  <2>2. PICK s \in StateRecord : s = [session EXCEPT !.digest = running] /\ s.mark = session.mark
    BY <2>1, SessionTyped DEF StateRecord
  <2> QED
    BY <1>9, <2>1, <2>2, ClocksKept DEF BinaryAccept, SaveSession
<1>10. CASE ClockReset
  <2>1. session # None /\ session \in StateRecord /\ clock \in Nat
    BY <1>10, ProfileAssumption DEF ClockReset, InSession, Places, ProfileTypeOK
  <2>2. PICK s \in StateRecord : s = [session EXCEPT !.mark = clock]
    BY <2>1, SessionTyped
  <2>3. PICK z \in StateRecord : z = [session EXCEPT !.mark = 0]
    BY <2>1, SessionTyped
  <2>4. s.mark >= 0 /\ z.mark >= 0
    BY DEF StateRecord
  <2>5. Save(z) /\ UNCHANGED copy /\ session' = s /\ latest' = 0
    BY <1>10, <2>2, <2>3 DEF ClockReset
  <2>6. PICK m \in Nat : m = RoundedDown(latest') /\ m = 0
    BY <2>5, RoundedDownTyped
  <2>7. \A f \in LastWritten : View(f).mark >= 0
    BY ViewTyped DEF LastWritten, Present, ProfileTypeOK, StateRecord
  <2> QED
    BY <2>4, <2>5, <2>6, <2>7, ClocksSaved
<1>11. CASE Wipe
  <2>1. latest' = 0 /\ stateFile' = None /\ session' = None /\ UNCHANGED <<copy, last, savedAt>>
    BY <1>11 DEF Wipe, SessionEnds
  <2>2. \A f \in LastWritten : View(f).mark >= 0 /\ View(f).mark >= RoundedDown(savedAt)
    BY ViewTyped DEF Clocks, LastWritten, Present, ProfileTypeOK, StateRecord
  <2>3. LastWritten' \subseteq LastWritten /\ RoundedDown(savedAt)' = RoundedDown(savedAt)
    BY <2>1 DEF LastWritten, Present, RoundedDown
  <2>4. RoundedDown(latest)' = 0
    <3>1. RoundedDown(0) = 0
      BY RoundedDownTyped
    <3> QED
      BY <2>1, <3>1 DEF RoundedDown
  <2> QED
    BY <2>1, <2>2, <2>3, <2>4 DEF Clocks
<1>12. CASE SubmitRestoreProfilePass
  <2>1. PICK s \in StateRecord : s = BackupView(restoring)
    BY <1>12, BackupViewMeans DEF SubmitRestoreProfilePass, Places
  <2>2. Save(s) /\ UNCHANGED <<copy, latest, session>> /\ session = None /\ latest = 0
    BY <1>12, <2>1
       DEF SubmitRestoreProfilePass, InstallFreshProfile, Save, StateExists, Places
  <2>3. PICK m \in Nat : m = RoundedDown(latest') /\ m = 0
    BY <2>2, RoundedDownTyped
  <2>4. s.mark >= 0 /\ \A f \in LastWritten : View(f).mark >= 0
    BY ViewTyped DEF LastWritten, Present, ProfileTypeOK, StateRecord
  <2> QED
    BY <2>2, <2>3, <2>4, ClocksSaved
<1>13. CASE OpenRestoredSession
  <2>1. restoring \in StateRecord
    BY <1>13 DEF OpenRestoredSession, Places
  <2>2. PICK s \in StateRecord : s = Stamped(restoring) /\ s.mark \in Nat
    BY <2>1, StampedMeans DEF StateRecord
  <2>3. Save(s) /\ UNCHANGED copy /\ session' = s /\ latest' = 0
    BY <1>13, <2>2 DEF OpenRestoredSession, NewProfile
  <2>4. PICK m \in Nat : m = RoundedDown(latest') /\ m = 0
    BY <2>3, RoundedDownTyped
  <2>5. s.mark >= 0 /\ \A f \in LastWritten : View(f).mark >= 0
    BY <2>2, ViewTyped DEF LastWritten, Present, ProfileTypeOK, StateRecord
  <2> QED
    BY <2>3, <2>4, <2>5, ClocksSaved
<1>14. CASE TakeCopy
  BY <1>14 DEF TakeCopy, StateExists, Clocks, LastWritten, Present, RoundedDown
<1>15. CASE PutCopyBack
  BY <1>15 DEF PutCopyBack, Clocks, LastWritten, Present, RoundedDown
<1> QED
  BY <1>1, <1>2, <1>3, <1>4, <1>5, <1>6, <1>7, <1>8, <1>9, <1>10, <1>11, <1>12, <1>13, <1>14,
     <1>15, Zenon DEF ProfileNext, Aside

-----------------------------------------------------------------------------
(* The theorems *)

ProfileInv == ProfileTypeOK /\ Places /\ Marks /\ Keys /\ Records /\ Clocks

LEMMA ProfileInvInit == ProfileInit => ProfileInv
<1> SUFFICES ASSUME ProfileInit PROVE ProfileInv
  OBVIOUS
<1>1. ProfileTypeOK /\ Places
  BY TypeInit
<1>2. /\ copy = None /\ session = None /\ screen = "off" /\ marking = None /\ sealed = {}
      /\ savedAt = 0 /\ latest = 0 /\ markFile = last
  BY DEF ProfileInit, KnownFrom
<1>3. RoundedDown(savedAt) = 0 /\ RoundedDown(latest) = 0
  BY <1>2, RoundedDownTyped
<1>4. CASE stateFile = None /\ saves = 0 /\ KnownFrom(None)
  BY <1>1, <1>2, <1>3, <1>4
     DEF ProfileInv, Marks, Keys, Records, CopyOfThis, Clocks, Present, LastWritten, Fresh, KnownFrom
<1>5. ASSUME NEW v \in OldVersions, NEW b \in Binaries,
             stateFile = [version |-> v, body |-> SavedByOldBuild(b)],
             saves = 1, KnownFrom(DeserializeBlob(stateFile))
      PROVE  ProfileInv
  <2>1. PICK r \in StateRecord : r = SavedByOldBuild(b)
    BY ProfileAssumption DEF SavedByOldBuild, StateRecord, Key
  <2>2. stateFile \in Blob /\ stateFile # None /\ stateFile.body = r
    BY <1>5, <2>1, ProfileAssumption DEF Blob, BLOB_VERSION
  <2>3. PICK s \in StateRecord : s = View(stateFile)
    BY <2>2, ViewTyped
  <2>4. s.id \in {None, 1} /\ (s.key # None => s.key.gen = 0) /\ s.mark >= 0
    <3>1. r.id = 1 /\ r.key.gen = 0
      BY <2>1 DEF SavedByOldBuild
    <3> QED
      BY <2>2, <2>3, <3>1 DEF View, DeserializeBlob, StateRecord
  <2>5. last = s.id /\ known = [settings |-> s.settings, binary |-> s.digest]
    BY <1>5, <2>3, ProfileAssumption DEF KnownFrom, View
  <2>6. Present = {stateFile}
    BY <1>2, <2>2 DEF Present
  <2>7. Marks /\ Keys
    BY <1>2, <1>5, <2>3, <2>4, <2>5, <2>6 DEF Marks, Keys, LastWritten, Fresh
  <2>8. Records
    BY <1>2, <2>2, <2>3, <2>5, <2>6 DEF Records, CopyOfThis, LastWritten
  <2>9. Clocks
    BY <1>2, <1>3, <2>3, <2>4, <2>6 DEF Clocks, LastWritten
  <2> QED
    BY <1>1, <2>7, <2>8, <2>9 DEF ProfileInv
<1> QED
  BY <1>4, <1>5 DEF ProfileInit

LEMMA ProfileInvStep == ProfileInv /\ [ProfileNext]_profileVars => ProfileInv'
BY TypeStep, MarksStep, KeysStep, RecordsStep, ClocksStep DEF ProfileInv

LEMMA ProfileInvHolds == ProfileSpec => []ProfileInv
BY ProfileInvInit, ProfileInvStep, PTL DEF ProfileSpec

(* Only try_unlock leads from the unlock prompt into a session. *)
LEMMA UnlockIsTryUnlock ==
    ASSUME [ProfileNext]_profileVars, Unlocks
    PROVE  TryUnlock
<1> USE DEF files, program, history, Unlocks
<1>1. screen = "unlock" /\ screen' = "main"
  OBVIOUS
<1>2. ~(UNCHANGED screen)
  BY <1>1
<1> QED
  BY <1>1, <1>2
     DEF ProfileNext, profileVars, MarkWritten, MarkFails, Start, LockUi, Stop, CreateSession,
         Invite, SendText, SetWipeSettings, WipeSettingsAccept, RecordWipeSettings, SaveSession,
         BinaryAccept, ClockReset, Wipe, HandleBackup, SubmitBackupExport, CancelBackupEntry,
         BeginRestore, SubmitRestorePath, SubmitRestoreFilePass, SubmitRestoreProfilePass,
         RestoreFindsProfile, OpenRestoredSession, ClockIsSet, TakeCopy, PutCopyBack, RemoveMark,
         ChangeSettingsByHand, InSession

(* Everything in the profile, in its files and in what is shown of them is what it is said to *)
(* be: `ProfileTypeOK` holds throughout.                                                      *)
THEOREM ProfileIsTyped == ProfileSpec => []ProfileTypeOK
<1>1. ProfileInv => ProfileTypeOK
  BY DEF ProfileInv
<1> QED
  BY ProfileInvHolds, <1>1, PTL

(* An unlock (try_unlock) warns of a state.enc that is not the one this program wrote last,   *)
(* and does not warn of that one (save_mark_status, write_save_mark).                         *)
THEOREM OlderCopiesAreReported == ProfileSpec => OlderCopyWarned
<1>1. ASSUME ProfileInv, [ProfileNext]_profileVars, Unlocks, ~unmarked
      PROVE  LET id == DeserializeBlob(stateFile).id
             IN  /\ (id \notin {last, None}) => warn'.mark \in {"older-copy", "mark-missing"}
                 /\ (id = last /\ markFile # None) => warn'.mark = "ok"
  <2>1. TryUnlock
    BY <1>1, UnlockIsTryUnlock
  <2>2. PICK id : id = DeserializeBlob(stateFile).id
    OBVIOUS
  <2>3. warn'.mark = SaveMarkStatus(id, markFile)
    BY <2>1, <2>2 DEF TryUnlock, Checks
  <2>4. markFile \in {None, last}
    BY <1>1 DEF ProfileInv, Marks
  <2>5. (id \notin {last, None}) => warn'.mark \in {"older-copy", "mark-missing"}
    BY <2>3, <2>4 DEF SaveMarkStatus
  <2>6. (id = last /\ markFile # None) => warn'.mark = "ok"
    BY <2>3, <2>4 DEF SaveMarkStatus
  <2> QED
    BY <2>2, <2>5, <2>6
<1>2. ProfileInv /\ [ProfileNext]_profileVars
        => [(Unlocks /\ ~unmarked) =>
              LET id == DeserializeBlob(stateFile).id
              IN  /\ (id \notin {last, None}) => warn'.mark \in {"older-copy", "mark-missing"}
                  /\ (id = last /\ markFile # None) => warn'.mark = "ok"]_profileVars
  BY <1>1
<1> QED
  BY ProfileInvHolds, <1>2, PTL DEF ProfileSpec, OlderCopyWarned

(* An unlock warns of wipe settings, of a binary and of a clock other than what the profile   *)
(* last recorded, unless that record was lost or an older file was opened: what is known is   *)
(* in the newest file whenever no session is open (Records), and its clock mark is not behind *)
(* the last save (Clocks).                                                                    *)
THEOREM ChangesAreReported == ProfileSpec => ChangesWarned
<1>1. ASSUME ProfileInv, [ProfileNext]_profileVars, Unlocks, ~older', ~lost
      PROVE  /\ (known.settings \notin {settingsFile, None}) => warn'.settings
             /\ (None \notin {running, known.binary} /\ running # known.binary) => warn'.binary
             /\ ClockRollback(RoundedDown(latest), clock) => warn'.clock
  <2>1. TryUnlock
    BY <1>1, UnlockIsTryUnlock
  <2>2. /\ stateFile \in LastWritten /\ ~older /\ session = None /\ stateFile \in Blob
        /\ warn' = Checks(View(stateFile))
    BY <1>1, <2>1
       DEF TryUnlock, StateExists, LastWritten, Present, View, ProfileInv, ProfileTypeOK, Places
  <2>3. PICK l \in StateRecord : l = View(stateFile)
    BY <2>2, ViewTyped
  <2>4. known.settings \in {None, l.settings} /\ known.binary \in {None, l.digest}
    BY <1>1, <2>2, <2>3 DEF ProfileInv, Records
  <2>5. PICK m \in Nat : m = RoundedDown(latest) /\ l.mark >= m
    BY <1>1, <2>2, <2>3, RoundedDownTyped DEF ProfileInv, ProfileTypeOK, Clocks
  <2>6. /\ warn'.settings = ChangesSince(l.settings)
        /\ warn'.binary = (BinaryStatus(l.digest) = "changed")
        /\ warn'.clock = ClockRollback(l.mark, clock)
    BY <2>2, <2>3 DEF Checks
  <2>7. (known.settings \notin {settingsFile, None}) => ChangesSince(l.settings)
    BY <2>4 DEF ChangesSince
  <2>8. (None \notin {running, known.binary} /\ running # known.binary)
          => BinaryStatus(l.digest) = "changed"
    BY <2>4 DEF BinaryStatus
  <2>9. ClockRollback(m, clock) => ClockRollback(l.mark, clock)
    <3>1. clock \in Nat /\ l.mark \in Nat /\ CLOCK_ROLLBACK_TOLERANCE_SECS \in Nat
      BY <1>1, ProfileAssumption DEF ProfileInv, ProfileTypeOK, StateRecord
    <3> QED
      BY <2>5, <3>1 DEF ClockRollback
  <2> QED
    BY <2>5, <2>6, <2>7, <2>8, <2>9
<1>2. ProfileInv /\ [ProfileNext]_profileVars
        => [(Unlocks /\ ~older' /\ ~lost) =>
              /\ (known.settings \notin {settingsFile, None}) => warn'.settings
              /\ (None \notin {running, known.binary} /\ running # known.binary) => warn'.binary
              /\ ClockRollback(RoundedDown(latest), clock) => warn'.clock]_profileVars
  BY <1>1
<1> QED
  BY ProfileInvHolds, <1>2, PTL DEF ProfileSpec, ChangesWarned

(* No message key is used twice over the life of the profile, whatever is saved or not,       *)
(* backed up, wiped and restored, unless an older state.enc is opened (send_text, backup_view,*)
(* install_fresh_profile): the next key of the session and of the newest file is past every   *)
(* key used (Keys).                                                                           *)
THEOREM KeysAreUsedOnce == ProfileSpec => NoKeyReused
<1>1. ASSUME ProfileInv, SendText, ~older
      PROVE  session.key \notin sealed
  <2>1. session # None /\ session.key # None /\ session \in StateRecord
    BY <1>1 DEF SendText, InSession, ProfileInv, Places, ProfileTypeOK
  <2>2. session.key \in Key
    BY <2>1 DEF StateRecord
  <2>3. \A k \in sealed : k.gen = session.key.gen => k.n < session.key.n
    BY <1>1, <2>1 DEF ProfileInv, Keys, Fresh
  <2> QED
    BY <2>2, <2>3 DEF Key
<1>2. ProfileInv /\ [ProfileNext]_profileVars
        => [SendText => session.key \notin sealed \/ older]_profileVars
  BY <1>1
<1> QED
  BY ProfileInvHolds, <1>2, PTL DEF ProfileSpec, NoKeyReused

==============================================================================
