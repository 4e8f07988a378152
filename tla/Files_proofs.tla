------------------------------ MODULE Files_proofs ------------------------------
(***************************************************************************)
(* Proofs about the files that several processes replace.  A file replaced *)
(* by way of a temporary file is whole under every reader as long as its   *)
(* writers work one at a time, whatever they leave behind when they die,   *)
(* and the journal of reports loses to a torn entry at most the next.      *)
(* The liveness record hands no turn id out twice unless two processes     *)
(* change it at once or it cannot be read, wherever one is killed and      *)
(* whatever is damaged; and a stream is not believed active longer than    *)
(* somebody held it, as far as the clock answers.  The commands on the     *)
(* project board, which take no lock, leave every card in one place, and   *)
(* stamp the notes of the archived ones, unless they die between two       *)
(* writes or overwrite each other.                                         *)
(***************************************************************************)
EXTENDS FileWrites, LivenessRecord, Board, SequenceTheorems, FiniteSetTheorems,
        WellFoundedInduction, TLAPS

-----------------------------------------------------------------------------
(* Files that are replaced whole.                                          *)

Inodes == 1..Len(inodes)
Busy(w) == hands[w].at # "idle"
Alone(w) == Busy(w) /\ hands[w].alone

Hand == [at : {"idle", "open", "full"}, fd : {0} \cup Inodes, alone : BOOLEAN]

FileTypes ==
  /\ inodes \in Seq(Seq(Units)) /\ target \in Inodes /\ temp \in {0} \cup Inodes
  /\ hands \in [Writers -> Hand]
  /\ \A w \in Writers : Busy(w) => hands[w].fd \in Inodes
  /\ reader # Open => reader.fd \in Inodes

\* An inode that nobody can write to any more.
Settled(i) == i # temp /\ \A w \in Writers : Busy(w) => hands[w].fd # i

\* A lone writer has the temporary file to itself, from the moment it
\* emptied it; what has been put in place by one is settled, and so is what
\* a reader has open.
FileInv ==
  /\ FileTypes
  /\ temp # target
  /\ \A w \in Writers : Alone(w) =>
       /\ \A v \in Writers : Busy(v) => v = w
       /\ hands[w].fd = temp
       /\ inodes[temp] = IF hands[w].at = "full" THEN Text(w) ELSE <<>>
  /\ placed # <<>> => inodes[target] = placed /\ Settled(target)
  /\ reader # Open /\ reader.due # <<>> => inodes[reader.fd] = reader.due /\ Settled(reader.fd)
  /\ got = TRUE

-----------------------------------------------------------------------------
(* What a write does to an inode.                                          *)

Put(t, n, old) == SubSeq(t, 1, n) \o SubSeq(old, n + 1, Len(old))

LEMMA PutIsTyped ==
  ASSUME NEW t \in Seq(Units), NEW n \in 0..Len(t), NEW old \in Seq(Units)
  PROVE  Put(t, n, old) \in Seq(Units)
<1>1. \A i \in 1..n : t[i] \in Units
  BY ElementOfSeq
<1>2. SubSeq(t, 1, n) \in Seq(Units)
  BY <1>1, SubSeqProperties, LenProperties
<1>3. \A i \in (n + 1)..Len(old) : old[i] \in Units
  BY ElementOfSeq, LenProperties
<1>4. SubSeq(old, n + 1, Len(old)) \in Seq(Units)
  BY <1>3, SubSeqProperties, LenProperties
<1> QED BY <1>2, <1>4, ConcatProperties DEF Put

LEMMA PutOnEmpty ==
  ASSUME NEW t \in Seq(Units)
  PROVE  Put(t, Len(t), <<>>) = t
<1>1. SubSeq(<<>>, Len(t) + 1, Len(<<>>)) = <<>>
  BY SubSeqEmpty, LenProperties, EmptySeq
<1>2. SubSeq(t, 1, Len(t)) = t
  BY SubSeqFull
<1> QED BY <1>1, <1>2, ConcatEmptySeq DEF Put

-----------------------------------------------------------------------------
(* The steps of a writer.                                                  *)

LEMMA OpensKeepsFileInv ==
  ASSUME FileInv, NEW w \in Writers, OpensTemp(w)
  PROVE  FileInv'
<1> USE DEF FileInv
<1> DEFINE busy == \E v \in Writers : hands[v].at # "idle"
<1>1. /\ inodes' \in Seq(Seq(Units)) /\ temp' \in Inodes' /\ Inodes \subseteq Inodes'
      /\ inodes'[temp'] = <<>>
      /\ \A i \in Inodes : i # temp => i # temp' /\ inodes'[i] = inodes[i]
  <2>1. <<>> \in Seq(Units) /\ Len(inodes) \in Nat
    BY EmptySeq, LenProperties DEF FileTypes
  <2>2. CASE temp = 0
    <3>1. inodes' = Append(inodes, <<>>) /\ temp' = Len(inodes) + 1
      BY <2>2 DEF OpensTemp
    <3>2. /\ inodes' \in Seq(Seq(Units)) /\ Len(inodes') = Len(inodes) + 1
          /\ \A i \in 1..Len(inodes) : inodes'[i] = inodes[i]
          /\ inodes'[Len(inodes) + 1] = <<>>
      BY <2>1, <3>1, AppendProperties DEF FileTypes
    <3> QED BY <2>1, <3>1, <3>2 DEF Inodes
  <2>3. CASE temp # 0
    <3>1. inodes' = [inodes EXCEPT ![temp] = <<>>] /\ temp' = temp /\ temp \in 1..Len(inodes)
      BY <2>3 DEF OpensTemp, FileTypes, Inodes
    <3>2. /\ inodes' \in Seq(Seq(Units)) /\ Len(inodes') = Len(inodes)
          /\ \A i \in 1..Len(inodes) : inodes'[i] = IF i = temp THEN <<>> ELSE inodes[i]
      BY <2>1, <3>1, ExceptSeq DEF FileTypes
    <3> QED BY <3>1, <3>2 DEF Inodes
  <2> QED BY <2>2, <2>3
<1>2. /\ hands[w].at = "idle" /\ UNCHANGED <<target, placed, reader, got>>
      /\ hands' = [v \in Writers |-> IF v = w THEN [at |-> "open", fd |-> temp', alone |-> ~busy]
                                     ELSE [hands[v] EXCEPT !.alone = @ /\ hands[v].at = "idle"]]
  BY DEF OpensTemp, Enters, ReadFrame
<1>3. hands'[w].at = "open" /\ hands'[w].fd = temp' /\ hands'[w].alone = ~busy
  BY <1>2
<1>4. \A v \in Writers \ {w} :
         /\ hands'[v].at = hands[v].at /\ hands'[v].fd = hands[v].fd
         /\ hands'[v].alone = (hands[v].alone /\ hands[v].at = "idle")
  BY <1>2 DEF FileTypes, Hand
<1>5. hands' \in [Writers -> Hand']
  <2>1. [at |-> "open", fd |-> temp', alone |-> ~busy] \in Hand'
    BY <1>1 DEF Hand
  <2>2. ASSUME NEW v \in Writers
        PROVE  [hands[v] EXCEPT !.alone = @ /\ hands[v].at = "idle"] \in Hand'
    <3>1. hands[v] \in Hand
      BY DEF FileTypes
    <3> DEFINE still == hands[v].alone /\ hands[v].at = "idle"
    <3>2. still \in BOOLEAN
      OBVIOUS
    <3> HIDE DEF still
    <3>3. [hands[v] EXCEPT !.alone = still] \in Hand'
      BY <1>1, <3>1, <3>2 DEF Hand
    <3> QED BY <3>3 DEF still
  <2> QED BY <1>2, <2>1, <2>2
<1>6. FileTypes'
  <2>1. \A v \in Writers : Busy(v)' => hands'[v].fd \in Inodes'
    BY <1>1, <1>3, <1>4 DEF FileTypes, Busy
  <2>2. reader' # Open => reader'.fd \in Inodes'
    BY <1>1, <1>2 DEF FileTypes
  <2>3. target' \in Inodes'
    BY <1>1, <1>2 DEF FileTypes
  <2> QED BY <1>1, <1>5, <2>1, <2>2, <2>3 DEF FileTypes
<1>7. \A v \in Writers \ {w} : ~Alone(v)'
  BY <1>4 DEF Alone, Busy
<1>8. Alone(w)' => \A v \in Writers : Busy(v)' => v = w
  BY <1>3, <1>4 DEF Alone, Busy
<1>9. \A i \in Inodes : Settled(i) => Settled(i)' /\ inodes'[i] = inodes[i]
  BY <1>1, <1>3, <1>4 DEF Settled, Busy
<1>10. target \in Inodes /\ target # temp'
  BY <1>1 DEF FileTypes
<1>11. reader # Open => reader.fd \in Inodes
  BY DEF FileTypes
<1>12. placed' # <<>> => inodes'[target'] = placed' /\ Settled(target)'
  BY <1>2, <1>9, <1>10 DEF Settled
<1>13. reader' # Open /\ reader'.due # <<>> => inodes'[reader'.fd] = reader'.due /\ Settled(reader.fd)'
  BY <1>2, <1>9, <1>11 DEF Settled
<1> QED BY <1>1, <1>2, <1>3, <1>6, <1>7, <1>8, <1>10, <1>12, <1>13

\* A write, all of the text or a part of it, by a writer that goes on or not.
LEMMA PutsKeepsFileInv ==
  ASSUME FileInv, NEW w \in Writers, NEW n \in 0..Len(Text(w)), Busy(w), Puts(w, n),
         hands' = [hands EXCEPT ![w] = Idle] \/
           (hands' = [hands EXCEPT ![w].at = "full"] /\ hands[w].at = "open" /\ n = Len(Text(w))),
         UNCHANGED <<temp, target, placed, reader, got>>
  PROVE  FileInv'
<1> USE DEF FileInv
<1> DEFINE fd == hands[w].fd
           new == Put(Text(w), n, inodes[fd])
<1>1. fd \in 1..Len(inodes) /\ Text(w) \in Seq(Units) /\ inodes[fd] \in Seq(Units)
  BY FileWritesAssumption, ElementOfSeq DEF FileTypes, Inodes
<1>2. new \in Seq(Units)
  BY <1>1, PutIsTyped
<1>3. inodes' = [inodes EXCEPT ![fd] = new]
  BY DEF Puts, Put
<1>4. /\ inodes' \in Seq(Seq(Units)) /\ Inodes' = Inodes
      /\ \A i \in Inodes : inodes'[i] = IF i = fd THEN new ELSE inodes[i]
  BY <1>1, <1>2, <1>3, ExceptSeq DEF FileTypes, Inodes
<1>5. /\ \A v \in Writers \ {w} : hands'[v] = hands[v]
      /\ hands'[w] = Idle \/
           (/\ hands[w].at = "open" /\ n = Len(Text(w)) /\ hands'[w].at = "full"
            /\ hands'[w].fd = hands[w].fd /\ hands'[w].alone = hands[w].alone)
  BY DEF FileTypes, Hand
<1>6. hands' \in [Writers -> Hand]
  <2>1. hands[w] \in Hand /\ Idle \in Hand
    BY DEF FileTypes, Hand, Idle
  <2>2. [hands[w] EXCEPT !.at = "full"] \in Hand
    BY <2>1 DEF Hand
  <2>3. hands' = [hands EXCEPT ![w] = Idle] \/ hands' = [hands EXCEPT ![w] = [hands[w] EXCEPT !.at = "full"]]
    OBVIOUS
  <2> QED BY <2>1, <2>2, <2>3 DEF FileTypes
<1>7. \A v \in Writers : /\ Busy(v)' => Busy(v) /\ hands'[v].fd = hands[v].fd
                         /\ Alone(v)' => Alone(v)
  BY <1>5 DEF Busy, Alone, Idle
<1>8. FileTypes'
  BY <1>4, <1>6, <1>7 DEF FileTypes, Busy, Hand
<1>9. \A i \in Inodes : Settled(i) => Settled(i)' /\ inodes'[i] = inodes[i]
  BY <1>4, <1>7 DEF Settled
<1>10. target \in Inodes /\ (reader # Open => reader.fd \in Inodes)
  BY DEF FileTypes
<1>11. ASSUME NEW v \in Writers, Alone(v)'
       PROVE  /\ \A u \in Writers : Busy(u)' => u = v
              /\ hands'[v].fd = temp'
              /\ inodes'[temp'] = IF hands'[v].at = "full" THEN Text(v) ELSE <<>>
  <2>1. Alone(v) /\ v = w /\ fd = temp /\ \A u \in Writers : Busy(u)' => u = v
    BY <1>7, <1>11 DEF Alone
  <2>2. hands[w].at = "open" /\ n = Len(Text(w)) /\ hands'[w].at = "full" /\ hands'[w].fd = fd
    BY <1>5, <1>11, <2>1 DEF Alone, Busy, Idle
  <2>3. inodes[fd] = <<>>
    BY <2>1, <2>2
  <2>4. new = Text(w)
    BY <1>1, <2>2, <2>3, PutOnEmpty
  <2>5. inodes'[fd] = new
    BY <1>1, <1>4 DEF Inodes
  <2> QED BY <2>1, <2>2, <2>4, <2>5
<1>12. placed # <<>> => inodes'[target] = placed /\ Settled(target)'
  BY <1>9, <1>10 DEF Settled
<1>13. reader # Open /\ reader.due # <<>> => inodes'[reader.fd] = reader.due /\ Settled(reader.fd)'
  BY <1>9, <1>10 DEF Settled
<1> QED BY <1>8, <1>11, <1>12, <1>13

LEMMA RenamesKeepsFileInv ==
  ASSUME FileInv, NEW w \in Writers, Renames(w)
  PROVE  FileInv'
<1> USE DEF FileInv
<1>1. /\ hands[w].at = "full" /\ hands' = [hands EXCEPT ![w] = Idle]
      /\ UNCHANGED <<inodes, reader, got>>
  BY DEF Renames, ReadFrame
<1>2. /\ hands'[w] = Idle /\ \A v \in Writers \ {w} : hands'[v] = hands[v]
      /\ hands' \in [Writers -> Hand]
  BY <1>1 DEF FileTypes, Hand, Idle
<1>3. \A v \in Writers : Busy(v)' => Busy(v) /\ hands'[v] = hands[v] /\ v # w
  BY <1>2 DEF Busy, Idle
<1>4. CASE temp = 0
  <2>1. UNCHANGED <<temp, target, placed>>
    BY <1>4 DEF Renames
  <2>2. FileTypes'
    BY <1>1, <1>2, <1>3, <2>1 DEF FileTypes, Busy, Inodes, Hand
  <2>3. \A i : Settled(i) => Settled(i)'
    BY <1>3, <2>1 DEF Settled
  <2>4. \A v \in Writers : Alone(v)' => Alone(v) /\ hands'[v] = hands[v]
    BY <1>3 DEF Alone
  <2>5. (placed # <<>> => Settled(target)') /\ (reader # Open /\ reader.due # <<>> => Settled(reader.fd)')
    BY <1>1, <2>1, <2>3 DEF Settled
  <2> QED BY <1>1, <1>3, <2>1, <2>2, <2>4, <2>5
<1>5. CASE temp # 0
  <2>1. /\ target' = temp /\ temp' = 0
        /\ placed' = IF hands[w].alone THEN Text(w) ELSE <<>>
    BY <1>5 DEF Renames
  <2>2. FileTypes'
    BY <1>1, <1>2, <1>3, <1>5, <2>1 DEF FileTypes, Busy, Inodes, Hand
  <2>3. \A v \in Writers : ~Alone(v)'
    <3> SUFFICES ASSUME NEW v \in Writers, Alone(v)' PROVE FALSE
      OBVIOUS
    <3>1. Alone(v) /\ v # w /\ Busy(w)
      BY <1>1, <1>3 DEF Alone, Busy
    <3> QED BY <3>1
  <2>4. placed' # <<>> => inodes'[target'] = placed' /\ Settled(target)'
    <3> SUFFICES ASSUME hands[w].alone PROVE inodes'[target'] = placed' /\ Settled(target)'
      BY <2>1
    <3>1. Alone(w) /\ inodes[temp] = Text(w)
      BY <1>1 DEF Alone, Busy
    <3>2. \A v \in Writers : ~Busy(v)'
      BY <1>3, <3>1
    <3> QED BY <1>1, <1>5, <2>1, <3>1, <3>2 DEF Settled
  <2>5. reader # Open /\ reader.due # <<>> => Settled(reader.fd)'
    BY <1>1, <1>3, <2>1 DEF Settled, FileTypes, Inodes
  <2>6. temp' # target'
    BY <1>5, <2>1
  <2> QED BY <1>1, <2>2, <2>3, <2>4, <2>5, <2>6
<1> QED BY <1>4, <1>5

-----------------------------------------------------------------------------
LEMMA FileInvStep == FileInv /\ [FileNext]_fileVars => FileInv'
<1> SUFFICES ASSUME FileInv, [FileNext]_fileVars PROVE FileInv'
  OBVIOUS
<1>1. ASSUME NEW w \in Writers, Fills(w) \/ \E n \in 0..Len(Text(w)) : Stops(w, n)
      PROVE  FileInv'
  <2>1. CASE Fills(w)
    <3>1. Len(Text(w)) \in 0..Len(Text(w))
      BY FileWritesAssumption, LenProperties
    <3> QED BY <2>1, <3>1, PutsKeepsFileInv DEF Fills, ReadFrame, Busy
  <2>2. ASSUME NEW n \in 0..Len(Text(w)), Stops(w, n) PROVE FileInv'
    BY <2>2, PutsKeepsFileInv DEF Stops, ReadFrame, Busy
  <2> QED BY <1>1, <2>1, <2>2
<1>2. CASE OpensFile
  <2>1. /\ reader' = [fd |-> target, due |-> placed]
        /\ UNCHANGED <<inodes, temp, target, hands, replaces, placed, got>>
    BY <1>2 DEF OpensFile
  <2>2. FileTypes'
    BY <2>1 DEF FileInv, FileTypes, Busy, Inodes, Hand
  <2> QED BY <2>1, <2>2 DEF FileInv, Settled, Busy, Alone
<1>3. CASE ReadsFile
  <2>1. /\ reader # Open /\ reader' = Open
        /\ got' = (reader.due = <<>> \/ inodes[reader.fd] = reader.due)
        /\ UNCHANGED <<inodes, temp, target, hands, replaces, placed>>
    BY <1>3 DEF ReadsFile
  <2>2. got' = TRUE
    BY <2>1 DEF FileInv
  <2>3. FileTypes'
    BY <2>1 DEF FileInv, FileTypes, Busy, Inodes, Hand
  <2> QED BY <2>1, <2>2, <2>3 DEF FileInv, Settled, Busy, Alone
<1>4. CASE UNCHANGED fileVars
  <2>1. FileTypes'
    BY <1>4 DEF fileVars, FileInv, FileTypes, Busy, Inodes, Hand
  <2> QED BY <1>4, <2>1 DEF fileVars, FileInv, Settled, Busy, Alone
<1> QED
  BY <1>1, <1>2, <1>3, <1>4, OpensKeepsFileInv, RenamesKeepsFileInv DEF FileNext

LEMMA FileInvInit == FileInit => FileInv
<1> SUFFICES ASSUME FileInit PROVE FileInv
  OBVIOUS
<1>1. inodes \in Seq(Seq(Units)) /\ Len(inodes) = 1 /\ inodes[1] = First
  BY FileWritesAssumption DEF FileInit
<1>2. \A w \in Writers : ~Busy(w)
  BY DEF FileInit, Idle, Busy
<1>3. hands \in [Writers -> Hand]
  BY DEF FileInit, Idle, Hand
<1>4. FileTypes
  BY <1>1, <1>2, <1>3 DEF FileInit, FileTypes, Inodes
<1> QED BY <1>1, <1>2, <1>4 DEF FileInit, FileInv, Alone, Settled

\* Replacements are counted up to their bound.
Counted == replaces \in 0..MaxReplaces

LEMMA CountedStep == Counted /\ [FileNext]_fileVars => Counted'
<1> SUFFICES ASSUME Counted, [FileNext]_fileVars PROVE Counted'
  OBVIOUS
<1>1. ASSUME NEW w \in Writers, OpensTemp(w) PROVE Counted'
  BY <1>1, FileWritesAssumption DEF OpensTemp, Counted
<1>2. ASSUME NEW w \in Writers, Fills(w) \/ Renames(w) \/ \E n \in 0..Len(Text(w)) : Stops(w, n)
      PROVE  Counted'
  BY <1>2 DEF Fills, Renames, Stops, Counted
<1>3. CASE OpensFile \/ ReadsFile \/ UNCHANGED fileVars
  BY <1>3 DEF OpensFile, ReadsFile, fileVars, Counted
<1> QED BY <1>1, <1>2, <1>3 DEF FileNext

LEMMA FileInvEnough == FileInv /\ Counted => FilesTypeOK /\ ReplacedWhole
<1> SUFFICES ASSUME FileInv, Counted PROVE FilesTypeOK /\ ReplacedWhole
  OBVIOUS
<1>1. /\ inodes \in Seq(Seq(Units)) /\ target \in Inodes /\ temp \in {0} \cup Inodes
      /\ hands \in [Writers -> Hand]
  BY DEF FileInv, FileTypes
<1>2. Len(inodes) \in Nat /\ DOMAIN inodes = 1..Len(inodes)
  BY <1>1, LenProperties
<1>3. \A w \in Writers : hands[w].at \in {"idle", "open", "full"} /\ hands[w].fd \in 0..Len(inodes)
  BY <1>1, <1>2 DEF Hand, Inodes
<1>4. FilesTypeOK
  BY <1>1, <1>2, <1>3 DEF FilesTypeOK, Inodes, FileInv, Counted
<1> QED BY <1>4 DEF FileInv, ReplacedWhole

(* As long as no two writers of a file overlap, the file is what the last  *)
(* of them wrote, and every reader gets a whole text, whatever dies where: *)
(* ReplacedWhole, for any writers and texts, of whatever length.           *)
THEOREM FilesAreReplacedWhole == FileSpec => [](FilesTypeOK /\ ReplacedWhole)
<1>1. FileInit => FileInv /\ Counted
  BY FileInvInit, FileWritesAssumption DEF FileInit, Counted
<1>2. FileInv /\ Counted /\ [FileNext]_fileVars => FileInv' /\ Counted'
  BY FileInvStep, CountedStep
<1> QED BY <1>1, <1>2, FileInvEnough, PTL DEF FileSpec

-----------------------------------------------------------------------------
(* The least of some numbers, and the greatest.                            *)

LEMMA LeastOfNats ==
  ASSUME NEW P, P \subseteq Nat, P # {}
  PROVE  \E i \in P : \A j \in P : i <= j
<1> DEFINE R == OpToRel(<, Nat)
<1>1. IsWellFoundedOn(R, Nat)
  BY NatLessThanWellFounded
<1> HIDE DEF R
<1>2. PICK i \in P : \A j \in P : ~ (<<j, i>> \in R)
  BY <1>1, WFMin
<1>3. \A j \in P : ~ (j < i)
  BY <1>2 DEF R, OpToRel
<1> QED BY <1>3

LEMMA GreatestUpTo ==
  ASSUME NEW n \in Nat, NEW P, P \subseteq 0..n, P # {}
  PROVE  \E i \in P : \A j \in P : j <= i
<1> DEFINE Q == {k \in Nat : \E i \in P : k = n - i}
<1>1. Q \subseteq Nat /\ Q # {}
  <2>1. PICK i \in P : TRUE
    OBVIOUS
  <2>2. n - i \in Q
    BY <2>1
  <2> QED BY <2>2
<1>2. PICK k \in Q : \A j \in Q : k <= j
  BY <1>1, LeastOfNats
<1>3. PICK i \in P : k = n - i
  OBVIOUS
<1>4. ASSUME NEW j \in P PROVE j <= i
  <2>1. n - j \in Q
    OBVIOUS
  <2> QED BY <1>2, <1>3, <2>1
<1> QED BY <1>4

-----------------------------------------------------------------------------
(* The journal.  Lines are gathered from entries, and entries from lines,  *)
(* by folds: what a fold gives is what it gave before the last element, and *)
(* one step more.                                                          *)

Fold(k, acc, e) == IF k = "lines" THEN RunsOn(acc, e) ELSE Collects(acc, e)

\* How FoldLeft goes about it: over every set of the places up to n.
IsFold(k, s, n, f) ==
  f = [d \in SUBSET (1..n) |-> IF d = {} THEN <<>> ELSE Fold(k, f[d \ {Max(d)}], s[Max(d)])]

LEMMA MaxIs ==
  ASSUME NEW n \in Nat, NEW d, d \subseteq 1..n, d # {}
  PROVE  Max(d) \in d /\ \A y \in d : y <= Max(d)
<1>1. PICK i \in d : \A y \in d : y <= i
  <2>1. d \subseteq 0..n
    OBVIOUS
  <2>2. QED
    BY <2>1, GreatestUpTo
<1>2. \E x \in d : \A y \in d : x >= y
  BY <1>1
<1>3. QED
  BY <1>2 DEF Max

LEMMA MaxIsTheOne ==
  ASSUME NEW n \in Nat, NEW d, d \subseteq 1..n, NEW x \in d, \A y \in d : y <= x
  PROVE  Max(d) = x
<1>1. Max(d) \in d /\ \A y \in d : y <= Max(d)
  <2>1. d # {}
    OBVIOUS
  <2>2. QED
    BY <2>1, MaxIs
<1>2. \A y \in d : y \in Int
  OBVIOUS
<1>3. Max(d) <= x /\ x <= Max(d) /\ Max(d) \in Int /\ x \in Int
  BY <1>1, <1>2
<1>4. QED
  BY <1>3

LEMMA FoldExists ==
  ASSUME NEW k, NEW s, NEW n \in Nat
  PROVE  \E f : IsFold(k, s, n, f)
<1> DEFINE P == {m \in Nat : ~\E f : IsFold(k, s, m, f)}
<1> SUFFICES ASSUME P # {} PROVE FALSE
  OBVIOUS
<1>1. PICK m \in P : \A i \in P : m <= i
  BY LeastOfNats
<1>2. m # 0
  <2>1. IsFold(k, s, 0, [d \in SUBSET (1..0) |-> <<>>])
    BY DEF IsFold
  <2>2. QED
    BY <2>1
<1>3. PICK f : IsFold(k, s, m - 1, f)
  <2>1. m - 1 \in Nat /\ m - 1 \notin P
    BY <1>1, <1>2
  <2>2. QED
    BY <2>1
<1> DEFINE g == [d \in SUBSET (1..m) |->
                   IF d = {} THEN <<>> ELSE IF m \in d THEN Fold(k, f[d \ {m}], s[m]) ELSE f[d]]
<1>4. f[{}] = <<>> /\ \A d \in SUBSET (1..(m - 1)) : d # {} => f[d] = Fold(k, f[d \ {Max(d)}], s[Max(d)])
  BY <1>3 DEF IsFold
<1>5. ASSUME NEW d \in SUBSET (1..m)
      PROVE  g[d] = IF d = {} THEN <<>> ELSE Fold(k, g[d \ {Max(d)}], s[Max(d)])
  <2>1. CASE m \in d
    <3>1. Max(d) = m
      <4>1. d \subseteq 1..m /\ m \in Nat /\ \A y \in d : y <= m
        OBVIOUS
      <4>2. QED
        BY <2>1, <4>1, MaxIsTheOne
    <3>2. d \ {m} \in SUBSET (1..m) /\ m \notin d \ {m}
      OBVIOUS
    <3>3. g[d \ {m}] = f[d \ {m}]
      BY <1>4, <3>2
    <3>4. QED
      BY <2>1, <3>1, <3>3
  <2>2. CASE m \notin d /\ d # {}
    <3>1. d \in SUBSET (1..(m - 1))
      BY <2>2
    <3>2. g[d] = Fold(k, f[d \ {Max(d)}], s[Max(d)])
      BY <1>4, <2>2, <3>1
    <3>3. d \ {Max(d)} \in SUBSET (1..m) /\ m \notin d \ {Max(d)}
      BY <2>2
    <3>4. g[d \ {Max(d)}] = f[d \ {Max(d)}]
      BY <1>4, <3>3
    <3>5. QED
      BY <2>2, <3>2, <3>4
  <2>3. CASE d = {}
    BY <2>3
  <2>4. QED
    BY <2>1, <2>2, <2>3
<1>6. g = [d \in SUBSET (1..m) |-> IF d = {} THEN <<>> ELSE Fold(k, g[d \ {Max(d)}], s[Max(d)])]
  BY <1>5
<1>7. IsFold(k, s, m, g)
  BY <1>6 DEF IsFold
<1>8. QED
  BY <1>1, <1>7

LEMMA FoldPrefix ==
  ASSUME NEW k, NEW s, NEW n \in Nat, NEW f, IsFold(k, s, n, f)
  PROVE  f[1..0] = <<>> /\ \A i \in 1..n : f[1..i] = Fold(k, f[1..(i - 1)], s[i])
<1>1. f[1..0] = <<>>
  BY DEF IsFold
<1>2. ASSUME NEW i \in 1..n PROVE f[1..i] = Fold(k, f[1..(i - 1)], s[i])
  <2>1. 1..i \in SUBSET (1..n) /\ 1..i # {} /\ i \in 1..i
    BY <1>2
  <2>2. Max(1..i) = i
    <3>1. 1..i \subseteq 1..n /\ \A y \in 1..i : y <= i
      OBVIOUS
    <3>2. QED
      BY <2>1, <3>1, MaxIsTheOne
  <2>3. (1..i) \ {i} = 1..(i - 1)
    OBVIOUS
  <2>4. f[1..i] = Fold(k, f[(1..i) \ {Max(1..i)}], s[Max(1..i)])
    BY <2>1 DEF IsFold
  <2>5. QED
    BY <2>2, <2>3, <2>4
<1>3. QED
  BY <1>1, <1>2

LEMMA FoldAgrees ==
  ASSUME NEW k, NEW s, NEW t, NEW n \in Nat, NEW m \in Nat, NEW f, NEW g,
         IsFold(k, s, n, f), IsFold(k, t, m, g), n <= m, \A i \in 1..n : s[i] = t[i]
  PROVE  f[1..n] = g[1..n]
<1> DEFINE P == {i \in 0..n : f[1..i] # g[1..i]}
<1> SUFFICES ASSUME P # {} PROVE FALSE
  OBVIOUS
<1>1. PICK i \in P : \A j \in P : i <= j
  <2>1. P \subseteq Nat
    OBVIOUS
  <2>2. QED
    BY <2>1, LeastOfNats
<1>2. f[1..0] = <<>> /\ \A j \in 1..n : f[1..j] = Fold(k, f[1..(j - 1)], s[j])
  BY FoldPrefix
<1>3. g[1..0] = <<>> /\ \A j \in 1..m : g[1..j] = Fold(k, g[1..(j - 1)], t[j])
  BY FoldPrefix
<1>4. i # 0
  BY <1>1, <1>2, <1>3
<1>5. i - 1 \in 0..n /\ i - 1 \notin P /\ i \in 1..n /\ i \in 1..m
  BY <1>1, <1>4
<1>6. f[1..(i - 1)] = g[1..(i - 1)]
  BY <1>5
<1>7. f[1..i] = g[1..i]
  BY <1>2, <1>3, <1>5, <1>6
<1>8. QED
  BY <1>1, <1>7

LEMMA FoldAppends ==
  ASSUME NEW k, NEW S, NEW s \in Seq(S), NEW e \in S, NEW f, NEW g,
         IsFold(k, s, Len(s), f), IsFold(k, Append(s, e), Len(s) + 1, g)
  PROVE  g[1..(Len(s) + 1)] = Fold(k, f[1..Len(s)], e)
<1> DEFINE t == Append(s, e)
           n == Len(s)
<1>1. n \in Nat /\ t[n + 1] = e /\ \A i \in 1..n : s[i] = t[i]
  BY AppendProperties, LenProperties
<1>2. f[1..n] = g[1..n]
  <2> HIDE DEF n, t
  <2>1. n <= n + 1 /\ n + 1 \in Nat
    BY <1>1
  <2>2. IsFold(k, s, n, f) /\ IsFold(k, t, n + 1, g)
    BY DEF n, t
  <2>3. QED
    BY <1>1, <2>1, <2>2, FoldAgrees
<1>3. g[1..(n + 1)] = Fold(k, g[1..n], t[n + 1])
  <2> HIDE DEF n, t
  <2>1. n + 1 \in Nat /\ n + 1 \in 1..(n + 1) /\ (n + 1) - 1 = n
    BY <1>1
  <2>2. IsFold(k, t, n + 1, g)
    BY DEF n, t
  <2>3. \A i \in 1..(n + 1) : g[1..i] = Fold(k, g[1..(i - 1)], t[i])
    BY <2>1, <2>2, FoldPrefix
  <2>4. QED
    BY <2>1, <2>3
<1>4. QED
  BY <1>1, <1>2, <1>3

LEMMA LinesFold ==
  ASSUME NEW s, NEW n \in Nat, DOMAIN s = 1..n
  PROVE  \E f : IsFold("lines", s, n, f) /\ LinesOf(s) = f[1..n]
<1> DEFINE Eq(iter) == iter = [d \in SUBSET DOMAIN s |->
                                 IF d = {} THEN <<>> ELSE RunsOn(iter[d \ {Max(d)}], s[Max(d)])]
<1>1. LinesOf(s) = (CHOOSE iter : Eq(iter))[DOMAIN s]
  BY DEF LinesOf, FoldLeft, MapThenFoldSet
<1>2. ASSUME NEW f PROVE Eq(f) <=> IsFold("lines", s, n, f)
  BY DEF IsFold, Fold
<1>3. \E f : Eq(f)
  BY <1>2, FoldExists
<1> HIDE DEF Eq
<1>4. Eq(CHOOSE iter : Eq(iter))
  BY <1>3
<1>5. QED
  BY <1>1, <1>2, <1>4

Collected(ls) == FoldLeft(Collects, <<>>, ls)

LEMMA CollectedFold ==
  ASSUME NEW s, NEW n \in Nat, DOMAIN s = 1..n
  PROVE  \E f : IsFold("entries", s, n, f) /\ Collected(s) = f[1..n]
<1> DEFINE Eq(iter) == iter = [d \in SUBSET DOMAIN s |->
                                 IF d = {} THEN <<>> ELSE Collects(iter[d \ {Max(d)}], s[Max(d)])]
<1>1. Collected(s) = (CHOOSE iter : Eq(iter))[DOMAIN s]
  BY DEF Collected, FoldLeft, MapThenFoldSet
<1>2. ASSUME NEW f PROVE Eq(f) <=> IsFold("entries", s, n, f)
  BY DEF IsFold, Fold
<1>3. \E f : Eq(f)
  BY <1>2, FoldExists
<1> HIDE DEF Eq
<1>4. Eq(CHOOSE iter : Eq(iter))
  BY <1>3
<1>5. QED
  BY <1>1, <1>2, <1>4

LEMMA LinesAppend ==
  ASSUME NEW S, NEW j \in Seq(S), NEW e \in S
  PROVE  LinesOf(Append(j, e)) = RunsOn(LinesOf(j), e)
<1>1. DOMAIN j = 1..Len(j) /\ DOMAIN Append(j, e) = 1..(Len(j) + 1) /\ Len(j) \in Nat
  BY AppendProperties, LenProperties
<1>2. PICK f : IsFold("lines", j, Len(j), f) /\ LinesOf(j) = f[1..Len(j)]
  BY <1>1, LinesFold
<1>3. PICK g : IsFold("lines", Append(j, e), Len(j) + 1, g) /\ LinesOf(Append(j, e)) = g[1..(Len(j) + 1)]
  <2>1. Len(j) + 1 \in Nat
    BY <1>1
  <2>2. QED
    BY <1>1, <2>1, LinesFold
<1>4. g[1..(Len(j) + 1)] = Fold("lines", f[1..Len(j)], e)
  BY <1>2, <1>3, FoldAppends
<1>5. QED
  BY <1>2, <1>3, <1>4 DEF Fold

LEMMA CollectedAppend ==
  ASSUME NEW S, NEW ls \in Seq(S), NEW l \in S
  PROVE  Collected(Append(ls, l)) = Collects(Collected(ls), l)
<1>1. DOMAIN ls = 1..Len(ls) /\ DOMAIN Append(ls, l) = 1..(Len(ls) + 1) /\ Len(ls) \in Nat
  BY AppendProperties, LenProperties
<1>2. PICK f : IsFold("entries", ls, Len(ls), f) /\ Collected(ls) = f[1..Len(ls)]
  BY <1>1, CollectedFold
<1>3. PICK g : /\ IsFold("entries", Append(ls, l), Len(ls) + 1, g)
               /\ Collected(Append(ls, l)) = g[1..(Len(ls) + 1)]
  <2>1. Len(ls) + 1 \in Nat
    BY <1>1
  <2>2. QED
    BY <1>1, <2>1, CollectedFold
<1>4. g[1..(Len(ls) + 1)] = Fold("entries", f[1..Len(ls)], l)
  BY <1>2, <1>3, FoldAppends
<1>5. QED
  BY <1>2, <1>3, <1>4 DEF Fold

LEMMA NothingFolded == LinesOf(<<>>) = <<>> /\ Collected(<<>>) = <<>>
<1>1. DOMAIN <<>> = 1..0
  OBVIOUS
<1>2. PICK f : IsFold("lines", <<>>, 0, f) /\ LinesOf(<<>>) = f[1..0]
  BY <1>1, LinesFold
<1>3. PICK g : IsFold("entries", <<>>, 0, g) /\ Collected(<<>>) = g[1..0]
  BY <1>1, CollectedFold
<1>4. QED
  BY <1>2, <1>3, FoldPrefix

-----------------------------------------------------------------------------
(* What stays true of the entries, the lines and what is read of them.     *)

Entries == [n : Nat, terminal : BOOLEAN, cut : {"none", "newline", "text", "character"}]
Lines == Seq(Entries) \ {<<>>}

\* The entry was appended whole, after one that was.
Sure(j, n) == j[n].cut = "none" /\ (n > 1 => j[n - 1].cut = "none")

\* Entries are numbered, and the last is the last of the last line.
Gathered(j, ls) ==
  /\ j \in Seq(Entries) /\ \A n \in 1..Len(j) : j[n].n = n
  /\ ls \in Seq(Lines) /\ (j = <<>> <=> ls = <<>>)
  /\ j # <<>> => Last(Last(ls)) = Last(j)

\* What is read is in order, and every sure entry is among it.
Read(j, p) ==
  /\ p \in Seq(Entries)
  /\ \A a \in 1..Len(p) : p[a].n <= Len(j)
  /\ \A a, b \in 1..Len(p) : a < b => p[a].n < p[b].n
  /\ \A n \in 1..Len(j) : Sure(j, n) => \E a \in 1..Len(p) : p[a] = j[n]

LEMMA LastLine ==
  ASSUME NEW S, NEW s \in Seq(S), s # <<>>
  PROVE  Front(s) \in Seq(S) /\ Last(s) \in S /\ s = Append(Front(s), Last(s)) /\ Last(s) = s[Len(s)]
<1>1. Len(s) \in Nat /\ Len(s) >= 1 /\ s[Len(s)] \in S
  BY EmptySeq, LenProperties, ElementOfSeq
<1>2. Len(s) - 1 \in Nat /\ 1 \in Int /\ \A i \in 1..(Len(s) - 1) : s[i] \in S
  BY <1>1, ElementOfSeq
<1>3. /\ Front(s) \in Seq(S) /\ Len(Front(s)) = Len(s) - 1
      /\ \A i \in 1..(Len(s) - 1) : Front(s)[i] = s[i]
  <2>1. PICK m \in Nat : m = Len(s) - 1 /\ \A i \in 1..m : s[i] \in S
    BY <1>1, <1>2
  <2>2. m \in Int /\ (IF 1 <= m THEN m - 1 + 1 ELSE 0) = m /\ m - 1 + 1 = m
    OBVIOUS
  <2>3. /\ SubSeq(s, 1, m) \in Seq(S) /\ Len(SubSeq(s, 1, m)) = m
        /\ \A i \in 1..m : SubSeq(s, 1, m)[i] = s[i]
    BY <2>1, <2>2, SubSeqProperties
  <2>4. Front(s) = SubSeq(s, 1, m)
    BY <2>1 DEF Front
  <2>5. QED
    BY <2>1, <2>3, <2>4
<1>4. Last(s) \in S /\ Last(s) = s[Len(s)]
  BY <1>1 DEF Last
<1>5. /\ Append(Front(s), Last(s)) \in Seq(S) /\ Len(Append(Front(s), Last(s))) = Len(s)
      /\ \A i \in 1..Len(s) : Append(Front(s), Last(s))[i] = s[i]
  BY <1>1, <1>3, <1>4, AppendProperties
<1>6. s = Append(Front(s), Last(s))
  BY <1>5, SeqEqual
<1>7. QED
  BY <1>3, <1>4, <1>6

\* An entry at the end; and an entry that is read is the newest.
LEMMA SureBefore ==
  ASSUME NEW j \in Seq(Entries), NEW e \in Entries, NEW n \in 1..Len(j), Sure(Append(j, e), n)
  PROVE  Sure(j, n) /\ Append(j, e)[n] = j[n]
<1>1. \A i \in 1..Len(j) : Append(j, e)[i] = j[i]
  BY AppendProperties
<1>2. n > 1 => n - 1 \in 1..Len(j)
  BY LenProperties
<1>3. QED
  BY <1>1, <1>2 DEF Sure

LEMMA AddsALine ==
  ASSUME NEW j, NEW ls, Gathered(j, ls), Read(j, Collected(ls)), NEW e \in Entries, e.n = Len(j) + 1
  PROVE  /\ Gathered(Append(j, e), Append(ls, <<e>>))
         /\ Read(Append(j, e), Collected(Append(ls, <<e>>)))
<1> DEFINE t == Append(j, e)
           p == Collected(ls)
           q == Collected(Append(ls, <<e>>))
<1>1. j \in Seq(Entries) /\ Len(j) \in Nat /\ ls \in Seq(Lines) /\ p \in Seq(Entries)
  BY LenProperties DEF Gathered, Read
<1>2. t \in Seq(Entries) /\ Len(t) = Len(j) + 1 /\ t[Len(j) + 1] = e /\ \A i \in 1..Len(j) : t[i] = j[i]
  BY <1>1, AppendProperties
<1>3. <<e>> \in Lines /\ Len(<<e>>) = 1 /\ <<e>>[1] = e /\ Last(<<e>>) = e
  BY DEF Lines, Last
<1>4. /\ Append(ls, <<e>>) \in Seq(Lines) /\ Append(ls, <<e>>) # <<>> /\ t # <<>>
      /\ Last(Append(ls, <<e>>)) = <<e>>
  BY <1>1, <1>2, <1>3, AppendProperties, EmptySeq DEF Last
<1>5. Last(t) = e
  BY <1>2 DEF Last
<1>6. \A n \in 1..Len(t) : t[n].n = n
  BY <1>1, <1>2 DEF Gathered
<1>7. Gathered(t, Append(ls, <<e>>))
  BY <1>2, <1>3, <1>4, <1>5, <1>6 DEF Gathered
<1>8. q = IF e.cut \in {"none", "newline"} THEN Append(p, e) ELSE p
  BY <1>1, <1>3, CollectedAppend DEF Collects, Whole
<1> HIDE DEF t, p, q
<1>9. Read(j, p) /\ p \in Seq(Entries) /\ \A a \in 1..Len(p) : p[a] \in Entries
  BY ElementOfSeq DEF p, Read
<1>10. \A n \in 1..Len(j) : Sure(t, n) => Sure(j, n)
  BY <1>1, SureBefore DEF t
<1>11. CASE q = Append(p, e)
  <2>1. /\ q \in Seq(Entries) /\ Len(q) = Len(p) + 1 /\ q[Len(p) + 1] = e /\ Len(p) \in Nat
        /\ \A a \in 1..Len(p) : q[a] = p[a]
    BY <1>1, <1>11, AppendProperties, LenProperties DEF p
  <2>2. \A a \in 1..Len(p) : p[a].n <= Len(j) /\ p[a].n \in Nat
    BY <1>9 DEF Read, Entries
  <2>3. \A a \in 1..Len(q) : q[a].n <= Len(t)
    BY <1>1, <1>2, <2>1, <2>2
  <2>4. \A a, b \in 1..Len(q) : a < b => q[a].n < q[b].n
    <3> SUFFICES ASSUME NEW a \in 1..Len(q), NEW b \in 1..Len(q), a < b PROVE q[a].n < q[b].n
      OBVIOUS
    <3>1. a \in 1..Len(p)
      BY <2>1
    <3>2. CASE b \in 1..Len(p)
      BY <1>9, <2>1, <3>1, <3>2 DEF Read
    <3>3. CASE b = Len(p) + 1
      BY <1>1, <2>1, <2>2, <3>1, <3>3
    <3>4. QED
      BY <2>1, <3>2, <3>3
  <2>5. \A n \in 1..Len(t) : Sure(t, n) => \E a \in 1..Len(q) : q[a] = t[n]
    <3> SUFFICES ASSUME NEW n \in 1..Len(t), Sure(t, n) PROVE \E a \in 1..Len(q) : q[a] = t[n]
      OBVIOUS
    <3>1. CASE n = Len(j) + 1
      BY <1>2, <2>1, <3>1
    <3>2. CASE n \in 1..Len(j)
      <4>1. PICK a \in 1..Len(p) : p[a] = j[n]
        BY <1>9, <1>10, <3>2 DEF Read
      <4>2. QED
        BY <1>2, <2>1, <3>2, <4>1
    <3>3. QED
      BY <1>1, <1>2, <3>1, <3>2
  <2>6. QED
    BY <1>7, <2>1, <2>3, <2>4, <2>5 DEF Read, t, q
<1>12. CASE q = p /\ e.cut # "none"
  <2>1. \A a \in 1..Len(q) : q[a].n <= Len(t)
    <3>1. \A a \in 1..Len(p) : p[a].n <= Len(j) /\ p[a].n \in Nat
      BY <1>9 DEF Read, Entries
    <3>2. QED
      BY <1>1, <1>2, <1>12, <3>1
  <2>2. \A n \in 1..Len(t) : Sure(t, n) => \E a \in 1..Len(q) : q[a] = t[n]
    <3> SUFFICES ASSUME NEW n \in 1..Len(t), Sure(t, n) PROVE \E a \in 1..Len(q) : q[a] = t[n]
      OBVIOUS
    <3>1. n # Len(j) + 1
      BY <1>2, <1>12 DEF Sure
    <3>2. n \in 1..Len(j)
      BY <1>1, <1>2, <3>1
    <3>3. QED
      BY <1>2, <1>9, <1>10, <1>12, <3>2 DEF Read
  <2>3. QED
    BY <1>7, <1>9, <1>12, <2>1, <2>2 DEF Read, t, q
<1>13. QED
  BY <1>8, <1>11, <1>12

LEMMA CollectedTyped ==
  ASSUME NEW ls \in Seq(Lines)
  PROVE  Collected(ls) \in Seq(Entries)
<1> DEFINE n == Len(ls)
<1>1. n \in Nat /\ DOMAIN ls = 1..n /\ \A i \in 1..n : ls[i] \in Lines
  BY LenProperties, ElementOfSeq
<1> HIDE DEF n
<1>2. PICK f : IsFold("entries", ls, n, f) /\ Collected(ls) = f[1..n]
  BY <1>1, CollectedFold
<1>3. f[1..0] = <<>> /\ \A i \in 1..n : f[1..i] = Collects(f[1..(i - 1)], ls[i])
  BY <1>1, <1>2, FoldPrefix DEF Fold
<1> DEFINE P == {i \in 0..n : f[1..i] \notin Seq(Entries)}
<1>4. P = {}
  <2> SUFFICES ASSUME P # {} PROVE FALSE
    OBVIOUS
  <2>1. PICK i \in P : \A k \in P : i <= k
    <3>1. P \subseteq Nat
      BY <1>1
    <3>2. QED
      BY <3>1, LeastOfNats
  <2>2. i # 0
    <3>1. f[1..0] \in Seq(Entries)
      BY <1>3
    <3>2. QED
      BY <3>1
  <2>3. i \in 1..n /\ i - 1 \in 0..n /\ i - 1 \notin P
    BY <1>1, <2>1, <2>2
  <2>4. f[1..(i - 1)] \in Seq(Entries) /\ ls[i] \in Seq(Entries)
    BY <1>1, <2>3 DEF Lines
  <2>5. Whole(ls[i]) => ls[i][1] \in Entries
    BY <2>4, ElementOfSeq DEF Whole
  <2>6. f[1..i] \in Seq(Entries)
    <3>1. f[1..i] = Collects(f[1..(i - 1)], ls[i])
      BY <1>3, <2>3
    <3>2. CASE Whole(ls[i])
      <4>1. f[1..i] = Append(f[1..(i - 1)], ls[i][1])
        BY <3>1, <3>2 DEF Collects
      <4>2. QED
        BY <2>4, <2>5, <3>2, <4>1, AppendProperties
    <3>3. CASE ~Whole(ls[i])
      BY <2>4, <3>1, <3>3 DEF Collects
    <3>4. QED
      BY <3>2, <3>3
  <2>7. QED
    BY <2>6
<1>5. QED
  BY <1>1, <1>2, <1>4

LEMMA RunsIntoTheLast ==
  ASSUME NEW j, NEW ls, Gathered(j, ls), Read(j, Collected(ls)), NEW e \in Entries, e.n = Len(j) + 1,
         ls # <<>>, Last(Last(ls)).cut # "none"
  PROVE  /\ Gathered(Append(j, e), Append(Front(ls), Append(Last(ls), e)))
         /\ Read(Append(j, e), Collected(Append(Front(ls), Append(Last(ls), e))))
<1> DEFINE t == Append(j, e)
           l == Last(ls)
           r == Append(Last(ls), e)
           F == Front(ls)
           p == Collected(ls)
           q == Collected(Front(ls))
<1>1. j \in Seq(Entries) /\ Len(j) \in Nat /\ ls \in Seq(Lines) /\ p \in Seq(Entries) /\ j # <<>>
  BY LenProperties DEF Gathered, Read
<1>2. t \in Seq(Entries) /\ Len(t) = Len(j) + 1 /\ t[Len(j) + 1] = e /\ \A i \in 1..Len(j) : t[i] = j[i]
  BY <1>1, AppendProperties
<1>3. F \in Seq(Lines) /\ l \in Lines /\ ls = Append(F, l)
  BY <1>1, LastLine
<1>4. l \in Seq(Entries) /\ Len(l) \in Nat /\ Len(l) >= 1 /\ \A i \in 1..Len(l) : l[i] \in Entries
  <2>1. l \in Seq(Entries) /\ l # <<>>
    BY <1>3 DEF Lines
  <2>2. QED
    BY <2>1, EmptySeq, LenProperties, ElementOfSeq
<1>5. r \in Lines /\ Len(r) = Len(l) + 1 /\ Last(r) = e
  <2>1. r \in Seq(Entries) /\ Len(r) = Len(l) + 1 /\ r[Len(l) + 1] = e
    BY <1>4, AppendProperties
  <2>2. QED
    BY <1>4, <2>1, EmptySeq DEF Lines, Last
<1>6. /\ Append(F, r) \in Seq(Lines) /\ Append(F, r) # <<>> /\ Last(Append(F, r)) = r
  BY <1>3, <1>5, AppendProperties, EmptySeq DEF Last
<1>7. Last(t) = e /\ t # <<>>
  BY <1>1, <1>2, EmptySeq DEF Last
<1>8. \A n \in 1..Len(t) : t[n].n = n
  BY <1>1, <1>2 DEF Gathered
<1>9. Gathered(t, Append(F, r))
  BY <1>2, <1>5, <1>6, <1>7, <1>8 DEF Gathered
<1>10. Collected(Append(F, r)) = q
  <2>1. Collected(Append(F, r)) = Collects(q, r)
    BY <1>3, <1>5, CollectedAppend
  <2>2. ~Whole(r)
    BY <1>4, <1>5 DEF Whole
  <2>3. QED
    BY <2>1, <2>2 DEF Collects
<1>11. q \in Seq(Entries) /\ p = Collects(q, l)
  BY <1>3, CollectedTyped, CollectedAppend
<1>12. j[Len(j)].cut # "none" /\ Len(j) >= 1
  BY <1>1, EmptySeq DEF Gathered, Last
<1>13. Whole(l) => l[1].cut # "none"
  BY DEF Whole, Last
<1> HIDE DEF t, l, r, F, p, q
<1>14. Read(j, p) /\ \A a \in 1..Len(p) : p[a] \in Entries
  BY <1>1, ElementOfSeq DEF p
<1>15. Len(q) \in Nat /\ Len(p) \in Nat /\ Len(q) <= Len(p) /\ \A a \in 1..Len(q) : q[a] = p[a]
  <2>1. CASE Whole(l)
    <3>1. l[1] \in Entries
      BY <1>4
    <3>2. p = Append(q, l[1])
      BY <1>11, <2>1 DEF Collects
    <3>3. QED
      BY <1>11, <3>1, <3>2, AppendProperties, LenProperties
  <2>2. CASE ~Whole(l)
    BY <1>11, <2>2, LenProperties DEF Collects
  <2>3. QED
    BY <2>1, <2>2
<1>16. \A a \in 1..Len(p) : p[a].cut = "none" => a \in 1..Len(q)
  <2>1. CASE Whole(l)
    <3>1. l[1] \in Entries
      BY <1>4
    <3>2. p = Append(q, l[1])
      BY <1>11, <2>1 DEF Collects
    <3>3. Len(p) = Len(q) + 1 /\ p[Len(q) + 1] = l[1]
      BY <1>11, <3>1, <3>2, AppendProperties
    <3>4. QED
      BY <1>13, <1>15, <2>1, <3>3
  <2>2. CASE ~Whole(l)
    BY <1>11, <2>2, LenProperties DEF Collects
  <2>3. QED
    BY <2>1, <2>2
<1>17. \A a \in 1..Len(q) : q[a].n <= Len(t)
  <2>1. \A a \in 1..Len(p) : p[a].n <= Len(j) /\ p[a].n \in Nat
    BY <1>14 DEF Read, Entries
  <2>2. QED
    BY <1>1, <1>2, <1>15, <2>1
<1>18. \A a, b \in 1..Len(q) : a < b => q[a].n < q[b].n
  <2>1. \A a \in 1..Len(q) : a \in 1..Len(p)
    BY <1>15
  <2>2. QED
    BY <1>14, <1>15, <2>1 DEF Read
<1>19. \A n \in 1..Len(t) : Sure(t, n) => \E a \in 1..Len(q) : q[a] = t[n]
  <2> SUFFICES ASSUME NEW n \in 1..Len(t), Sure(t, n) PROVE \E a \in 1..Len(q) : q[a] = t[n]
    OBVIOUS
  <2>1. n # Len(j) + 1
    BY <1>1, <1>2, <1>12 DEF Sure
  <2>2. n \in 1..Len(j)
    BY <1>1, <1>2, <2>1
  <2>3. Sure(j, n) /\ t[n] = j[n]
    BY <1>1, <2>2, SureBefore DEF t
  <2>4. PICK a \in 1..Len(p) : p[a] = j[n]
    BY <1>14, <2>2, <2>3 DEF Read
  <2>5. p[a].cut = "none"
    BY <2>3, <2>4 DEF Sure
  <2>6. QED
    BY <1>15, <1>16, <2>3, <2>4, <2>5
<1>20. Read(t, q)
  BY <1>11, <1>17, <1>18, <1>19 DEF Read
<1>21. QED
  BY <1>9, <1>10, <1>20 DEF t, r, F, q

-----------------------------------------------------------------------------
JournalInv == Gathered(journal, LinesOf(journal)) /\ Read(journal, Collected(LinesOf(journal)))

LEMMA JournalInitInv == JournalInit => JournalInv
<1> SUFFICES ASSUME JournalInit PROVE JournalInv
  OBVIOUS
<1>1. journal = <<>> /\ LinesOf(journal) = <<>> /\ Collected(LinesOf(journal)) = <<>>
  BY NothingFolded DEF JournalInit
<1>2. Len(<<>>) = 0 /\ <<>> \in Seq(Entries) /\ <<>> \in Seq(Lines) /\ 1..0 = {}
  OBVIOUS
<1>3. Gathered(<<>>, <<>>)
  BY <1>2 DEF Gathered
<1>4. Read(<<>>, <<>>)
  BY <1>2 DEF Read
<1>5. QED
  BY <1>1, <1>3, <1>4 DEF JournalInv

LEMMA JournalStep == JournalInv /\ [JournalNext]_journal => JournalInv'
<1> SUFFICES ASSUME JournalInv, [JournalNext]_journal PROVE JournalInv'
  OBVIOUS
<1>1. CASE UNCHANGED journal
  BY <1>1 DEF JournalInv
<1>2. ASSUME NEW terminal \in BOOLEAN, NEW c \in {"none", "newline", "text", "character"},
             Appends(terminal, c)
      PROVE  JournalInv'
  <2> DEFINE e == Entry(Len(journal) + 1, terminal, c)
             ls == LinesOf(journal)
  <2>1. journal \in Seq(Entries) /\ Len(journal) \in Nat
    BY LenProperties DEF JournalInv, Gathered
  <2>2. e \in Entries /\ e.n = Len(journal) + 1 /\ journal' = Append(journal, e)
    BY <1>2, <2>1 DEF Appends, Entry, Entries
  <2> HIDE DEF e
  <2>3. LinesOf(journal') = RunsOn(ls, e)
    BY <2>1, <2>2, LinesAppend
  <2>4. Gathered(journal, ls) /\ Read(journal, Collected(ls))
    BY DEF JournalInv
  <2> HIDE DEF ls
  <2>5. CASE ls # <<>> /\ Last(Last(ls)).cut # "none"
    <3>1. LinesOf(journal') = Append(Front(ls), Append(Last(ls), e))
      BY <2>3, <2>5 DEF RunsOn
    <3>2. QED
      BY <2>2, <2>4, <2>5, <3>1, RunsIntoTheLast DEF JournalInv
  <2>6. CASE ~(ls # <<>> /\ Last(Last(ls)).cut # "none")
    <3>1. LinesOf(journal') = Append(ls, <<e>>)
      BY <2>3, <2>6 DEF RunsOn
    <3>2. QED
      BY <2>2, <2>4, <3>1, AddsALine DEF JournalInv
  <2>7. QED
    BY <2>5, <2>6
<1>3. QED
  BY <1>1, <1>2 DEF JournalNext

LEMMA TornEntriesAreFew == JournalInv => TornEntriesCostTheNext
<1> SUFFICES ASSUME JournalInv, \A n \in DOMAIN journal : journal[n].cut # "character"
             PROVE  LET sure == {n \in DOMAIN journal : journal[n].cut = "none" /\ (n > 1 => journal[n - 1].cut = "none")}
                    IN  /\ sure \subseteq {e.n : e \in ToSet(Parsed(journal))}
                        /\ \A n \in sure : journal[n].terminal => LatestTerminal(journal) >= n
  BY DEF TornEntriesCostTheNext
<1> DEFINE p == Parsed(journal)
           sure == {n \in DOMAIN journal : journal[n].cut = "none" /\ (n > 1 => journal[n - 1].cut = "none")}
<1>1. p = Collected(LinesOf(journal))
  BY DEF Parsed, Collected
<1>2. Read(journal, p) /\ p \in Seq(Entries) /\ Len(p) \in Nat /\ DOMAIN p = 1..Len(p)
  BY <1>1, LenProperties DEF JournalInv, Read
<1>3. /\ journal \in Seq(Entries) /\ DOMAIN journal = 1..Len(journal)
      /\ \A n \in 1..Len(journal) : journal[n].n = n
  BY LenProperties DEF JournalInv, Gathered
<1>4. \A a \in 1..Len(p) : p[a].n \in Nat /\ p[a].terminal \in BOOLEAN
  <2>1. \A a \in 1..Len(p) : p[a] \in Entries
    BY <1>2, ElementOfSeq
  <2>2. QED
    BY <2>1 DEF Entries
<1>5. ToSet(p) = {p[a] : a \in DOMAIN p}
  BY DEF ToSet
<1>6. \A n \in sure : \E a \in 1..Len(p) : p[a] = journal[n] /\ p[a].n = n
  BY <1>2, <1>3 DEF Read, Sure
<1> HIDE DEF p, sure
<1>7. sure \subseteq {e.n : e \in ToSet(p)}
  BY <1>2, <1>5, <1>6
<1>8. ASSUME NEW n \in sure, journal[n].terminal PROVE LatestTerminal(journal) >= n
  <2> DEFINE I == {i \in 1..Len(p) : p[i].terminal}
             k == SelectLastInSeq(p, LAMBDA e : e.terminal)
  <2>1. PICK a \in 1..Len(p) : p[a] = journal[n] /\ p[a].n = n
    BY <1>6
  <2>2. a \in I
    BY <1>8, <2>1
  <2>3. Max(I) \in I /\ \A y \in I : y <= Max(I)
    <3>1. I \subseteq 1..Len(p) /\ I # {}
      BY <2>2
    <3> HIDE DEF I
    <3>2. QED
      BY <1>2, <3>1, MaxIs
  <2>4. k = Max(I)
    BY <2>2 DEF SelectLastInSeq
  <2>5. LatestTerminal(journal) = IF k = 0 THEN 0 ELSE p[k].n
    BY DEF LatestTerminal, p
  <2> HIDE DEF k
  <2>6. k \in 1..Len(p) /\ a <= k
    BY <2>2, <2>3, <2>4
  <2>7. p[k].n >= p[a].n
    <3>1. CASE a = k
      BY <1>4, <2>1, <3>1
    <3>2. CASE a < k
      BY <1>2, <1>4, <2>1, <2>6, <3>2 DEF Read
    <3>3. QED
      BY <1>2, <2>1, <2>6, <3>1, <3>2
  <2>8. QED
    BY <2>1, <2>5, <2>6, <2>7
<1>9. QED
  BY <1>7, <1>8 DEF p, sure

(* A reader sees whole texts and whole entries: a file is what its last    *)
(* writer wrote, with no reader between two halves of it, as long as       *)
(* writers do not overlap (fs.rs, liveness.rs); and the journal, which is  *)
(* appended to and never repaired, gives back every entry that was         *)
(* appended whole after a whole one, with no conclusion older than theirs  *)
(* (report_log.rs), wherever a process dies and however long it grows.     *)
THEOREM ReadersSeeTheWhole == FileSpec /\ JournalSpec => []ReadersSeeWhole
<1>1. FileSpec => [](FilesTypeOK /\ ReplacedWhole)
  BY FilesAreReplacedWhole
<1>2. JournalSpec => []JournalInv
  BY JournalInitInv, JournalStep, PTL DEF JournalSpec
<1>3. FilesTypeOK /\ ReplacedWhole /\ JournalInv => ReadersSeeWhole
  BY TornEntriesAreFew DEF ReadersSeeWhole
<1>4. QED
  BY <1>1, <1>2, <1>3, PTL

-----------------------------------------------------------------------------
(* The liveness record.                                                    *)

Midway(d) == driver[d].step \in {"write", "rename"}

\* No id from i on has been handed out.
FreeFrom(i) == \A j \in 1..MaxTurns : j >= i => given[j] = 0

\* The id that a record still promises to nobody.
NextFree(d) == IF driver[d].task = "alloc" THEN driver[d].copy.next - 1
                                           ELSE driver[d].copy.next

\* With neither a race nor an unread record, one process at most is between
\* its load and its rename, so what it is about to put in place is newer than
\* all that is there.
CounterIsAhead ==
  /\ file = Missing => FreeFrom(1)
  /\ file.kind = "record" => FreeFrom(file.next)
  /\ \A d, e \in Drivers : Midway(d) /\ Midway(e) => d = e
  /\ \A d \in Drivers : Midway(d) => FreeFrom(NextFree(d))
  /\ \A d \in Drivers : driver[d].step = "rename" => tmp = driver[d].copy

\* Only a read-modify-write has steps.
Steps == \A d \in Drivers : driver[d].task \in Rests => driver[d].step = "load"

\* Neither of the two causes of reuse.
Unhurt == ~raced /\ ~rewound

IdsInv == IdsSurviveDamage /\ Steps /\ (Unhurt => CounterIsAhead)

-----------------------------------------------------------------------------
(* Types.                                                                  *)

Drive == [task : Tasks, step : {"load", "write", "rename"}, copy : Liveness]

LEMMA FreshIsTyped == Fresh \in Liveness /\ Never \in 0..Never /\ 0..MaxTime \subseteq 0..Never
BY LivenessAssumption DEF Fresh, Liveness, Never

LEMMA KindsDiffer ==
  /\ Missing.kind = "missing" /\ Corrupt.kind = "corrupt"
  /\ \A r \in Liveness : r.kind = "record"
  /\ Missing # Corrupt /\ Missing \notin Liveness /\ Corrupt \notin Liveness
BY DEF Missing, Corrupt, Fresh, Liveness

LEMMA ChangeIsTyped ==
  ASSUME NEW r \in Liveness, NEW task \in Tasks \ Rests, NEW clock \in BOOLEAN, now \in 0..MaxTime
  PROVE  /\ Change(task, r, clock) \in Liveness
         /\ Change(task, r, clock).next = IF task = "alloc" THEN r.next + 1 ELSE r.next
<1> USE FreshIsTyped
<1>1. CASE task = "alloc"
  BY <1>1 DEF Change, Liveness
<1>2. CASE task = "activate"
  BY <1>2 DEF Change, Liveness
<1>3. CASE task = "touch"
  BY <1>3 DEF Change, Liveness
<1>4. CASE task = "deactivate"
  BY <1>4 DEF Change, Liveness
<1> QED BY <1>1, <1>2, <1>3, <1>4 DEF Tasks, Rests

LEMMA AfterIsTyped ==
  ASSUME NEW task \in Tasks \ Rests, NEW ok \in BOOLEAN
  PROVE  After(task, ok) \in Tasks
<1>1. CASE task = "alloc"
  BY <1>1 DEF After, Tasks
<1>2. CASE task = "activate"
  BY <1>2 DEF After, Tasks
<1>3. CASE task = "touch"
  BY <1>3 DEF After, Tasks
<1>4. CASE task = "deactivate"
  BY <1>4 DEF After, Tasks
<1> QED BY <1>1, <1>2, <1>3, <1>4 DEF Tasks, Rests

\* A process that goes on to another task is between two of them.
LEMMA GoesIsTyped ==
  ASSUME LivenessTypeOK, NEW d \in Drivers, NEW task \in Tasks, Goes(d, task)
  PROVE  /\ driver' \in [Drivers -> Drive]
         /\ driver'[d].step = "load"
         /\ \A e \in Drivers \ {d} : driver'[e] = driver[e]
<1>1. [Off EXCEPT !.task = task] \in Drive /\ [Off EXCEPT !.task = task].step = "load"
  BY FreshIsTyped DEF Off, Drive
<1> QED BY <1>1 DEF Goes, LivenessTypeOK, Drive

-----------------------------------------------------------------------------
(* Steps that change neither the record nor what is handed out.            *)

LEMMA GoesKeepsInv ==
  ASSUME IdsInv, NEW d \in Drivers, NEW task \in Tasks, Goes(d, task),
         UNCHANGED <<file, tmp, given, now>>, Unhurt' => Unhurt,
         raced' \in BOOLEAN, rewound' \in BOOLEAN,
         seen' \in 0..Never
  PROVE  IdsInv'
<1> USE DEF IdsInv, IdsSurviveDamage
<1>1. /\ driver' \in [Drivers -> Drive] /\ driver'[d].step = "load"
      /\ \A e \in Drivers \ {d} : driver'[e] = driver[e]
  BY GoesIsTyped
<1>2. LivenessTypeOK'
  BY <1>1 DEF LivenessTypeOK, Drive
<1>3. ReuseHasACause'
  BY DEF ReuseHasACause, Unhurt
<1>4. Steps'
  BY <1>1 DEF Steps
<1>5. Unhurt' => CounterIsAhead'
  <2> SUFFICES ASSUME Unhurt' PROVE CounterIsAhead'
    OBVIOUS
  <2>1. CounterIsAhead /\ (\A i : FreeFrom(i)' <=> FreeFrom(i))
    BY DEF FreeFrom
  <2>2. \A e \in Drivers : Midway(e)' => Midway(e) /\ driver'[e] = driver[e]
    BY <1>1 DEF Midway
  <2>3. \A e \in Drivers : Midway(e)' => FreeFrom(NextFree(e))'
    BY <2>1, <2>2 DEF CounterIsAhead, NextFree, FreeFrom
  <2>4. \A e \in Drivers : driver'[e].step = "rename" => tmp' = driver'[e].copy
    BY <2>1, <2>2 DEF CounterIsAhead, Midway
  <2>5. \A e, f \in Drivers : Midway(e)' /\ Midway(f)' => e = f
    BY <2>1, <2>2 DEF CounterIsAhead
  <2> QED BY <2>1, <2>3, <2>4, <2>5 DEF CounterIsAhead, FreeFrom
<1> QED BY <1>2, <1>3, <1>4, <1>5

-----------------------------------------------------------------------------
(* The read-modify-write.                                                  *)

LEMMA LoadsKeepsInv ==
  ASSUME IdsInv, NEW d \in Drivers, Loads(d)
  PROVE  IdsInv'
<1> USE DEF IdsInv, IdsSurviveDamage
<1> DEFINE task == driver[d].task
<1>0. PICK readable \in BOOLEAN, clock \in BOOLEAN :
        LET r == Contents(readable) IN
        /\ IF r = Corrupt
             THEN Goes(d, After(task, FALSE))
             ELSE driver' = [driver EXCEPT ![d].step = "write", ![d].copy = Change(task, r, clock)]
        /\ rewound' = (rewound \/ (~readable /\ file # Missing))
  BY DEF Loads
<1> DEFINE r == Contents(readable)
<1>1. task \in Tasks \ Rests /\ driver[d].step = "load"
  BY DEF Loads, LivenessTypeOK
<1>2. /\ UNCHANGED <<file, tmp, given, now, seen>>
      /\ raced' = (raced \/ \E e \in Drivers \ {d} : Midway(e))
  BY DEF Loads, Races, Midway
<1>3. raced' \in BOOLEAN /\ rewound' \in BOOLEAN /\ (Unhurt' => Unhurt /\ (readable \/ file = Missing))
  BY <1>0, <1>2, Zenon DEF LivenessTypeOK, Unhurt
<1>4. CASE r = Corrupt
  <2>1. Goes(d, After(task, FALSE))
    BY <1>0, <1>4
  <2>2. After(task, FALSE) \in Tasks
    BY <1>1, AfterIsTyped
  <2>3. seen' \in 0..Never
    BY <1>2 DEF LivenessTypeOK
  <2> QED BY <1>2, <1>3, <2>1, <2>2, <2>3, GoesKeepsInv
<1>5. CASE r # Corrupt
  <2> DEFINE c == Change(task, r, clock)
  <2>1. r \in Liveness /\ r.kind = "record"
    BY <1>5, FreshIsTyped, KindsDiffer DEF LivenessTypeOK, Contents
  <2>2. c \in Liveness /\ c.next = IF task = "alloc" THEN r.next + 1 ELSE r.next
    BY <1>1, <2>1, ChangeIsTyped DEF LivenessTypeOK
  <2>3. driver' = [driver EXCEPT ![d] = [driver[d] EXCEPT !.step = "write", !.copy = c]]
    BY <1>0, <1>5
  <2> HIDE DEF c, r
  <2>4. /\ driver'[d].task = task /\ driver'[d].step = "write" /\ driver'[d].copy = c
        /\ driver'[d] \in Drive
        /\ \A e \in Drivers \ {d} : driver'[e] = driver[e]
    BY <2>2, <2>3 DEF LivenessTypeOK, Drive
  <2>5. LivenessTypeOK'
    BY <1>2, <1>3, <2>3, <2>4 DEF LivenessTypeOK, Drive
  <2>6. ReuseHasACause'
    BY <1>2, <1>3 DEF ReuseHasACause, Unhurt
  <2>7. Steps'
    BY <1>1, <2>4 DEF Steps
  <2>8. Unhurt' => CounterIsAhead'
    <3> SUFFICES ASSUME Unhurt' PROVE CounterIsAhead'
      OBVIOUS
    <3>1. CounterIsAhead /\ (readable \/ file = Missing) /\ \A e \in Drivers \ {d} : ~Midway(e)
      BY <1>2, <1>3 DEF Unhurt
    <3>2. \A e \in Drivers : Midway(e)' => e = d
      BY <2>4, <3>1 DEF Midway
    <3>3. FreeFrom(r.next)
      BY <2>1, <3>1 DEF CounterIsAhead, r, Contents, Fresh
    <3>4. r.next \in Nat
      BY <2>1 DEF Liveness
    <3>5. NextFree(d)' = r.next
      BY <2>2, <2>4, <3>4 DEF NextFree
    <3>6. FreeFrom(NextFree(d))'
      BY <1>2, <3>3, <3>5 DEF FreeFrom
    <3>7. \A e \in Drivers : driver'[e].step # "rename"
      BY <2>4, <3>1 DEF Midway
    <3> QED BY <1>2, <3>1, <3>2, <3>6, <3>7 DEF CounterIsAhead, FreeFrom
  <2> QED BY <2>5, <2>6, <2>7, <2>8
<1> QED BY <1>4, <1>5

LEMMA WritesKeepsInv ==
  ASSUME IdsInv, NEW d \in Drivers, Writes(d)
  PROVE  IdsInv'
<1> USE DEF IdsInv, IdsSurviveDamage
<1>1. /\ driver[d].step = "write" /\ driver[d].task \notin Rests
      /\ tmp' = driver[d].copy /\ UNCHANGED <<file, given, now, seen, raced, rewound>>
  BY DEF Writes, Steps
<1>2. driver' = [driver EXCEPT ![d] = [driver[d] EXCEPT !.step = "rename"]]
  BY DEF Writes
<1>3. /\ driver'[d].task = driver[d].task /\ driver'[d].step = "rename"
      /\ driver'[d].copy = driver[d].copy /\ driver'[d] \in Drive
      /\ \A e \in Drivers \ {d} : driver'[e] = driver[e]
  BY <1>2 DEF LivenessTypeOK, Drive
<1>4. LivenessTypeOK'
  BY <1>1, <1>2, <1>3 DEF LivenessTypeOK, Drive
<1>5. ReuseHasACause' /\ Steps'
  BY <1>1, <1>3 DEF ReuseHasACause, Steps, Unhurt
<1>6. Unhurt' => CounterIsAhead'
  <2> SUFFICES ASSUME Unhurt' PROVE CounterIsAhead'
    OBVIOUS
  <2>1. CounterIsAhead /\ Midway(d)
    BY <1>1 DEF Midway, Unhurt
  <2>2. \A e \in Drivers : Midway(e)' => e = d
    BY <1>3, <2>1 DEF CounterIsAhead, Midway
  <2>3. FreeFrom(NextFree(d))'
    BY <1>1, <1>3, <2>1 DEF CounterIsAhead, FreeFrom, NextFree
  <2>4. \A e \in Drivers : driver'[e].step = "rename" => tmp' = driver'[e].copy
    BY <1>1, <1>3, <2>2 DEF Midway
  <2> QED BY <1>1, <2>1, <2>2, <2>3, <2>4 DEF CounterIsAhead, FreeFrom
<1> QED BY <1>4, <1>5, <1>6

LEMMA ReplacesKeepsInv ==
  ASSUME IdsInv, NEW d \in Drivers, Replaces(d)
  PROVE  IdsInv'
<1> USE DEF IdsInv, IdsSurviveDamage
<1> DEFINE ok == tmp # Missing
           id == driver[d].copy.next - 1
<1>1. /\ driver[d].step = "rename" /\ driver[d].task \in Tasks \ Rests
      /\ driver[d].copy \in Liveness
  BY DEF Replaces, Steps, LivenessTypeOK
<1>2. /\ file' = IF ok THEN tmp ELSE file
      /\ tmp' = Missing
      /\ given' = IF ok /\ driver[d].task = "alloc"
                    THEN [given EXCEPT ![id] = IF @ = 0 THEN 1 ELSE 2] ELSE given
      /\ Goes(d, After(driver[d].task, ok))
      /\ UNCHANGED <<now, seen, raced, rewound>>
  BY DEF Replaces
<1>3. After(driver[d].task, ok) \in Tasks
  BY <1>1, AfterIsTyped
<1>4. /\ driver' \in [Drivers -> Drive] /\ driver'[d].step = "load"
      /\ \A e \in Drivers \ {d} : driver'[e] = driver[e]
  BY <1>2, <1>3, GoesIsTyped
<1>5. given' \in [1..MaxTurns -> 0..2]
  <2> DEFINE times == IF given[id] = 0 THEN 1 ELSE 2
  <2>1. times \in 0..2
    OBVIOUS
  <2>2. given' = given \/ given' = [given EXCEPT ![id] = times]
    BY <1>2
  <2> HIDE DEF times, id
  <2> QED BY <2>1, <2>2 DEF LivenessTypeOK
<1>6. LivenessTypeOK'
  BY <1>2, <1>4, <1>5 DEF LivenessTypeOK, Drive
<1>7. Steps'
  BY <1>4 DEF Steps
<1>8. Unhurt' => CounterIsAhead' /\ \A i \in 1..MaxTurns : given'[i] <= 1
  <2> SUFFICES ASSUME Unhurt' PROVE CounterIsAhead' /\ \A i \in 1..MaxTurns : given'[i] <= 1
    OBVIOUS
  <2>1. CounterIsAhead /\ Midway(d) /\ \A i \in 1..MaxTurns : given[i] <= 1
    BY <1>1, <1>2 DEF Midway, ReuseHasACause, Unhurt
  <2>2. tmp = driver[d].copy /\ FreeFrom(NextFree(d))
    BY <1>1, <2>1 DEF CounterIsAhead
  <2>3. ok /\ file' = driver[d].copy /\ file'.kind = "record"
    BY <1>1, <1>2, <2>2, KindsDiffer
  <2>4. driver[d].copy.next \in Nat
    BY <1>1 DEF Liveness
  <2>5. FreeFrom(file.next)' /\ \A i \in 1..MaxTurns : given'[i] <= 1
    <3>1. CASE driver[d].task = "alloc"
      <4>1. given' = [given EXCEPT ![id] = IF @ = 0 THEN 1 ELSE 2]
        BY <1>2, <2>3, <3>1
      <4>2. \A j \in 1..MaxTurns : j >= id => given[j] = 0
        BY <2>2, <3>1 DEF FreeFrom, NextFree
      <4>3. \A j \in 1..MaxTurns : given'[j] = IF j = id THEN 1 ELSE given[j]
        BY <2>4, <4>1, <4>2 DEF LivenessTypeOK
      <4>4. \A j \in 1..MaxTurns : j >= driver[d].copy.next => given'[j] = 0
        BY <2>4, <4>2, <4>3
      <4> QED BY <2>1, <2>3, <4>3, <4>4 DEF FreeFrom
    <3>2. CASE driver[d].task # "alloc"
      BY <1>2, <2>1, <2>2, <2>3, <3>2 DEF FreeFrom, NextFree
    <3> QED BY <3>1, <3>2
  <2>6. \A e \in Drivers : ~Midway(e)'
    BY <1>4, <2>1 DEF CounterIsAhead, Midway
  <2>7. file' # Missing
    BY <2>3, KindsDiffer
  <2> QED BY <2>5, <2>6, <2>7 DEF CounterIsAhead, Midway
<1> QED BY <1>6, <1>7, <1>8 DEF ReuseHasACause, Unhurt

-----------------------------------------------------------------------------
LEMMA IdsInvStep == IdsInv /\ [LivenessNext]_livenessVars => IdsInv'
<1> SUFFICES ASSUME IdsInv, [LivenessNext]_livenessVars PROVE IdsInv'
  OBVIOUS
<1> USE LivenessAssumption DEF IdsInv, IdsSurviveDamage
<1>1. ASSUME NEW d \in Drivers,
             Prompts(d) \/ Connects(d) \/ HeartbeatComes(d) \/ DriveReturns(d) \/ Killed(d)
      PROVE  IdsInv'
  <2>1. \E task \in Tasks : Goes(d, task)
    BY <1>1 DEF Prompts, Connects, HeartbeatComes, DriveReturns, Killed, Tasks
  <2>2. UNCHANGED <<file, tmp, given, now, raced, rewound>> /\ seen' \in {seen, now}
    BY <1>1 DEF Prompts, Connects, HeartbeatComes, DriveReturns, Killed
  <2>3. seen' \in 0..Never /\ raced' \in BOOLEAN /\ rewound' \in BOOLEAN /\ (Unhurt' => Unhurt)
    BY <2>2, FreshIsTyped DEF LivenessTypeOK, Unhurt
  <2> QED BY <2>1, <2>2, <2>3, GoesKeepsInv
<1>2. ASSUME NEW d \in Drivers, Loads(d) \/ Writes(d) \/ Replaces(d)
      PROVE  IdsInv'
  BY <1>2, LoadsKeepsInv, WritesKeepsInv, ReplacesKeepsInv
<1>3. CASE Corrupts
  <2>1. file' = Corrupt /\ UNCHANGED <<tmp, driver, given, now, seen, raced, rewound>>
    BY <1>3 DEF Corrupts
  <2>2. LivenessTypeOK' /\ ReuseHasACause' /\ Steps'
    BY <2>1 DEF LivenessTypeOK, ReuseHasACause, Steps
  <2>3. Unhurt' => CounterIsAhead'
    BY <2>1, KindsDiffer DEF CounterIsAhead, FreeFrom, NextFree, Midway, Unhurt
  <2> QED BY <2>2, <2>3
<1>4. CASE Tick
  <2>1. UNCHANGED <<file, tmp, driver, given, raced, rewound>> /\ now' = now + 1 /\ now < MaxTime
        /\ seen' \in {seen, now + 1}
    BY <1>4 DEF Tick
  <2>2. LivenessTypeOK' /\ ReuseHasACause' /\ Steps'
    BY <2>1 DEF LivenessTypeOK, ReuseHasACause, Steps, Never
  <2>3. Unhurt' => CounterIsAhead'
    BY <2>1 DEF CounterIsAhead, FreeFrom, NextFree, Midway, Unhurt
  <2> QED BY <2>2, <2>3
<1>5. CASE UNCHANGED livenessVars
  BY <1>5 DEF livenessVars, LivenessTypeOK, ReuseHasACause, Steps, CounterIsAhead, FreeFrom,
              NextFree, Midway, Unhurt
<1> QED BY <1>1, <1>2, <1>3, <1>4, <1>5 DEF LivenessNext

LEMMA IdsInvInit == LivenessInit => IdsInv
<1> SUFFICES ASSUME LivenessInit PROVE IdsInv
  OBVIOUS
<1>1. \A d \in Drivers : driver[d] = Off /\ Off.step = "load" /\ Off \in Drive
  BY FreshIsTyped DEF LivenessInit, Off, Drive, Tasks
<1>2. LivenessTypeOK
  <2>1. driver \in [Drivers -> Drive]
    BY <1>1 DEF LivenessInit
  <2>2. given \in [1..MaxTurns -> 0..2]
    BY DEF LivenessInit
  <2>3. now \in 0..MaxTime /\ seen \in 0..Never
    BY FreshIsTyped, LivenessAssumption DEF LivenessInit
  <2> QED BY <2>1, <2>2, <2>3 DEF LivenessInit, LivenessTypeOK, Drive
<1>3. ReuseHasACause /\ Steps
  BY <1>1 DEF LivenessInit, ReuseHasACause, Steps
<1>4. CounterIsAhead
  BY <1>1, KindsDiffer DEF LivenessInit, CounterIsAhead, FreeFrom, Midway
<1> QED BY <1>2, <1>3, <1>4 DEF IdsInv, IdsSurviveDamage

(* Unless two processes change the record at once, or a record that is     *)
(* there cannot be read, no turn id is handed out twice, whatever is       *)
(* damaged and whoever is killed: IdsSurviveDamage, for any number of      *)
(* processes and ids.                                                      *)
THEOREM IdsAreUniqueButForTwoCauses == LivenessSpec => []IdsSurviveDamage
<1>1. LivenessInit => IdsInv
  BY IdsInvInit
<1>2. IdsInv /\ [LivenessNext]_livenessVars => IdsInv'
  BY IdsInvStep
<1> QED BY <1>1, <1>2, PTL DEF LivenessSpec, IdsInv

-----------------------------------------------------------------------------
(* The stream.                                                             *)

\* A record tells of no heartbeat that came while nobody was attached.
Honest(r) == r.beat # Never => seen # Never /\ r.beat <= seen

BeatsAreSeen ==
  /\ seen # Never => seen <= now
  /\ \A d \in Drivers : Attached(d) => seen = now
  /\ Honest(file) /\ Honest(tmp)
  /\ \A d \in Drivers : Honest(driver[d].copy)

\* A process takes up a task, with a clean copy.
LEMMA GoesKeepsBeats ==
  ASSUME LivenessTypeOK, BeatsAreSeen, NEW d \in Drivers, NEW task \in Tasks, Goes(d, task),
         Attached(d)' => Attached(d) \/ seen' = now,
         seen' \in {seen, now}, UNCHANGED now, file' \in {file, tmp}, tmp' \in {tmp, Missing}
  PROVE  BeatsAreSeen'
<1> USE LivenessAssumption
<1>1. /\ driver'[d].copy = Fresh /\ \A e \in Drivers \ {d} : driver'[e] = driver[e]
  BY DEF Goes, Off, LivenessTypeOK
<1>2. now \in Nat /\ now # Never /\ now <= MaxTime
  BY DEF LivenessTypeOK, Never
<1>3. Missing.beat = Never /\ Fresh.beat = Never
  BY DEF Missing, Fresh
<1>4. ASSUME NEW r, Honest(r), r.beat \in 0..Never PROVE (r.beat # Never => seen' # Never /\ r.beat <= seen')
  BY <1>2, <1>4 DEF Honest, BeatsAreSeen, LivenessTypeOK, Never
<1>5. file.beat \in 0..Never /\ tmp.beat \in 0..Never /\ \A e \in Drivers : driver[e].copy.beat \in 0..Never
  BY FreshIsTyped DEF LivenessTypeOK, Liveness, Missing, Corrupt, Fresh
<1>6. Honest(file)' /\ Honest(tmp)'
  BY <1>3, <1>4, <1>5 DEF Honest, BeatsAreSeen
<1>7. \A e \in Drivers : Honest(driver[e].copy)'
  BY <1>1, <1>3, <1>4, <1>5 DEF Honest, BeatsAreSeen
<1>8. \A e \in Drivers : Attached(e)' => seen' = now'
  BY <1>1, <1>2 DEF Attached, BeatsAreSeen
<1> QED BY <1>2, <1>6, <1>7, <1>8 DEF BeatsAreSeen

LEMMA BeatsAreSeenStep ==
  LivenessTypeOK /\ Steps /\ BeatsAreSeen /\ [LivenessNext]_livenessVars => BeatsAreSeen'
<1> SUFFICES ASSUME LivenessTypeOK, Steps, BeatsAreSeen, [LivenessNext]_livenessVars
             PROVE  BeatsAreSeen'
  OBVIOUS
<1> USE LivenessAssumption
<1>1. ASSUME NEW d \in Drivers,
             Prompts(d) \/ Connects(d) \/ HeartbeatComes(d) \/ DriveReturns(d) \/ Killed(d)
      PROVE  BeatsAreSeen'
  <2>1. PICK task \in Tasks : Goes(d, task) /\ (task \in {"touch", "deactivate"} => Attached(d))
                              /\ (task = "activate" => seen' = now)
                              /\ task \notin {"stream"}
    BY <1>1 DEF Prompts, Connects, HeartbeatComes, DriveReturns, Killed, Tasks, Attached
  <2>2. UNCHANGED <<file, tmp, now>> /\ seen' \in {seen, now}
    BY <1>1 DEF Prompts, Connects, HeartbeatComes, DriveReturns, Killed
  <2>3. driver'[d].task = task
    BY <2>1 DEF Goes, Off, LivenessTypeOK
  <2>4. Attached(d)' => Attached(d) \/ seen' = now
    BY <2>1, <2>3 DEF Attached
  <2> QED BY <2>1, <2>2, <2>4, GoesKeepsBeats
<1>2. ASSUME NEW d \in Drivers, Loads(d) PROVE BeatsAreSeen'
  <2> DEFINE task == driver[d].task
  <2>0. PICK readable \in BOOLEAN, clock \in BOOLEAN :
          LET r == Contents(readable) IN
          IF r = Corrupt
            THEN Goes(d, After(task, FALSE))
            ELSE driver' = [driver EXCEPT ![d].step = "write", ![d].copy = Change(task, r, clock)]
    BY <1>2 DEF Loads
  <2> DEFINE r == Contents(readable)
  <2>1. task \in Tasks \ Rests /\ UNCHANGED <<file, tmp, given, now, seen>>
    BY <1>2 DEF Loads, LivenessTypeOK
  <2>2. CASE r = Corrupt
    <3>1. Goes(d, After(task, FALSE)) /\ After(task, FALSE) \in Tasks
      BY <2>0, <2>1, <2>2, AfterIsTyped
    <3>2. driver'[d].task = After(task, FALSE)
      BY <3>1 DEF Goes, Off, LivenessTypeOK
    <3>3. Attached(d)' => Attached(d)
      BY <2>1, <3>2 DEF Attached, After, Tasks, Rests
    <3> QED BY <2>1, <3>1, <3>3, GoesKeepsBeats
  <2>3. CASE r # Corrupt
    <3> DEFINE c == Change(task, r, clock)
    <3>1. driver' = [driver EXCEPT ![d] = [driver[d] EXCEPT !.step = "write", !.copy = c]]
      BY <2>0, <2>3
    <3>2. r \in Liveness /\ Honest(r)
      BY <2>3, FreshIsTyped, KindsDiffer DEF LivenessTypeOK, BeatsAreSeen, Honest, Fresh, Contents
    <3>3. c.beat = IF task = "touch" /\ clock THEN now ELSE r.beat
      BY <2>1, <3>2 DEF Change, Liveness, Tasks, Rests
    <3>4. Honest(c)
      <4>1. CASE task = "touch" /\ clock
        <5>1. seen = now
          BY <4>1 DEF BeatsAreSeen, Attached
        <5> QED BY <3>3, <4>1, <5>1 DEF Honest, LivenessTypeOK, Never
      <4>2. CASE ~(task = "touch" /\ clock)
        BY <3>2, <3>3, <4>2 DEF Honest
      <4> QED BY <4>1, <4>2
    <3> HIDE DEF c
    <3>5. driver'[d].task = task /\ driver'[d].copy = c /\ \A e \in Drivers \ {d} : driver'[e] = driver[e]
      BY <3>1 DEF LivenessTypeOK
    <3> QED BY <2>1, <3>4, <3>5 DEF BeatsAreSeen, Honest, Attached
  <2> QED BY <2>2, <2>3
<1>3. ASSUME NEW d \in Drivers, Writes(d) PROVE BeatsAreSeen'
  <2>1. tmp' = driver[d].copy /\ UNCHANGED <<file, now, seen>>
        /\ driver' = [driver EXCEPT ![d] = [driver[d] EXCEPT !.step = "rename"]]
    BY <1>3 DEF Writes
  <2>2. \A e \in Drivers : driver'[e].task = driver[e].task /\ driver'[e].copy = driver[e].copy
    BY <2>1 DEF LivenessTypeOK
  <2> QED BY <2>1, <2>2 DEF BeatsAreSeen, Honest, Attached
<1>4. ASSUME NEW d \in Drivers, Replaces(d) PROVE BeatsAreSeen'
  <2> DEFINE ok == tmp # Missing
             task == driver[d].task
  <2>1. task \in Tasks \ Rests
    BY <1>4 DEF Replaces, Steps, LivenessTypeOK
  <2>2. Goes(d, After(task, ok)) /\ UNCHANGED <<now, seen>> /\ file' \in {file, tmp} /\ tmp' = Missing
    BY <1>4 DEF Replaces
  <2>3. After(task, ok) \in Tasks
    BY <2>1, AfterIsTyped
  <2>4. driver'[d].task = After(task, ok)
    BY <2>2 DEF Goes, Off, LivenessTypeOK
  <2>5. Attached(d)' => Attached(d)
    BY <2>1, <2>4 DEF Attached, After, Tasks, Rests
  <2> QED BY <2>2, <2>3, <2>5, GoesKeepsBeats
<1>5. CASE Corrupts
  BY <1>5 DEF Corrupts, Corrupt, Fresh, BeatsAreSeen, Honest, Attached
<1>6. CASE Tick
  <2>1. /\ UNCHANGED <<file, tmp, driver>> /\ now' = now + 1
        /\ seen' = IF \E d \in Drivers : Attached(d) THEN now + 1 ELSE seen
        /\ now < MaxTime
    BY <1>6 DEF Tick
  <2>2. file.beat \in 0..Never /\ tmp.beat \in 0..Never /\ \A e \in Drivers : driver[e].copy.beat \in 0..Never
    BY FreshIsTyped DEF LivenessTypeOK, Liveness, Missing, Corrupt, Fresh
  <2>3. CASE \E d \in Drivers : Attached(d)
    <3>1. seen = now /\ seen' = now + 1 /\ now + 1 # Never /\ now \in Nat
      BY <2>1, <2>3 DEF BeatsAreSeen, LivenessTypeOK, Never
    <3> QED BY <2>1, <2>2, <3>1 DEF BeatsAreSeen, Honest, Attached, Never
  <2>4. CASE ~ \E d \in Drivers : Attached(d)
    BY <2>1, <2>4 DEF BeatsAreSeen, Honest, Attached, LivenessTypeOK, Never
  <2> QED BY <2>3, <2>4
<1>7. CASE UNCHANGED livenessVars
  BY <1>7 DEF livenessVars, BeatsAreSeen, Honest, Attached
<1> QED BY <1>1, <1>2, <1>3, <1>4, <1>5, <1>6, <1>7 DEF LivenessNext

(* `status` does not take a stream for active when nobody was attached to  *)
(* it within the heartbeat deadline (ever, when the host's clock does not  *)
(* answer), wherever processes are killed and whatever they overwrite:     *)
(* NoPhantomStream, for any number of them.                                *)
THEOREM KilledDriversLeaveNoPhantom == LivenessSpec => []NoPhantomStream
<1>1. LivenessInit => IdsInv /\ BeatsAreSeen
  <2> SUFFICES ASSUME LivenessInit PROVE BeatsAreSeen
    BY IdsInvInit
  <2>1. \A d \in Drivers : driver[d].copy.beat = Never /\ ~Attached(d)
    BY DEF LivenessInit, Off, Fresh, Attached
  <2> QED BY <2>1 DEF LivenessInit, BeatsAreSeen, Honest, Missing, Fresh
<1>2. IdsInv /\ BeatsAreSeen /\ [LivenessNext]_livenessVars => (IdsInv /\ BeatsAreSeen)'
  BY IdsInvStep, BeatsAreSeenStep DEF IdsInv, IdsSurviveDamage
<1>3. IdsInv /\ BeatsAreSeen => NoPhantomStream
  <2> SUFFICES ASSUME LivenessTypeOK, BeatsAreSeen, NEW clock \in BOOLEAN, Believed(clock)
               PROVE  seen # Never /\ (clock => now - seen <= HbDeadline)
    BY DEF IdsInv, IdsSurviveDamage, NoPhantomStream
  <2>1. file.beat # Never /\ (clock => now - file.beat <= HbDeadline) /\ file.kind = "record"
    BY DEF Believed
  <2>2. file \in Liveness
    BY <2>1, KindsDiffer DEF LivenessTypeOK
  <2>3. seen # Never /\ file.beat <= seen /\ seen <= now
    BY <2>1 DEF BeatsAreSeen, Honest
  <2> QED BY <2>1, <2>2, <2>3, LivenessAssumption DEF Liveness, LivenessTypeOK, Never
<1> QED BY <1>1, <1>2, <1>3, PTL DEF LivenessSpec

-----------------------------------------------------------------------------
(* The project board: lanes.                                               *)

LEMMA RemovedAt ==
  ASSUME NEW s \in Seq(Cards), NEW i \in 1..Len(s)
  PROVE  /\ RemoveAt(s, i) \in Seq(Cards)
         /\ Len(RemoveAt(s, i)) = Len(s) - 1
         /\ \A j \in 1..Len(s) - 1 : RemoveAt(s, i)[j] = IF j < i THEN s[j] ELSE s[j + 1]
<1> DEFINE a == SubSeq(s, 1, i - 1)
           b == SubSeq(s, i + 1, Len(s))
<1>0. Len(s) \in Nat /\ \A j \in 1..Len(s) : s[j] \in Cards
  BY ElementOfSeq, LenProperties
<1>1. a \in Seq(Cards) /\ Len(a) = i - 1 /\ \A j \in 1..i - 1 : a[j] = s[j]
  BY <1>0, SubSeqProperties
<1>2. b \in Seq(Cards) /\ Len(b) = Len(s) - i /\ \A j \in 1..Len(s) - i : b[j] = s[i + j]
  BY <1>0, SubSeqProperties
<1>3. RemoveAt(s, i) = a \o b
  BY DEF RemoveAt
<1> HIDE DEF a, b
<1>4. /\ a \o b \in Seq(Cards) /\ Len(a \o b) = Len(a) + Len(b)
      /\ \A j \in 1..Len(a) + Len(b) : (a \o b)[j] = IF j <= Len(a) THEN a[j] ELSE b[j - Len(a)]
  BY <1>1, <1>2, ConcatProperties
<1>5. ASSUME NEW j \in 1..Len(s) - 1
      PROVE  (a \o b)[j] = IF j < i THEN s[j] ELSE s[j + 1]
  <2>0. i \in Nat /\ j \in Nat
    BY <1>0
  <2>1. CASE j < i
    BY <1>0, <1>1, <1>2, <1>4, <2>1
  <2>2. CASE j >= i
    <3>1. j - (i - 1) \in 1..Len(s) - i /\ i + (j - (i - 1)) = j + 1
      BY <1>0, <2>2
    <3>2. (a \o b)[j] = b[j - (i - 1)]
      BY <1>0, <1>1, <1>2, <1>4, <2>2
    <3>3. b[j - (i - 1)] = s[i + (j - (i - 1))]
      BY <1>2, <3>1
    <3> QED BY <2>2, <2>0, <3>1, <3>2, <3>3
  <2>3. j < i \/ j >= i
    BY <2>0
  <2> QED BY <2>1, <2>2, <2>3, Zenon
<1>6. Len(a \o b) = Len(s) - 1
  BY <1>0, <1>1, <1>2, <1>4
<1> QED BY <1>3, <1>4, <1>5, <1>6

\* w is s with c at i.
IsInserted(w, s, i, c) ==
  /\ w \in Seq(Cards) /\ Len(w) = Len(s) + 1
  /\ \A j \in 1..Len(s) + 1 : w[j] = IF j < i THEN s[j] ELSE IF j = i THEN c ELSE s[j - 1]

LEMMA InsertedAt ==
  ASSUME NEW s \in Seq(Cards), NEW i \in 1..Len(s) + 1, NEW c \in Cards
  PROVE  IsInserted(InsertAt(s, i, c), s, i, c)
<1> DEFINE a == SubSeq(s, 1, i - 1)
           b == SubSeq(s, i, Len(s))
           ac == a \o <<c>>
<1>0. Len(s) \in Nat /\ \A j \in 1..Len(s) : s[j] \in Cards
  BY ElementOfSeq, LenProperties
<1>1. a \in Seq(Cards) /\ Len(a) = i - 1 /\ \A j \in 1..i - 1 : a[j] = s[j]
  BY <1>0, SubSeqProperties
<1>2. b \in Seq(Cards) /\ Len(b) = Len(s) - i + 1 /\ \A j \in 1..Len(s) - i + 1 : b[j] = s[i + j - 1]
  BY <1>0, SubSeqProperties
<1>3. InsertAt(s, i, c) = ac \o b
  BY DEF InsertAt
<1>4. <<c>> \in Seq(Cards) /\ Len(<<c>>) = 1 /\ <<c>>[1] = c
  OBVIOUS
<1> HIDE DEF a, b
<1>5. /\ ac \in Seq(Cards) /\ Len(ac) = i
      /\ \A j \in 1..i : ac[j] = IF j <= i - 1 THEN a[j] ELSE <<c>>[j - (i - 1)]
  BY <1>0, <1>1, <1>4, ConcatProperties
<1>6. \A j \in 1..i : ac[j] = IF j < i THEN s[j] ELSE c
  BY <1>0, <1>1, <1>4, <1>5
<1> HIDE DEF ac
<1>7. /\ ac \o b \in Seq(Cards) /\ Len(ac \o b) = Len(ac) + Len(b)
      /\ \A j \in 1..Len(ac) + Len(b) : (ac \o b)[j] = IF j <= Len(ac) THEN ac[j] ELSE b[j - Len(ac)]
  BY <1>2, <1>5, ConcatProperties
<1>8. ASSUME NEW j \in 1..Len(s) + 1
      PROVE  (ac \o b)[j] = IF j < i THEN s[j] ELSE IF j = i THEN c ELSE s[j - 1]
  <2>0. i \in Nat /\ j \in Nat
    BY <1>0
  <2>1. CASE j <= i
    BY <1>0, <1>2, <1>5, <1>6, <1>7, <2>1
  <2>2. CASE j > i
    <3>1. j - i \in 1..Len(s) - i + 1 /\ i + (j - i) - 1 = j - 1
      BY <1>0, <2>2
    <3>2. (ac \o b)[j] = b[j - i]
      BY <1>0, <1>2, <1>5, <1>7, <2>2
    <3>3. b[j - i] = s[i + (j - i) - 1]
      BY <1>2, <3>1
    <3> QED BY <2>2, <2>0, <3>1, <3>2, <3>3
  <2>3. j <= i \/ j > i
    BY <2>0
  <2> QED BY <2>1, <2>2, <2>3, Zenon
<1>9. Len(ac \o b) = Len(s) + 1
  BY <1>0, <1>2, <1>5, <1>7
<1> QED BY <1>3, <1>7, <1>8, <1>9 DEF IsInserted

\* A lane without a card: the others keep their places among themselves.
LEMMA WithoutACard ==
  ASSUME NEW s \in Seq(Cards), IsInjective(s), NEW c \in Cards
  PROVE  /\ Without(s, c) \in Seq(Cards) /\ IsInjective(Without(s, c))
         /\ ToSet(Without(s, c)) = ToSet(s) \ {c}
         /\ Len(Without(s, c)) <= Len(s)
         /\ Contains(s, c) => Len(Without(s, c)) = Len(s) - 1
         /\ InDependencyOrder(s) => InDependencyOrder(Without(s, c))
<1> DEFINE w == Without(s, c)
<1>0. /\ Len(s) \in Nat /\ DOMAIN s = 1..Len(s) /\ \A j \in 1..Len(s) : s[j] \in Cards
      /\ \A i, j \in 1..Len(s) : s[i] = s[j] => i = j
  BY ElementOfSeq, LenProperties DEF IsInjective
<1>1. CASE ~Contains(s, c)
  <2>1. w = s
    BY <1>1 DEF Without
  <2>2. c \notin ToSet(s)
    BY <1>0, <1>1 DEF Contains, ToSet
  <2>3. ToSet(s) = ToSet(s) \ {c}
    BY <2>2
  <2>4. Len(s) <= Len(s)
    BY <1>0
  <2> HIDE DEF w
  <2> QED BY <1>1, <2>1, <2>3, <2>4 DEF w
<1>2. CASE Contains(s, c)
  <2>1. PICK i \in 1..Len(s) : s[i] = c
    BY <1>2 DEF Contains
  <2>2. (CHOOSE j \in DOMAIN s : s[j] = c) = i
    BY <1>0, <2>1
  <2>3. w = RemoveAt(s, i)
    BY <1>2, <2>2 DEF Without
  <2>4. /\ w \in Seq(Cards) /\ Len(w) = Len(s) - 1
        /\ \A j \in 1..Len(s) - 1 : w[j] = IF j < i THEN s[j] ELSE s[j + 1]
    BY <2>3, RemovedAt
  <2> HIDE DEF w
  <2>5. DOMAIN w = 1..Len(s) - 1
    BY <2>4, LenProperties
  <2> DEFINE at(j) == IF j < i THEN j ELSE j + 1
  <2>6. \A j \in 1..Len(s) - 1 : at(j) \in 1..Len(s) /\ at(j) # i /\ w[j] = s[at(j)]
    BY <1>0, <2>1, <2>4
  <2>7. \A j, k \in 1..Len(s) - 1 : (j = k <=> at(j) = at(k)) /\ (at(j) < at(k) => j < k)
    BY <1>0, <2>1
  <2>8. \A k \in 1..Len(s) : k # i => \E j \in 1..Len(s) - 1 : at(j) = k
    <3> SUFFICES ASSUME NEW k \in 1..Len(s), k # i
                 PROVE  \E j \in 1..Len(s) - 1 : at(j) = k
      OBVIOUS
    <3>1. CASE k < i
      <4>1. k \in 1..Len(s) - 1 /\ at(k) = k
        BY <1>0, <2>1, <3>1
      <4> QED BY <4>1
    <3>2. CASE k > i
      <4>1. k - 1 \in 1..Len(s) - 1 /\ at(k - 1) = k
        BY <1>0, <2>1, <3>2
      <4> QED BY <4>1
    <3> QED BY <1>0, <2>1, <3>1, <3>2
  <2> HIDE DEF at
  <2>9. IsInjective(w)
    BY <1>0, <2>5, <2>6, <2>7 DEF IsInjective
  <2>10. ToSet(w) = ToSet(s) \ {c}
    <3>1. \A x \in ToSet(w) : x \in ToSet(s) /\ x # c
      BY <1>0, <2>1, <2>5, <2>6 DEF ToSet
    <3>2. ASSUME NEW x \in ToSet(s), x # c PROVE x \in ToSet(w)
      <4>1. PICK k \in 1..Len(s) : s[k] = x
        BY <1>0 DEF ToSet
      <4>2. PICK j \in 1..Len(s) - 1 : at(j) = k
        BY <2>1, <2>8, <3>2, <4>1
      <4> QED BY <2>5, <2>6, <4>1, <4>2 DEF ToSet
    <3> QED BY <3>1, <3>2
  <2>11. ASSUME InDependencyOrder(s) PROVE InDependencyOrder(w)
    <3> SUFFICES ASSUME NEW j \in 1..Len(s) - 1, NEW k \in 1..Len(s) - 1,
                        w[j] \in Blockers[w[k]], Blockers[w[j]] = {}
                 PROVE  j < k
      BY <2>5 DEF InDependencyOrder
    <3>1. at(j) < at(k)
      BY <1>0, <2>6, <2>11 DEF InDependencyOrder
    <3> QED BY <2>7, <3>1
  <2>12. Len(w) <= Len(s)
    BY <1>0, <2>4
  <2> QED BY <1>2, <2>4, <2>9, <2>10, <2>11, <2>12 DEF w
<1> QED BY <1>1, <1>2

\* A lane with a card more.
LEMMA WithACard ==
  ASSUME NEW s \in Seq(Cards), IsInjective(s), NEW c \in Cards, c \notin ToSet(s),
         NEW i \in 1..Len(s) + 1
  PROVE  /\ InsertAt(s, i, c) \in Seq(Cards) /\ IsInjective(InsertAt(s, i, c))
         /\ ToSet(InsertAt(s, i, c)) = ToSet(s) \cup {c}
         /\ ( /\ InDependencyOrder(s)
              /\ \A j \in 1..Len(s) : s[j] \in Blockers[c] => j < i
              /\ Blockers[c] = {} => \A j \in 1..Len(s) : c \in Blockers[s[j]] => i <= j )
            => InDependencyOrder(InsertAt(s, i, c))
<1> DEFINE w == InsertAt(s, i, c)
<1>0. /\ Len(s) \in Nat /\ DOMAIN s = 1..Len(s) /\ \A j \in 1..Len(s) : s[j] \in Cards /\ s[j] # c
      /\ \A j, k \in 1..Len(s) : s[j] = s[k] => j = k
  BY ElementOfSeq, LenProperties DEF IsInjective, ToSet
<1>1. /\ w \in Seq(Cards) /\ Len(w) = Len(s) + 1
      /\ \A j \in 1..Len(s) + 1 : w[j] = IF j < i THEN s[j] ELSE IF j = i THEN c ELSE s[j - 1]
  <2>1. IsInserted(w, s, i, c)
    BY InsertedAt, Zenon
  <2>2. QED
    BY <2>1 DEF IsInserted
<1> HIDE DEF w
<1>2. DOMAIN w = 1..Len(s) + 1
  BY <1>1, LenProperties
<1> DEFINE at(j) == IF j < i THEN j ELSE j - 1
<1>3. w[i] = c
  BY <1>0, <1>1
<1>4. \A j \in 1..Len(s) + 1 : j # i => at(j) \in 1..Len(s) /\ w[j] = s[at(j)]
  BY <1>0, <1>1
<1>5. \A j, k \in 1..Len(s) + 1 : j # i /\ k # i =>
        (j = k <=> at(j) = at(k)) /\ (at(j) < at(k) => j < k)
  BY <1>0
<1>6. \A k \in 1..Len(s) : \E j \in 1..Len(s) + 1 : j # i /\ at(j) = k
  <2> TAKE k \in 1..Len(s)
  <2>1. CASE k < i
    <3>1. k \in 1..Len(s) + 1 /\ k # i /\ at(k) = k
      BY <1>0, <2>1
    <3> QED BY <3>1
  <2>2. CASE k >= i
    <3>1. k + 1 \in 1..Len(s) + 1 /\ k + 1 # i /\ at(k + 1) = k
      BY <1>0, <2>2
    <3> QED BY <3>1
  <2> QED BY <1>0, <2>1, <2>2
<1>7. \A j \in 1..Len(s) + 1 : j # i => (at(j) < i => j < i) /\ (i <= at(j) => i < j)
  BY <1>0
<1> HIDE DEF at
<1>8. IsInjective(w)
  BY <1>0, <1>2, <1>3, <1>4, <1>5 DEF IsInjective
<1>9. ToSet(w) = ToSet(s) \cup {c}
  <2>1. \A x \in ToSet(w) : x \in ToSet(s) \cup {c}
    BY <1>0, <1>2, <1>3, <1>4 DEF ToSet
  <2>2. ASSUME NEW x \in ToSet(s) PROVE x \in ToSet(w)
    <3>1. PICK k \in 1..Len(s) : s[k] = x
      BY <1>0 DEF ToSet
    <3>2. PICK j \in 1..Len(s) + 1 : j # i /\ at(j) = k
      BY <1>6
    <3> QED BY <1>2, <1>4, <3>1, <3>2 DEF ToSet
  <2>3. c \in ToSet(w)
    BY <1>0, <1>2, <1>3 DEF ToSet
  <2> QED BY <2>1, <2>2, <2>3
<1>10. ASSUME /\ InDependencyOrder(s)
              /\ \A j \in 1..Len(s) : s[j] \in Blockers[c] => j < i
              /\ Blockers[c] = {} => \A j \in 1..Len(s) : c \in Blockers[s[j]] => i <= j
       PROVE  InDependencyOrder(w)
  <2> SUFFICES ASSUME NEW j \in 1..Len(s) + 1, NEW k \in 1..Len(s) + 1,
                      w[j] \in Blockers[w[k]], Blockers[w[j]] = {}
               PROVE  j < k
    BY <1>2 DEF InDependencyOrder
  <2>1. CASE j # i /\ k # i
    <3>1. at(j) < at(k)
      BY <1>0, <1>4, <1>10, <2>1 DEF InDependencyOrder
    <3> QED BY <1>5, <2>1, <3>1
  <2>2. CASE j # i /\ k = i
    BY <1>3, <1>4, <1>7, <1>10, <2>2
  <2>3. CASE j = i /\ k # i
    BY <1>3, <1>4, <1>7, <1>10, <2>3
  <2>4. CASE j = i /\ k = i
    BY <1>3, <2>4
  <2> QED BY <2>1, <2>2, <2>3, <2>4
<1> QED BY <1>1, <1>8, <1>9, <1>10 DEF w

\* Where a card enters Ready: after all that block it; and, if nothing blocks
\* it, before all that it blocks.
LEMMA ReadyIndexFits ==
  ASSUME NEW s \in Seq(Cards), NEW c \in Cards
  PROVE  /\ ReadyIndex(s, c) \in 1..Len(s) + 1
         /\ \A j \in 1..Len(s) : s[j] \in Blockers[c] => j < ReadyIndex(s, c)
         /\ Blockers[c] = {} => \A j \in 1..Len(s) : c \in Blockers[s[j]] => ReadyIndex(s, c) <= j
<1> DEFINE n == Len(s)
           Lo(i) == /\ i > 1 => s[i - 1] \in Blockers[c]
                    /\ \A j \in i..n : s[j] \notin Blockers[c]
           lo == CHOOSE i \in 1..n + 1 : Lo(i)
           Ahead(i) == /\ i <= n => c \in Blockers[s[i]]
                       /\ \A j \in 1..i - 1 : c \notin Blockers[s[j]]
           first == CHOOSE i \in 1..n + 1 : Ahead(i)
           hi == IF first < lo THEN lo ELSE first
           Slot(i) == /\ i < hi => Created[s[i]] > Created[c]
                      /\ \A j \in lo..i - 1 : Created[s[j]] <= Created[c]
           slot == CHOOSE i \in lo..hi : Slot(i)
<1>0. n \in Nat /\ \A j \in 1..n : s[j] \in Cards
  BY ElementOfSeq, LenProperties
<1>1. ReadyIndex(s, c) = slot
  BY DEF ReadyIndex
<1> HIDE DEF n
<1>2. \E i \in 1..n + 1 : Lo(i)
  <2> DEFINE P == {i \in 0..n : i = 0 \/ s[i] \in Blockers[c]}
  <2>1. 0 \in P
    BY <1>0
  <2>2. PICK i \in P : \A j \in P : j <= i
    BY <1>0, <2>1, GreatestUpTo
  <2>3. i + 1 \in 1..n + 1 /\ (i + 1 > 1 => s[i + 1 - 1] \in Blockers[c])
    BY <1>0, <2>2
  <2>4. \A j \in i + 1..n : s[j] \notin Blockers[c]
    BY <1>0, <2>2
  <2> QED BY <2>3, <2>4
<1>3. lo \in 1..n + 1 /\ Lo(lo)
  BY <1>2
<1>4. \E i \in 1..n + 1 : Ahead(i)
  <2> DEFINE P == {i \in 1..n + 1 : i = n + 1 \/ c \in Blockers[s[i]]}
  <2>1. n + 1 \in P /\ P \subseteq Nat
    BY <1>0
  <2>2. PICK i \in P : \A j \in P : i <= j
    BY <2>1, LeastOfNats
  <2>3. i \in 1..n + 1 /\ (i <= n => c \in Blockers[s[i]])
    BY <1>0, <2>2
  <2>4. \A j \in 1..i - 1 : c \notin Blockers[s[j]]
    BY <1>0, <2>2
  <2> QED BY <2>3, <2>4
<1>5. first \in 1..n + 1 /\ Ahead(first)
  BY <1>4
<1> HIDE DEF lo, first
<1>6. hi \in 1..n + 1 /\ lo <= hi
  BY <1>0, <1>3, <1>5
<1>7. \E i \in lo..hi : Slot(i)
  <2> DEFINE P == {i \in lo..hi : i = hi \/ Created[s[i]] > Created[c]}
  <2>1. hi \in P /\ P \subseteq Nat
    BY <1>0, <1>3, <1>6
  <2> HIDE DEF hi
  <2>2. PICK i \in P : \A j \in P : i <= j
    BY <2>1, LeastOfNats
  <2>3. i \in lo..hi /\ (i < hi => Created[s[i]] > Created[c])
    BY <1>0, <1>3, <1>6, <2>2
  <2>4. ASSUME NEW j \in lo..i - 1 PROVE Created[s[j]] <= Created[c]
    <3>1. j \in 1..n /\ j \in lo..hi /\ j # hi /\ j < i
      BY <1>0, <1>3, <1>6, <2>2, <2>3
    <3>2. s[j] \in Cards
      BY <1>0, <3>1
    <3>3. Created[s[j]] \in Nat /\ Created[c] \in Nat
      BY <3>2, BoardAssumption
    <3>4. ~ (Created[s[j]] > Created[c])
      BY <2>2, <3>1
    <3> QED BY <3>3, <3>4
  <2> QED BY <2>3, <2>4
<1>8. slot \in lo..hi
  BY <1>7
<1> HIDE DEF slot, hi
<1>9. slot \in 1..n + 1 /\ lo <= slot /\ slot <= hi
  BY <1>0, <1>3, <1>6, <1>8
<1>10. ASSUME NEW j \in 1..n, s[j] \in Blockers[c] PROVE j < slot
  <2>1. ~ (j \in lo..n)
    BY <1>3, <1>10
  <2> QED BY <1>0, <1>3, <1>9, <2>1
<1>11. ASSUME Blockers[c] = {}, NEW j \in 1..n, c \in Blockers[s[j]] PROVE slot <= j
  <2>1. lo = 1
    BY <1>0, <1>3, <1>11
  <2>2. hi = first
    BY <1>0, <1>5, <2>1 DEF hi
  <2>3. ~ (j \in 1..first - 1)
    BY <1>5, <1>11
  <2> QED BY <1>0, <1>5, <1>9, <2>2, <2>3
<1> QED BY <1>1, <1>9, <1>10, <1>11 DEF n

-----------------------------------------------------------------------------
(* The project board: what a command does to a board.                      *)

Sound(b) == b \in Boards /\ Once(b)
ReadyInOrder(b) == InDependencyOrder(b.lanes["ready"])

LEMMA LanesHold ==
  ASSUME NEW b \in Boards, NEW l \in Lanes, NEW c
  PROVE  /\ b.lanes \in [Lanes -> Seq(Cards)] /\ b.lanes[l] \in Seq(Cards)
         /\ Len(b.lanes[l]) \in Nat /\ b.archive \in SUBSET Cards
         /\ Contains(b.lanes[l], c) <=> c \in ToSet(b.lanes[l])
         /\ ToSet(b.lanes[l]) \subseteq Cards
<1>1. b.lanes \in [Lanes -> Seq(Cards)] /\ b.archive \in SUBSET Cards
  BY DEF Boards
<1>2. b.lanes[l] \in Seq(Cards)
  BY <1>1
<1>3. DOMAIN b.lanes[l] = 1..Len(b.lanes[l]) /\ Len(b.lanes[l]) \in Nat
  BY <1>2, LenProperties
<1>4. \A i \in 1..Len(b.lanes[l]) : b.lanes[l][i] \in Cards
  BY <1>2, ElementOfSeq
<1> QED BY <1>1, <1>2, <1>3, <1>4 DEF Contains, ToSet

\* Where a card is not.
LEMMA Absent ==
  ASSUME NEW b \in Boards, NEW c
  PROVE  /\ OnBoard(b, c) <=> (\E l \in Lanes : c \in ToSet(b.lanes[l])) \/ c \in b.archive
         /\ InLane(b, c) <=> \E l \in Lanes : c \in ToSet(b.lanes[l])
BY LanesHold DEF OnBoard, InLane

LEMMA RemovedCard ==
  ASSUME NEW b, Sound(b), NEW c \in Cards
  PROVE  /\ Sound(RemoveCard(b, c)) /\ ~OnBoard(RemoveCard(b, c), c)
         /\ RemoveCard(b, c).archive = b.archive \ {c}
         /\ \A l \in Lanes : Contains(b.lanes[l], c)
              => Len(RemoveCard(b, c).lanes[l]) = Len(b.lanes[l]) - 1
         /\ ReadyInOrder(b) => ReadyInOrder(RemoveCard(b, c))
<1> DEFINE r == RemoveCard(b, c)
<1>0. b \in Boards /\ Once(b)
  BY DEF Sound
<1>1. \A l \in Lanes : r.lanes[l] = Without(b.lanes[l], c)
  BY DEF RemoveCard
<1>2. r.archive = b.archive \ {c} /\ r = [lanes |-> r.lanes, archive |-> r.archive]
      /\ r.lanes = [l \in Lanes |-> Without(b.lanes[l], c)]
  BY DEF RemoveCard
<1> HIDE DEF r
<1>3. \A l \in Lanes :
        /\ r.lanes[l] \in Seq(Cards) /\ IsInjective(r.lanes[l])
        /\ ToSet(r.lanes[l]) = ToSet(b.lanes[l]) \ {c}
        /\ Contains(b.lanes[l], c) => Len(r.lanes[l]) = Len(b.lanes[l]) - 1
        /\ InDependencyOrder(b.lanes[l]) => InDependencyOrder(r.lanes[l])
  <2> TAKE l \in Lanes
  <2>1. b.lanes[l] \in Seq(Cards) /\ IsInjective(b.lanes[l])
    BY <1>0, LanesHold DEF Once
  <2> QED BY <1>1, <2>1, WithoutACard
<1>4. r \in Boards
  <2>1. r.lanes \in [Lanes -> Seq(Cards)]
    BY <1>2, <1>3
  <2>2. r.archive \in SUBSET Cards
    BY <1>0, <1>2 DEF Boards
  <2> QED BY <1>2, <2>1, <2>2 DEF Boards
<1>5. Once(r)
  BY <1>0, <1>2, <1>3 DEF Once
<1>6. ~OnBoard(r, c)
  BY <1>2, <1>3, <1>4, Absent
<1>7. "ready" \in Lanes
  BY DEF Lanes
<1> QED BY <1>2, <1>3, <1>4, <1>5, <1>6, <1>7 DEF r, Sound, ReadyInOrder

LEMMA InsertedCard ==
  ASSUME NEW b, Sound(b), NEW l \in Lanes, NEW c \in Cards, ~OnBoard(b, c),
         NEW i \in 1..Len(b.lanes[l]) + 1
  PROVE  /\ Sound(InsertCard(b, l, c, i)) /\ OnBoard(InsertCard(b, l, c, i), c)
         /\ InsertCard(b, l, c, i).archive = b.archive
         /\ ( /\ ReadyInOrder(b)
              /\ l = "ready" =>
                   /\ \A j \in 1..Len(b.lanes[l]) : b.lanes[l][j] \in Blockers[c] => j < i
                   /\ Blockers[c] = {} =>
                        \A j \in 1..Len(b.lanes[l]) : c \in Blockers[b.lanes[l][j]] => i <= j )
            => ReadyInOrder(InsertCard(b, l, c, i))
<1> DEFINE r == InsertCard(b, l, c, i)
           w == InsertAt(b.lanes[l], i, c)
<1>0. b \in Boards /\ Once(b)
  BY DEF Sound
<1>1. b.lanes \in [Lanes -> Seq(Cards)] /\ b.archive \in SUBSET Cards
      /\ b \in [lanes : [Lanes -> Seq(Cards)], archive : SUBSET Cards]
  BY <1>0 DEF Boards
<1>3. r.lanes = [b.lanes EXCEPT ![l] = w] /\ r.archive = b.archive
  BY <1>1 DEF InsertCard
<1>4. \A m \in Lanes : r.lanes[m] = IF m = l THEN w ELSE b.lanes[m]
  BY <1>1, <1>3
<1>5. b.lanes[l] \in Seq(Cards) /\ IsInjective(b.lanes[l]) /\ c \notin ToSet(b.lanes[l])
  BY <1>0, LanesHold, Absent DEF Once
<1>6. /\ w \in Seq(Cards) /\ IsInjective(w) /\ ToSet(w) = ToSet(b.lanes[l]) \cup {c}
      /\ ( /\ InDependencyOrder(b.lanes[l])
           /\ \A j \in 1..Len(b.lanes[l]) : b.lanes[l][j] \in Blockers[c] => j < i
           /\ Blockers[c] = {} =>
                \A j \in 1..Len(b.lanes[l]) : c \in Blockers[b.lanes[l][j]] => i <= j )
         => InDependencyOrder(w)
  BY <1>5, WithACard
<1>7. r \in Boards
  <2> HIDE DEF w
  <2>1. [b.lanes EXCEPT ![l] = w] \in [Lanes -> Seq(Cards)]
    BY <1>1, <1>6
  <2>2. r = [b EXCEPT !.lanes = [b.lanes EXCEPT ![l] = w]]
    BY <1>1 DEF InsertCard, w
  <2> QED BY <1>1, <2>1, <2>2 DEF Boards
<1> HIDE DEF r, w
<1>8. \A m \in Lanes : c \notin ToSet(b.lanes[m])
  BY <1>0, Absent
<1>9. c \notin b.archive
  BY <1>0, Absent
<1>10. Once(r)
  <2>1. \A m \in Lanes : IsInjective(r.lanes[m])
    BY <1>0, <1>4, <1>6 DEF Once
  <2>2. \A m \in Lanes : ToSet(r.lanes[m]) = IF m = l THEN ToSet(b.lanes[m]) \cup {c} ELSE ToSet(b.lanes[m])
    BY <1>4, <1>6
  <2>3. /\ \A m, n \in Lanes : m # n => ToSet(b.lanes[m]) \cap ToSet(b.lanes[n]) = {}
        /\ \A m \in Lanes : ToSet(b.lanes[m]) \cap b.archive = {}
    BY <1>0 DEF Once
  <2>4. \A m, n \in Lanes : m # n => ToSet(r.lanes[m]) \cap ToSet(r.lanes[n]) = {}
    BY <1>8, <2>2, <2>3
  <2>5. \A m \in Lanes : ToSet(r.lanes[m]) \cap r.archive = {}
    BY <1>3, <1>9, <2>2, <2>3
  <2> QED BY <2>1, <2>4, <2>5 DEF Once
<1>11. OnBoard(r, c)
  <2>1. c \in ToSet(r.lanes[l])
    BY <1>4, <1>6
  <2> QED BY <1>7, <2>1, Absent
<1>12. "ready" \in Lanes
  BY DEF Lanes
<1> QED BY <1>3, <1>4, <1>6, <1>7, <1>10, <1>11, <1>12 DEF r, Sound, ReadyInOrder

LEMMA ArchivedCard ==
  ASSUME NEW b, Sound(b), NEW c \in Cards, ~OnBoard(b, c)
  PROVE  /\ Sound(Archive(b, c)) /\ OnBoard(Archive(b, c), c)
         /\ Archive(b, c).archive = b.archive \cup {c}
         /\ ReadyInOrder(b) => ReadyInOrder(Archive(b, c))
<1> DEFINE r == Archive(b, c)
<1>0. b \in Boards /\ Once(b)
  BY DEF Sound
<1>1. b.lanes \in [Lanes -> Seq(Cards)] /\ b.archive \in SUBSET Cards
      /\ b \in [lanes : [Lanes -> Seq(Cards)], archive : SUBSET Cards]
  BY <1>0 DEF Boards
<1>3. r \in Boards
  BY <1>1 DEF Archive, Boards
<1>4. r.lanes = b.lanes /\ r.archive = b.archive \cup {c}
  BY <1>1 DEF Archive
<1> HIDE DEF r
<1>5. \A m \in Lanes : c \notin ToSet(b.lanes[m])
  BY <1>0, Absent
<1>6. Once(r)
  BY <1>0, <1>4, <1>5 DEF Once
<1>7. OnBoard(r, c)
  BY <1>4 DEF OnBoard
<1> QED BY <1>3, <1>4, <1>6, <1>7 DEF r, Sound, ReadyInOrder

\* set-status moves a card to one place, and into Ready where it belongs.
LEMMA MovedCard ==
  ASSUME NEW b, Sound(b), NEW c \in Cards, NEW to \in Status
  PROVE  /\ Sound(MoveCard(b, c, to)) /\ OnBoard(MoveCard(b, c, to), c)
         /\ MoveCard(b, c, to).archive = IF to \in Terminal THEN b.archive \cup {c} ELSE b.archive \ {c}
         /\ ReadyInOrder(b) => ReadyInOrder(MoveCard(b, c, to))
<1> DEFINE r == RemoveCard(b, c)
           i == IF to = "ready" THEN ReadyIndex(r.lanes["ready"], c) ELSE Len(r.lanes[to]) + 1
<1>1. /\ Sound(r) /\ ~OnBoard(r, c) /\ r.archive = b.archive \ {c}
      /\ ReadyInOrder(b) => ReadyInOrder(r)
  BY RemovedCard
<1>2. MoveCard(b, c, to) = IF to \in Terminal THEN Archive(r, c) ELSE InsertCard(r, to, c, i)
  BY DEF MoveCard
<1> HIDE DEF r
<1>3. CASE to \in Terminal
  <2>1. b.archive \cup {c} = (b.archive \ {c}) \cup {c}
    OBVIOUS
  <2> QED BY <1>1, <1>2, <1>3, <2>1, ArchivedCard
<1>4. CASE to \notin Terminal
  <2>1. to \in Lanes
    BY <1>4 DEF Status
  <2>2. r \in Boards
    BY <1>1 DEF Sound
  <2>3. r.lanes[to] \in Seq(Cards) /\ Len(r.lanes[to]) \in Nat
    BY <2>1, <2>2, LanesHold
  <2>4. /\ i \in 1..Len(r.lanes[to]) + 1
        /\ to = "ready" =>
             /\ \A j \in 1..Len(r.lanes[to]) : r.lanes[to][j] \in Blockers[c] => j < i
             /\ Blockers[c] = {} =>
                  \A j \in 1..Len(r.lanes[to]) : c \in Blockers[r.lanes[to][j]] => i <= j
    <3>1. CASE to = "ready"
      BY <2>3, <3>1, ReadyIndexFits
    <3>2. CASE to # "ready"
      BY <2>3, <3>2
    <3> QED BY <3>1, <3>2
  <2> HIDE DEF i
  <2> QED BY <1>1, <1>2, <1>4, <2>1, <2>4, InsertedCard
<1> QED BY <1>3, <1>4

-----------------------------------------------------------------------------
(* The project board: the invariant.                                       *)

Command ==
  [pc : {"idle", "load", "read", "store"}, task : {"any", "claim", "batch"}, queue : Seq(Cards),
   old : BOOLEAN, force : BOOLEAN, card : Cards \cup {"none"}, stamped : BOOLEAN,
   seen : Boards, notes : [Cards -> Stamp]]

BoardTypes ==
  /\ Sound(board) /\ note \in [Cards -> Stamp]
  /\ user \in [Users -> Command]
  /\ \A u \in Users :
       /\ Once(Seen(u))
       /\ user[u].pc = "store" => user[u].card \in Cards
       /\ user[u].task = "claim" => user[u].queue # <<>>
       /\ user[u].task = "batch" /\ user[u].pc = "store" => user[u].queue # <<>>
  /\ commands \in 0..MaxCommands /\ agents \in [Cards -> 0..2]
  /\ overwritten \in BOOLEAN /\ cut \subseteq Cards /\ handmade \in BOOLEAN

\* What a command has read is what there is, unless it was overtaken; but a
\* card may have been filed in the icebox since.
ReadsHold ==
  \A u \in Users : ~user[u].old /\ user[u].pc \in {"load", "read"} =>
    /\ Seen(u) = board
    /\ user[u].pc = "read" =>
         \A c \in Cards : \/ user[u].notes[c] = note[c]
                          \/ user[u].notes[c] = "missing" /\ note[c] = "none"

\* A command that is to write its board changes one card, and has stamped the
\* note of that card if its outcome changes.
ChangesOneCard(u) ==
  LET c == user[u].card
      b == Seen(u)
  IN  /\ \A d \in Cards : d # c => (d \in b.archive <=> d \in board.archive)
      /\ c \in b.archive => note[c] \in Terminal
      /\ c \notin b.archive /\ user[u].stamped => note[c] \notin Terminal
      /\ c \notin b.archive /\ c \in board.archive /\ OnBoard(b, c) => user[u].stamped

Changing == \A u \in Users : user[u].pc = "store" /\ ~user[u].old => ChangesOneCard(u)

\* The command that has stamped a note is still to write the board.
Stamping(c) == \E u \in Users : user[u].pc = "store" /\ user[u].stamped /\ user[u].card = c

Agreement ==
  ~overwritten =>
    \A c \in Cards : (c \in board.archive <=> note[c] \in Terminal) \/ c \in cut \/ Stamping(c)

\* Every board there is has its Ready lane in order.
InOrder ==
  ~handmade => ReadyInOrder(board) /\ \A u \in Users : ReadyInOrder(Seen(u))

\* A card in To-do has no implementor, and neither has one that a dispatch
\* found there.
Grabbing ==
  /\ \A c \in Cards : Contains(board.lanes["todo"], c) => agents[c] = 0
  /\ \A u \in Users : user[u].task = "claim" /\ ~user[u].force /\ ~user[u].old =>
       /\ agents[Head(user[u].queue)] = 0
       /\ user[u].pc = "store" => user[u].card = Head(user[u].queue)
  /\ ~overwritten => \A c \in Cards : agents[c] <= 1

BoardInv ==
  BoardTypes /\ ReadsHold /\ Changing /\ Agreement /\ InOrder /\ Grabbing

-----------------------------------------------------------------------------
(* The project board: steps that only a command itself sees.               *)

LEMMA NothingIsACommand ==
  /\ AtRest \in Command /\ Sound(AtRest.seen) /\ ReadyInOrder(AtRest.seen)
  /\ AtRest.pc = "idle" /\ AtRest.task = "any" /\ AtRest.old = FALSE
  /\ AtRest.notes \in [Cards -> Stamp] /\ AtRest.queue = <<>>
<1> DEFINE b == [lanes |-> [l \in Lanes |-> <<>>], archive |-> {}]
<1>1. <<>> \in Seq(Cards) /\ DOMAIN <<>> = {}
  OBVIOUS
<1>2. b \in Boards
  BY <1>1 DEF Boards
<1>3. \A l \in Lanes : b.lanes[l] = <<>>
  OBVIOUS
<1>4. IsInjective(<<>>) /\ ToSet(<<>>) = {} /\ InDependencyOrder(<<>>)
  BY <1>1 DEF IsInjective, ToSet, InDependencyOrder
<1>5. Once(b)
  BY <1>3, <1>4 DEF Once
<1>6. [c \in Cards |-> "missing"] \in [Cards -> Stamp]
  BY DEF Stamp
<1>7. ReadyInOrder(b)
  BY <1>3, <1>4 DEF ReadyInOrder, Lanes
<1>8. AtRest.seen = b
  BY DEF AtRest
<1>9. /\ AtRest.pc = "idle" /\ AtRest.task = "any" /\ AtRest.old = FALSE
      /\ AtRest.notes = [c \in Cards |-> "missing"] /\ AtRest.queue = <<>>
  BY DEF AtRest
<1> HIDE DEF b
<1>10. AtRest \in Command
  BY <1>1, <1>2, <1>6, <1>8, <1>9 DEF AtRest, Command
<1> QED BY <1>2, <1>5, <1>6, <1>7, <1>8, <1>9, <1>10 DEF Sound

\* A step that leaves the board and the notes alone and writes nothing.
LEMMA QuietStep ==
  ASSUME BoardInv, NEW u \in Users,
         UNCHANGED <<board, note, agents, overwritten, handmade>>,
         commands' \in 0..MaxCommands,
         user' \in [Users -> Command], \A v \in Users : v # u => user'[v] = user[v],
         user'[u].pc # "store", Once(user'[u].seen),
         user'[u].task = "claim" => user'[u].queue # <<>>,
         cut \subseteq cut', cut' \subseteq Cards,
         user[u].pc = "store" /\ user[u].stamped => user[u].card \in cut',
         ~user'[u].old /\ user'[u].pc \in {"load", "read"} =>
           /\ user'[u].seen = board
           /\ user'[u].pc = "read" =>
                \A c \in Cards : \/ user'[u].notes[c] = note[c]
                                 \/ user'[u].notes[c] = "missing" /\ note[c] = "none",
         ~handmade => ReadyInOrder(user'[u].seen),
         user'[u].task = "claim" /\ ~user'[u].force /\ ~user'[u].old => agents[Head(user'[u].queue)] = 0
  PROVE  BoardInv'
<1>1. BoardTypes'
  BY DEF BoardInv, BoardTypes, Seen, Sound
<1>2. ReadsHold'
  BY DEF BoardInv, ReadsHold, Seen
<1>3. Changing'
  BY DEF BoardInv, Changing, ChangesOneCard, Seen
<1>4. Agreement'
  <2> SUFFICES ASSUME ~overwritten, NEW c \in Cards
               PROVE  (c \in board.archive <=> note[c] \in Terminal) \/ c \in cut' \/ Stamping(c)'
    BY DEF Agreement
  <2>1. (c \in board.archive <=> note[c] \in Terminal) \/ c \in cut \/ Stamping(c)
    BY DEF BoardInv, Agreement
  <2>2. ASSUME Stamping(c) PROVE c \in cut' \/ Stamping(c)'
    <3>1. PICK v \in Users : user[v].pc = "store" /\ user[v].stamped /\ user[v].card = c
      BY <2>2 DEF Stamping
    <3>2. CASE v = u
      BY <3>1, <3>2
    <3>3. CASE v # u
      BY <3>1, <3>3 DEF Stamping
    <3> QED BY <3>2, <3>3
  <2> QED BY <2>1, <2>2
<1>5. InOrder'
  BY DEF BoardInv, InOrder, Seen, ReadyInOrder
<1>6. Grabbing'
  BY DEF BoardInv, Grabbing
<1> QED BY <1>1, <1>2, <1>3, <1>4, <1>5, <1>6 DEF BoardInv

LEMMA StartsKeeps ==
  ASSUME BoardInv, NEW u \in Users, Starts(u) PROVE BoardInv'
<1>0. /\ AtRest \in Command /\ AtRest.old = FALSE /\ AtRest.task = "any" /\ AtRest.queue = <<>>
      /\ board \in Boards /\ Once(board) /\ user \in [Users -> Command]
      /\ commands \in Nat /\ MaxCommands \in Nat
  BY NothingIsACommand, BoardAssumption DEF BoardInv, BoardTypes, Sound
<1> DEFINE r == [AtRest EXCEPT !.pc = "load", !.seen = board]
<1>1. r \in Command
  BY <1>0 DEF Command
<1>2. r.pc = "load" /\ r.seen = board /\ r.task = "any" /\ r.old = FALSE
  BY <1>0 DEF Command
<1>3. user' = [user EXCEPT ![u] = r]
  BY DEF Starts
<1> HIDE DEF r
<1>4. user' \in [Users -> Command] /\ user'[u] = r /\ \A v \in Users : v # u => user'[v] = user[v]
  BY <1>0, <1>1, <1>3
<1>5. commands' \in 0..MaxCommands
  BY <1>0 DEF Starts
<1>6. UNCHANGED <<board, note, agents, overwritten, cut, handmade>> /\ user[u].pc = "idle"
  BY DEF Starts, History
<1>7. ~handmade => ReadyInOrder(board)
  BY DEF BoardInv, InOrder
<1>8. cut \subseteq Cards
  BY DEF BoardInv, BoardTypes
<1> QED BY <1>0, <1>2, <1>4, <1>5, <1>6, <1>7, <1>8, QuietStep

LEMMA ReadsAgainKeeps ==
  ASSUME BoardInv, NEW u \in Users, ReadsAgain(u) PROVE BoardInv'
<1>0. /\ board \in Boards /\ Once(board) /\ user \in [Users -> Command]
      /\ commands \in 0..MaxCommands /\ cut \subseteq Cards
      /\ user[u].task = "claim" => user[u].queue # <<>>
  BY DEF BoardInv, BoardTypes, Sound
<1> DEFINE o == IF user[u].task = "claim" THEN user[u].old ELSE FALSE
           r == [user[u] EXCEPT !.pc = "load", !.seen = board, !.old = o]
<1>1. user[u] \in Command /\ o \in BOOLEAN
  BY <1>0 DEF Command
<1>2. user' = [user EXCEPT ![u] = r]
  BY <1>0 DEF ReadsAgain
<1>3. user[u].task = "claim" => o = user[u].old
  OBVIOUS
<1> HIDE DEF o
<1>4. r \in Command
  BY <1>0, <1>1 DEF Command
<1>5. /\ r.pc = "load" /\ r.seen = board /\ r.task = user[u].task /\ r.old = o
      /\ r.queue = user[u].queue /\ r.force = user[u].force
  BY <1>1 DEF Command
<1> HIDE DEF r
<1>6. user' \in [Users -> Command] /\ user'[u] = r /\ \A v \in Users : v # u => user'[v] = user[v]
  BY <1>0, <1>2, <1>4
<1>7. UNCHANGED <<board, note, commands, agents, overwritten, cut, handmade>> /\ user[u].pc = "idle"
  BY DEF ReadsAgain, History
<1>8. ~handmade => ReadyInOrder(board)
  BY DEF BoardInv, InOrder
<1>9. r.task = "claim" /\ ~r.force /\ ~r.old => agents[Head(r.queue)] = 0
  BY <1>3, <1>5 DEF BoardInv, Grabbing
<1> QED BY <1>0, <1>5, <1>6, <1>7, <1>8, <1>9, QuietStep

LEMMA LoadsNotesKeeps ==
  ASSUME BoardInv, NEW u \in Users, LoadsNotes(u) PROVE BoardInv'
<1>0. /\ note \in [Cards -> Stamp] /\ user \in [Users -> Command]
      /\ commands \in 0..MaxCommands /\ cut \subseteq Cards
      /\ user[u].task = "claim" => user[u].queue # <<>>
      /\ Once(user[u].seen)
  BY DEF BoardInv, BoardTypes, Seen
<1> DEFINE r == [user[u] EXCEPT !.pc = "read", !.notes = note]
<1>1. user[u] \in Command
  BY <1>0
<1>2. user' = [user EXCEPT ![u] = r] /\ user[u].pc = "load"
  BY <1>0 DEF LoadsNotes
<1>3. r \in Command
  BY <1>0, <1>1 DEF Command
<1>4. /\ r.pc = "read" /\ r.seen = user[u].seen /\ r.task = user[u].task /\ r.old = user[u].old
      /\ r.queue = user[u].queue /\ r.force = user[u].force /\ r.notes = note
  BY <1>1 DEF Command
<1> HIDE DEF r
<1>5. user' \in [Users -> Command] /\ user'[u] = r /\ \A v \in Users : v # u => user'[v] = user[v]
  BY <1>0, <1>2, <1>3
<1>6. UNCHANGED <<board, note, commands, agents, overwritten, cut, handmade>>
  BY DEF LoadsNotes, History
<1>7. ~handmade => ReadyInOrder(r.seen)
  BY <1>4 DEF BoardInv, InOrder, Seen
<1>8. r.task = "claim" /\ ~r.force /\ ~r.old => agents[Head(r.queue)] = 0
  BY <1>4 DEF BoardInv, Grabbing
<1>9. ~r.old => r.seen = board
  BY <1>2, <1>4 DEF BoardInv, ReadsHold, Seen
<1> QED BY <1>0, <1>2, <1>4, <1>5, <1>6, <1>7, <1>8, <1>9, QuietStep

LEMMA AcceptsAllKeeps ==
  ASSUME BoardInv, NEW u \in Users, AcceptsAll(u) PROVE BoardInv'
<1>0. /\ user \in [Users -> Command] /\ commands \in 0..MaxCommands /\ cut \subseteq Cards
      /\ AtRest \in Command /\ Sound(AtRest.seen) /\ ReadyInOrder(AtRest.seen) /\ AtRest.pc = "idle"
  BY NothingIsACommand DEF BoardInv, BoardTypes
<1> DEFINE r == [AtRest EXCEPT !.task = "batch", !.queue = Seen(u).lanes["ready"]]
<1>1. Seen(u).lanes["ready"] \in Seq(Cards)
  BY <1>0, LanesHold DEF Seen, Command, Lanes
<1>2. user' = [user EXCEPT ![u] = r] /\ user[u].pc = "read"
  BY <1>0 DEF AcceptsAll, Reading
<1>3. r \in Command
  BY <1>0, <1>1 DEF Command
<1>4. r.pc = "idle" /\ r.seen = AtRest.seen /\ r.task = "batch"
  BY <1>0 DEF Command
<1> HIDE DEF r
<1>5. user' \in [Users -> Command] /\ user'[u] = r /\ \A v \in Users : v # u => user'[v] = user[v]
  BY <1>0, <1>2, <1>3
<1>6. UNCHANGED <<board, note, commands, agents, overwritten, cut, handmade>>
  BY DEF AcceptsAll, History
<1>7. Once(AtRest.seen)
  BY <1>0 DEF Sound
<1> QED BY <1>0, <1>2, <1>4, <1>5, <1>6, <1>7, QuietStep

\* A dispatch finds its card in To-do, where it has no implementor.
LEMMA GuardsKeeps ==
  ASSUME BoardInv, NEW u \in Users, NEW c \in Cards, NEW force \in BOOLEAN, Guards(u, c, force)
  PROVE  BoardInv'
<1>0. /\ user \in [Users -> Command] /\ commands \in 0..MaxCommands /\ cut \subseteq Cards
      /\ AtRest \in Command /\ Sound(AtRest.seen) /\ ReadyInOrder(AtRest.seen) /\ AtRest.pc = "idle"
  BY NothingIsACommand DEF BoardInv, BoardTypes
<1> DEFINE r == [AtRest EXCEPT !.task = "claim", !.queue = <<c>>, !.force = force, !.old = user[u].old]
<1>1. <<c>> \in Seq(Cards) /\ Head(<<c>>) = c /\ <<c>> # <<>>
  OBVIOUS
<1>2. user' = [user EXCEPT ![u] = r] /\ user[u].pc = "read"
  BY <1>0 DEF Guards, Reading
<1>3. user[u] \in Command /\ user[u].old \in BOOLEAN
  BY <1>0 DEF Command
<1>4. r \in Command
  BY <1>0, <1>1, <1>3 DEF Command
<1>5. /\ r.pc = "idle" /\ r.seen = AtRest.seen /\ r.task = "claim" /\ r.queue = <<c>>
      /\ r.force = force /\ r.old = user[u].old
  BY <1>0 DEF Command
<1> HIDE DEF r
<1>6. user' \in [Users -> Command] /\ user'[u] = r /\ \A v \in Users : v # u => user'[v] = user[v]
  BY <1>0, <1>2, <1>4
<1>7. UNCHANGED <<board, note, commands, agents, overwritten, cut, handmade>>
  BY DEF Guards, History
<1>8. Once(AtRest.seen)
  BY <1>0 DEF Sound
<1>9. ASSUME ~force, ~user[u].old PROVE agents[c] = 0
  <2>1. Seen(u) = board
    BY <1>2, <1>9 DEF BoardInv, ReadsHold
  <2>2. StatusOf(board, user[u].notes, c) = "todo"
    BY <1>9, <2>1 DEF Guards, IsAvailable
  <2>3. user[u].notes[c] # "todo"
    BY <1>3 DEF Command, Stamp, Terminal
  <2>4. InLane(board, c)
    BY <2>2, <2>3 DEF StatusOf
  <2>5. Contains(board.lanes["todo"], c)
    BY <2>2, <2>4 DEF StatusOf, InLane
  <2> QED BY <2>5 DEF BoardInv, Grabbing
<1> QED BY <1>0, <1>1, <1>2, <1>5, <1>6, <1>7, <1>8, <1>9, QuietStep

\* A command that dies leaves its stamp behind.
LEMMA QuitsKeeps ==
  ASSUME BoardInv, NEW u \in Users, Quits(u) PROVE BoardInv'
<1>0. /\ user \in [Users -> Command] /\ commands \in 0..MaxCommands /\ cut \subseteq Cards
      /\ user[u].pc = "store" => user[u].card \in Cards
      /\ AtRest \in Command /\ Sound(AtRest.seen) /\ ReadyInOrder(AtRest.seen)
      /\ AtRest.pc = "idle" /\ AtRest.task = "any"
  BY NothingIsACommand DEF BoardInv, BoardTypes
<1>1. user' \in [Users -> Command] /\ user'[u] = AtRest /\ \A v \in Users : v # u => user'[v] = user[v]
  BY <1>0 DEF Quits
<1>2. UNCHANGED <<board, note, commands, agents, overwritten, handmade>>
  BY DEF Quits
<1>3. /\ cut \subseteq cut' /\ cut' \subseteq Cards
      /\ user[u].pc = "store" /\ user[u].stamped => user[u].card \in cut'
  BY <1>0 DEF Quits
<1>4. Once(AtRest.seen)
  BY <1>0 DEF Sound
<1> QED BY <1>0, <1>1, <1>2, <1>3, <1>4, QuietStep

-----------------------------------------------------------------------------
(* The project board: decisions.                                           *)

LEMMA OvertakenOthers ==
  ASSUME user \in [Users -> Command], NEW u \in Users
  PROVE  /\ Overtaken(u) \in [Users -> Command] /\ Overtaken(u)[u] = user[u]
         /\ \A v \in Users : v # u =>
              /\ Overtaken(u)[v].old \/ Overtaken(u)[v] = AtRest
              /\ \/ Overtaken(u)[v] = user[v]
                 \/ Overtaken(u)[v] = [user[v] EXCEPT !.old = TRUE]
<1>1. \A v \in Users : user[v] \in Command /\ [user[v] EXCEPT !.old = TRUE] \in Command
                       /\ [user[v] EXCEPT !.old = TRUE].old = TRUE
  BY DEF Command
<1>2. \A v \in Users :
        Overtaken(u)[v] = IF v = u \/ user[v] = AtRest THEN user[v] ELSE [user[v] EXCEPT !.old = TRUE]
  BY DEF Overtaken
<1>3. Overtaken(u) \in [Users -> Command]
  BY <1>1 DEF Overtaken
<1> QED BY <1>1, <1>2, <1>3

\* What remains of a command that was overtaken.
LEMMA OvertakenFields ==
  ASSUME NEW r \in Command
  PROVE  LET o == [r EXCEPT !.old = TRUE] IN
         /\ o.pc = r.pc /\ o.task = r.task /\ o.queue = r.queue /\ o.force = r.force /\ o.card = r.card
         /\ o.stamped = r.stamped /\ o.seen = r.seen /\ o.notes = r.notes
BY DEF Command

\* A command decides on a board that differs in one card, and stamps the note
\* of that card if its outcome is not the same any more.
LEMMA DecidesKeeps ==
  ASSUME BoardInv, NEW u \in Users, NEW c \in Cards, NEW b, NEW stamp \in Stamp,
         user[u].pc = "read", Decides(u, c, b, stamp), Sound(b),
         \A d \in Cards : d # c => (d \in b.archive <=> d \in Seen(u).archive),
         c \in b.archive => stamp \in Terminal,
         c \notin b.archive /\ stamp # note[c] => stamp \notin Terminal,
         c \notin b.archive /\ c \in Seen(u).archive /\ OnBoard(b, c) /\ ~user[u].old => stamp # note[c],
         handmade' \in BOOLEAN, handmade => handmade',
         ~handmade' /\ ReadyInOrder(Seen(u)) => ReadyInOrder(b),
         user[u].task # "any" => user[u].queue # <<>>,
         user[u].task = "claim" /\ ~user[u].force /\ ~user[u].old => c = Head(user[u].queue)
  PROVE  BoardInv'
<1>0. /\ user \in [Users -> Command] /\ note \in [Cards -> Stamp] /\ b \in Boards /\ Once(b)
      /\ board \in Boards /\ Once(board)
      /\ AtRest \in Command /\ AtRest.pc = "idle" /\ AtRest.task = "any" /\ AtRest.notes \in [Cards -> Stamp]
  BY NothingIsACommand DEF BoardInv, BoardTypes, Sound
<1> DEFINE X == IF note' # note THEN Overtaken(u) ELSE user
           s == (note' # note)
           r == [X[u] EXCEPT !.pc = "store", !.seen = b, !.card = c, !.notes = AtRest.notes, !.stamped = s]
<1>1. /\ note' = [note EXCEPT ![c] = stamp] /\ note' \in [Cards -> Stamp]
      /\ UNCHANGED <<board, commands, agents, overwritten, cut>>
  BY <1>0 DEF Decides
<1>2. s \in BOOLEAN /\ (s <=> stamp # note[c])
  BY <1>0, <1>1
<1>3. /\ X \in [Users -> Command] /\ X[u] = user[u]
      /\ \A v \in Users : v # u => X[v] = user[v] \/ X[v] = [user[v] EXCEPT !.old = TRUE]
      /\ s => \A v \in Users : v # u => X[v].old \/ X[v] = AtRest
  BY <1>0, OvertakenOthers
<1>4. user' = [X EXCEPT ![u].pc = "store", ![u].seen = b, ![u].card = c,
                        ![u].notes = AtRest.notes, ![u].stamped = s]
  BY DEF Decides
<1> HIDE DEF X, s
<1>5. user' = [X EXCEPT ![u] = r]
  BY <1>3, <1>4
<1>6. r \in Command
  BY <1>0, <1>2, <1>3 DEF Command
<1>7. /\ r.pc = "store" /\ r.seen = b /\ r.card = c /\ r.stamped = s
      /\ r.task = user[u].task /\ r.queue = user[u].queue /\ r.old = user[u].old /\ r.force = user[u].force
  BY <1>0, <1>3 DEF Command
<1> HIDE DEF r
<1>8. /\ user' \in [Users -> Command] /\ user'[u] = r
      /\ \A v \in Users : v # u => user'[v] = X[v]
  BY <1>3, <1>5, <1>6
<1>9. ASSUME NEW v \in Users, v # u
      PROVE  /\ user'[v].pc = user[v].pc /\ user'[v].task = user[v].task /\ user'[v].queue = user[v].queue
             /\ user'[v].force = user[v].force /\ user'[v].card = user[v].card
             /\ user'[v].stamped = user[v].stamped /\ user'[v].seen = user[v].seen
             /\ user'[v].notes = user[v].notes
             /\ user[v].old => user'[v].old
  <2>1. user[v] \in Command
    BY <1>0
  <2>2. CASE user'[v] = user[v]
    BY <2>2
  <2>3. CASE user'[v] = [user[v] EXCEPT !.old = TRUE]
    <3>1. user'[v].old
      BY <2>1, <2>3 DEF Command
    <3> QED BY <2>1, <2>3, <3>1, OvertakenFields
  <2> QED BY <1>3, <1>8, <1>9, <2>2, <2>3
<1>10. \A v \in Users : v # u /\ ~user'[v].old /\ user'[v].pc # "idle" => note' = note
  BY <1>0, <1>3, <1>8 DEF s
<1>11. BoardTypes'
  <2>1. \A v \in Users : Once(user'[v].seen)
    BY <1>0, <1>7, <1>8, <1>9 DEF BoardInv, BoardTypes, Seen
  <2>2. \A v \in Users : user'[v].pc = "store" => user'[v].card \in Cards
    BY <1>7, <1>8, <1>9 DEF BoardInv, BoardTypes
  <2>3. \A v \in Users :
          /\ user'[v].task = "claim" => user'[v].queue # <<>>
          /\ user'[v].task = "batch" /\ user'[v].pc = "store" => user'[v].queue # <<>>
    BY <1>7, <1>8, <1>9 DEF BoardInv, BoardTypes
  <2>4. (Sound(board) /\ commands \in 0..MaxCommands /\ agents \in [Cards -> 0..2]
           /\ overwritten \in BOOLEAN /\ cut \subseteq Cards)'
    BY <1>1 DEF BoardInv, BoardTypes, Sound
  <2> QED BY <1>1, <1>8, <2>1, <2>2, <2>3, <2>4 DEF BoardTypes, Seen
<1>12. ReadsHold'
  <2> SUFFICES ASSUME NEW v \in Users, ~user'[v].old, user'[v].pc \in {"load", "read"}
               PROVE  /\ user'[v].seen = board'
                      /\ user'[v].pc = "read" =>
                           \A d \in Cards : \/ user'[v].notes[d] = note'[d]
                                            \/ user'[v].notes[d] = "missing" /\ note'[d] = "none"
    BY DEF ReadsHold, Seen
  <2>1. v # u
    BY <1>7, <1>8
  <2>2. note' = note
    BY <1>10, <2>1
  <2> QED BY <1>1, <1>9, <2>1, <2>2 DEF BoardInv, ReadsHold, Seen
<1>13. Changing'
  <2> SUFFICES ASSUME NEW v \in Users, user'[v].pc = "store", ~user'[v].old
               PROVE  ChangesOneCard(v)'
    BY DEF Changing
  <2>1. CASE v = u
    <3>1. Seen(u) = board
      BY <1>7, <1>8, <2>1 DEF BoardInv, ReadsHold
    <3>2. note'[c] = stamp
      BY <1>0, <1>1
    <3> QED BY <1>1, <1>2, <1>7, <1>8, <2>1, <3>1, <3>2 DEF ChangesOneCard, Seen
  <2>2. CASE v # u
    <3>1. note' = note
      BY <1>10, <2>2
    <3>2. ChangesOneCard(v)
      BY <1>9, <2>2 DEF BoardInv, Changing
    <3> QED BY <1>1, <1>9, <2>2, <3>1, <3>2 DEF ChangesOneCard, Seen
  <2> QED BY <2>1, <2>2
<1>14. Agreement'
  <2> SUFFICES ASSUME ~overwritten, NEW d \in Cards
               PROVE  (d \in board.archive <=> note'[d] \in Terminal) \/ d \in cut \/ Stamping(d)'
    BY <1>1 DEF Agreement
  <2>1. CASE d = c /\ s
    <3>1. Stamping(d)'
      BY <1>7, <1>8, <2>1 DEF Stamping
    <3> QED BY <3>1
  <2>2. CASE ~ (d = c /\ s)
    <3>1. note'[d] = note[d]
      BY <1>0, <1>1, <1>2, <2>2
    <3>2. Stamping(d) => Stamping(d)'
      BY <1>9 DEF Stamping
    <3> QED BY <3>1, <3>2 DEF BoardInv, Agreement
  <2> QED BY <2>1, <2>2
<1>15. InOrder'
  <2> SUFFICES ASSUME ~handmade'
               PROVE  ReadyInOrder(board) /\ \A v \in Users : ReadyInOrder(user'[v].seen)
    BY <1>1 DEF InOrder, Seen
  <2>1. ReadyInOrder(board) /\ \A v \in Users : ReadyInOrder(Seen(v))
    BY DEF BoardInv, InOrder
  <2> QED BY <1>7, <1>8, <1>9, <2>1 DEF Seen
<1>16. Grabbing'
  <2>1. \A v \in Users : user'[v].task = "claim" /\ ~user'[v].force /\ ~user'[v].old =>
          /\ agents[Head(user'[v].queue)] = 0
          /\ user'[v].pc = "store" => user'[v].card = Head(user'[v].queue)
    BY <1>7, <1>8, <1>9 DEF BoardInv, Grabbing
  <2> QED BY <1>1, <2>1 DEF BoardInv, Grabbing
<1> QED BY <1>11, <1>12, <1>13, <1>14, <1>15, <1>16 DEF BoardInv

\* What a command has read is a board that a command can have left.
LEMMA SeenIsSound ==
  ASSUME BoardInv, NEW u \in Users
  PROVE  /\ Sound(Seen(u)) /\ user[u].notes \in [Cards -> Stamp] /\ note \in [Cards -> Stamp]
         /\ user[u].queue \in Seq(Cards) /\ handmade \in BOOLEAN
         /\ ~user[u].old /\ user[u].pc = "read" =>
              \A c \in Cards : \/ user[u].notes[c] = note[c]
                               \/ user[u].notes[c] = "missing" /\ note[c] = "none"
BY DEF BoardInv, BoardTypes, ReadsHold, Seen, Sound, Command

LEMMA AppliesKeeps ==
  ASSUME BoardInv, NEW u \in Users, NEW c \in Cards, NEW to \in Status, NEW force \in BOOLEAN,
         user[u].pc = "read", Applies(u, c, to, force),
         user[u].task # "any" => user[u].queue # <<>>,
         user[u].task = "claim" => c = Head(user[u].queue)
  PROVE  BoardInv'
<1> DEFINE from == Standing(u, c)
           stamp == Outcome(from, to, c)
           b == MoveCard(Seen(u), c, to)
<1>1. OnBoard(Seen(u), c) /\ from \in Status /\ Decides(u, c, b, stamp) /\ handmade' = handmade
  BY DEF Applies
<1>2. /\ Sound(Seen(u)) /\ user[u].notes \in [Cards -> Stamp] /\ note \in [Cards -> Stamp]
      /\ handmade \in BOOLEAN
      /\ ~user[u].old => \/ user[u].notes[c] = note[c]
                         \/ user[u].notes[c] = "missing" /\ note[c] = "none"
  BY SeenIsSound
<1>3. /\ Sound(b) /\ OnBoard(b, c)
      /\ b.archive = IF to \in Terminal THEN Seen(u).archive \cup {c} ELSE Seen(u).archive \ {c}
      /\ ReadyInOrder(Seen(u)) => ReadyInOrder(b)
  BY <1>2, MovedCard
<1>4. Seen(u).archive \subseteq Cards
  BY <1>2 DEF Sound, Boards
<1>5. Terminal \subseteq Stamp /\ "none" \in Stamp /\ "none" \notin Terminal /\ "missing" \notin Status
      /\ "none" \notin Status
  BY DEF Terminal, Stamp, Status, Lanes
<1>6. stamp = IF to \in Terminal THEN to ELSE IF from \in Terminal THEN "none" ELSE note[c]
  BY DEF Outcome
<1>7. stamp \in Stamp
  BY <1>2, <1>5, <1>6
<1>8. \A d \in Cards : d # c => (d \in b.archive <=> d \in Seen(u).archive)
  BY <1>3
<1>9. c \in b.archive => stamp \in Terminal
  BY <1>3, <1>6
<1>10. c \notin b.archive /\ stamp # note[c] => stamp \notin Terminal
  BY <1>3, <1>5, <1>6
<1>11. ASSUME c \notin b.archive, c \in Seen(u).archive, ~user[u].old PROVE stamp # note[c]
  <2>1. ~InLane(Seen(u), c)
    <3>1. Seen(u) \in Boards /\ \A l \in Lanes : ToSet(Seen(u).lanes[l]) \cap Seen(u).archive = {}
      BY <1>2 DEF Sound, Once
    <3> QED BY <1>11, <3>1, Absent
  <2>2. from = user[u].notes[c]
    BY <2>1 DEF Standing, StatusOf
  <2>3. from = note[c]
    BY <1>1, <1>2, <1>5, <1>11, <2>2
  <2>4. from \in Terminal
    BY <1>1, <1>2, <2>3 DEF Stamp, Status, Terminal, Lanes
  <2>5. to \notin Terminal
    BY <1>3, <1>11
  <2> QED BY <1>5, <1>6, <2>3, <2>4, <2>5
<1> HIDE DEF from, stamp, b
<1> QED BY <1>1, <1>2, <1>3, <1>7, <1>8, <1>9, <1>10, <1>11, DecidesKeeps

LEMMA SetsStatusKeeps ==
  ASSUME BoardInv, NEW u \in Users, NEW c \in Cards, NEW to \in Status, NEW force \in BOOLEAN,
         SetsStatus(u, c, to, force)
  PROVE  BoardInv'
BY AppliesKeeps DEF SetsStatus, Reading

LEMMA AcceptsNextKeeps ==
  ASSUME BoardInv, NEW u \in Users, AcceptsNext(u) PROVE BoardInv'
<1>1. user[u].queue \in Seq(Cards) /\ user[u].queue # <<>>
  BY SeenIsSound DEF AcceptsNext
<1>2. Head(user[u].queue) \in Cards
  BY <1>1
<1>3. "accepted" \in Status
  BY DEF Status, Terminal
<1> QED BY <1>2, <1>3, AppliesKeeps DEF AcceptsNext, Reading

LEMMA ClaimsKeeps ==
  ASSUME BoardInv, NEW u \in Users, Claims(u) PROVE BoardInv'
<1>1. user[u].queue \in Seq(Cards) /\ user[u].queue # <<>> /\ user[u].force \in BOOLEAN
  BY SeenIsSound DEF Claims, BoardInv, BoardTypes, Command
<1>2. Head(user[u].queue) \in Cards
  BY <1>1
<1>3. "in-progress" \in Status
  BY DEF Status, Lanes
<1> QED BY <1>1, <1>2, <1>3, AppliesKeeps DEF Claims, Reading

LEMMA ShelvesKeeps ==
  ASSUME BoardInv, NEW u \in Users, NEW c \in Cards, NEW force \in BOOLEAN, Shelves(u, c, force)
  PROVE  BoardInv'
<1> DEFINE b == RemoveCard(Seen(u), c)
<1>1. /\ user[u].pc = "read" /\ user[u].task = "any"
      /\ Decides(u, c, b, note[c]) /\ handmade' = handmade
  BY DEF Shelves, Reading
<1>2. Sound(Seen(u)) /\ note[c] \in Stamp /\ handmade \in BOOLEAN
  BY SeenIsSound
<1>3. /\ Sound(b) /\ ~OnBoard(b, c) /\ b.archive = Seen(u).archive \ {c}
      /\ ReadyInOrder(Seen(u)) => ReadyInOrder(b)
  BY <1>2, RemovedCard
<1> HIDE DEF b
<1> QED BY <1>1, <1>2, <1>3, DecidesKeeps

LEMMA PromotesKeeps ==
  ASSUME BoardInv, NEW u \in Users, NEW c \in Cards, NEW to \in Lanes, NEW force \in BOOLEAN,
         Promotes(u, c, to, force)
  PROVE  BoardInv'
<1> DEFINE b == InsertCard(Seen(u), to, c, 1)
<1>1. /\ user[u].pc = "read" /\ user[u].task = "any" /\ ~OnBoard(Seen(u), c)
      /\ Decides(u, c, b, note[c]) /\ handmade' = (handmade \/ to = "ready")
  BY DEF Promotes, Iced, Reading
<1>2. Sound(Seen(u)) /\ note[c] \in Stamp /\ handmade \in BOOLEAN
  BY SeenIsSound
<1>3. 1 \in 1..Len(Seen(u).lanes[to]) + 1
  BY <1>2, LanesHold DEF Sound
<1>4. /\ Sound(b) /\ b.archive = Seen(u).archive
      /\ ReadyInOrder(Seen(u)) /\ to # "ready" => ReadyInOrder(b)
  BY <1>1, <1>2, <1>3, InsertedCard
<1>5. c \notin Seen(u).archive
  BY <1>1 DEF OnBoard
<1> HIDE DEF b
<1> QED BY <1>1, <1>2, <1>4, <1>5, DecidesKeeps

LEMMA CancelsIcedKeeps ==
  ASSUME BoardInv, NEW u \in Users, NEW c \in Cards, CancelsIced(u, c) PROVE BoardInv'
<1> DEFINE b == Archive(Seen(u), c)
<1>1. /\ user[u].pc = "read" /\ user[u].task = "any" /\ ~OnBoard(Seen(u), c)
      /\ Decides(u, c, b, "cancelled") /\ handmade' = handmade
  BY DEF CancelsIced, Iced, Reading
<1>2. Sound(Seen(u)) /\ handmade \in BOOLEAN /\ "cancelled" \in Stamp /\ "cancelled" \in Terminal
  BY SeenIsSound DEF Stamp, Terminal
<1>3. /\ Sound(b) /\ b.archive = Seen(u).archive \cup {c}
      /\ ReadyInOrder(Seen(u)) => ReadyInOrder(b)
  BY <1>1, <1>2, ArchivedCard
<1> HIDE DEF b
<1> QED BY <1>1, <1>2, <1>3, DecidesKeeps

LEMMA PrioritizesKeeps ==
  ASSUME BoardInv, NEW u \in Users, NEW c \in Cards, Prioritizes(u, c) PROVE BoardInv'
<1> DEFINE l == Standing(u, c)
           r == RemoveCard(Seen(u), c)
<1>1. /\ user[u].pc = "read" /\ user[u].task = "any" /\ InLane(Seen(u), c) /\ handmade' = TRUE
  BY DEF Prioritizes, Reading
<1>2. PICK i \in 1..Len(Seen(u).lanes[l]) : Decides(u, c, InsertCard(r, l, c, i), note[c])
  BY DEF Prioritizes
<1>3. Sound(Seen(u)) /\ note[c] \in Stamp
  BY SeenIsSound
<1>4. l \in Lanes /\ Contains(Seen(u).lanes[l], c)
  BY <1>1 DEF Standing, StatusOf, InLane
<1>5. c \notin Seen(u).archive
  <2>1. Seen(u) \in Boards /\ ToSet(Seen(u).lanes[l]) \cap Seen(u).archive = {}
    BY <1>3, <1>4 DEF Sound, Once
  <2> QED BY <1>4, <2>1, LanesHold
<1>6. /\ Sound(r) /\ ~OnBoard(r, c) /\ r.archive = Seen(u).archive \ {c}
      /\ Len(r.lanes[l]) = Len(Seen(u).lanes[l]) - 1
  BY <1>3, <1>4, RemovedCard
<1>7. Len(Seen(u).lanes[l]) \in Nat
  BY <1>3, <1>4, LanesHold DEF Sound
<1> HIDE DEF r, l
<1>8. i \in 1..Len(r.lanes[l]) + 1
  BY <1>6, <1>7
<1> DEFINE b == InsertCard(r, l, c, i)
<1>9. Sound(b) /\ b.archive = r.archive
  BY <1>4, <1>6, <1>8, InsertedCard
<1>10. Decides(u, c, b, note[c])
  BY <1>2
<1> HIDE DEF b
<1> QED BY <1>1, <1>3, <1>5, <1>6, <1>9, <1>10, DecidesKeeps

LEMMA FilesKeeps ==
  ASSUME BoardInv, NEW u \in Users, NEW c \in Cards, NEW iced \in BOOLEAN, Files(u, c, iced)
  PROVE  BoardInv'
<1>0. /\ user[u].pc = "read" /\ user[u].task = "any" /\ ~OnBoard(Seen(u), c) /\ handmade' = handmade
      /\ note[c] = "missing"
  BY DEF Files, Reading, Filed
<1>1. Sound(Seen(u)) /\ note \in [Cards -> Stamp] /\ handmade \in BOOLEAN
      /\ "none" \in Stamp /\ "none" \notin Terminal /\ "missing" \notin Terminal
  BY SeenIsSound DEF Stamp, Terminal
<1>2. CASE ~iced
  <2>1. PICK i \in {1, Len(Seen(u).lanes["todo"]) + 1} :
          Decides(u, c, InsertCard(Seen(u), "todo", c, i), "none")
    BY <1>2 DEF Files
  <2>2. "todo" \in Lanes
    BY DEF Lanes
  <2>3. i \in 1..Len(Seen(u).lanes["todo"]) + 1
    BY <1>1, <2>2, LanesHold DEF Sound
  <2> DEFINE b == InsertCard(Seen(u), "todo", c, i)
  <2>4. /\ Sound(b) /\ b.archive = Seen(u).archive
        /\ ReadyInOrder(Seen(u)) => ReadyInOrder(b)
    BY <1>0, <1>1, <2>2, <2>3, InsertedCard
  <2>5. Decides(u, c, b, "none")
    BY <2>1
  <2>6. c \notin Seen(u).archive
    BY <1>0 DEF OnBoard
  <2> HIDE DEF b
  <2> QED BY <1>0, <1>1, <2>4, <2>5, <2>6, DecidesKeeps
<1>3. CASE iced
  <2>0. /\ user \in [Users -> Command] /\ AtRest \in Command /\ Sound(AtRest.seen)
        /\ ReadyInOrder(AtRest.seen) /\ AtRest.pc = "idle" /\ AtRest.task = "any"
    BY NothingIsACommand DEF BoardInv, BoardTypes
  <2>1. /\ note' = [note EXCEPT ![c] = "none"] /\ user' = [user EXCEPT ![u] = AtRest]
        /\ UNCHANGED <<board, commands, agents, overwritten, cut, handmade>>
    BY <1>3 DEF Files
  <2>2. /\ note' \in [Cards -> Stamp] /\ note'[c] = "none"
        /\ \A d \in Cards : d # c => note'[d] = note[d]
    BY <1>1, <2>1
  <2>3. /\ user' \in [Users -> Command] /\ user'[u] = AtRest
        /\ \A v \in Users : v # u => user'[v] = user[v]
    BY <2>0, <2>1
  <2>4. \A d \in Cards : note'[d] \in Terminal <=> note[d] \in Terminal
    BY <1>0, <1>1, <2>2
  <2>5. BoardTypes'
    BY <2>0, <2>1, <2>2, <2>3 DEF BoardInv, BoardTypes, Seen, Sound
  <2>6. ReadsHold'
    BY <1>0, <1>1, <2>0, <2>1, <2>2, <2>3 DEF BoardInv, ReadsHold, Seen
  <2>7. Changing'
    <3> SUFFICES ASSUME NEW v \in Users, user'[v].pc = "store", ~user'[v].old
                 PROVE  ChangesOneCard(v)'
      BY DEF Changing
    <3>1. user'[v] = user[v] /\ ChangesOneCard(v)
      BY <2>0, <2>3 DEF BoardInv, Changing
    <3>2. user[v].card \in Cards
      BY <3>1 DEF BoardInv, BoardTypes
    <3> QED BY <2>1, <2>4, <3>1, <3>2 DEF ChangesOneCard, Seen
  <2>8. Agreement'
    <3>1. \A d \in Cards : Stamping(d) => Stamping(d)'
      BY <1>0, <2>3 DEF Stamping
    <3> QED BY <2>1, <2>4, <3>1 DEF BoardInv, Agreement
  <2>9. InOrder'
    BY <2>0, <2>1, <2>3 DEF BoardInv, InOrder, Seen
  <2>10. Grabbing'
    BY <2>0, <2>1, <2>3 DEF BoardInv, Grabbing
  <2> QED BY <2>5, <2>6, <2>7, <2>8, <2>9, <2>10 DEF BoardInv
<1> QED BY <1>2, <1>3

-----------------------------------------------------------------------------
(* The project board: the board is written.                                *)

LEMMA StoresKeeps ==
  ASSUME BoardInv, NEW u \in Users, Stores(u) PROVE BoardInv'
<1> DEFINE b == Seen(u)
           c == user[u].card
           r == IF user[u].task = "batch"
                  THEN [AtRest EXCEPT !.task = "batch", !.queue = Tail(user[u].queue)] ELSE AtRest
<1>0. /\ user \in [Users -> Command] /\ user[u].pc = "store" /\ c \in Cards
      /\ Sound(b) /\ Sound(board) /\ note \in [Cards -> Stamp] /\ agents \in [Cards -> 0..2]
      /\ cut \subseteq Cards /\ overwritten \in BOOLEAN /\ user[u].old \in BOOLEAN
      /\ AtRest \in Command /\ Sound(AtRest.seen) /\ ReadyInOrder(AtRest.seen)
      /\ AtRest.pc = "idle" /\ AtRest.task = "any" /\ AtRest.old = FALSE
  BY NothingIsACommand, SeenIsSound DEF BoardInv, BoardTypes, Stores, Command
<1>1. /\ board' = b /\ overwritten' = (overwritten \/ user[u].old) /\ cut' = Mended(u)
      /\ UNCHANGED <<note, commands, handmade>>
  BY DEF Stores
<1>2. agents' = [d \in Cards |->
                  IF Contains(b.lanes["todo"], d) \/ ~OnBoard(b, d) THEN 0 ELSE
                  IF Launched(u, d) /\ agents[d] < 2 THEN agents[d] + 1 ELSE agents[d]]
  BY DEF Stores
<1>3. user' = [Overtaken(u) EXCEPT ![u] = r]
  BY DEF Stores
<1>4. /\ Overtaken(u) \in [Users -> Command]
      /\ \A v \in Users : v # u =>
              /\ Overtaken(u)[v].old \/ Overtaken(u)[v] = AtRest
              /\ \/ Overtaken(u)[v] = user[v]
                 \/ Overtaken(u)[v] = [user[v] EXCEPT !.old = TRUE]
  BY <1>0, OvertakenOthers
<1>5. /\ r \in Command /\ r.pc = "idle" /\ r.seen = AtRest.seen /\ r.task \in {"any", "batch"}
  <2>1. CASE user[u].task = "batch"
    <3>1. user[u].queue \in Seq(Cards) /\ user[u].queue # <<>>
      BY <1>0, <2>1 DEF Command, BoardInv, BoardTypes
    <3>2. Tail(user[u].queue) \in Seq(Cards)
      BY <3>1
    <3> QED BY <1>0, <2>1, <3>2 DEF Command
  <2>2. CASE user[u].task # "batch"
    BY <1>0, <2>2
  <2> QED BY <2>1, <2>2
<1> HIDE DEF r
<1>6. /\ user' \in [Users -> Command] /\ user'[u] = r
      /\ \A v \in Users : v # u => user'[v] = Overtaken(u)[v]
  BY <1>3, <1>4, <1>5
<1>7. ASSUME NEW v \in Users, v # u
      PROVE  /\ user'[v].pc = user[v].pc /\ user'[v].task = user[v].task /\ user'[v].queue = user[v].queue
             /\ user'[v].card = user[v].card /\ user'[v].stamped = user[v].stamped
             /\ user'[v].seen = user[v].seen
             /\ user'[v].old \/ user'[v] = AtRest
  <2>1. user[v] \in Command
    BY <1>0
  <2>2. CASE user'[v] = user[v]
    BY <1>4, <1>6, <1>7, <2>2
  <2>3. CASE user'[v] = [user[v] EXCEPT !.old = TRUE]
    BY <1>4, <1>6, <1>7, <2>1, <2>3, OvertakenFields
  <2> QED BY <1>4, <1>6, <1>7, <2>2, <2>3
\* Nobody has read what there is now.
<1>8. \A v \in Users : ~user'[v].old => user'[v].pc = "idle" /\ user'[v].task \in {"any", "batch"}
  BY <1>0, <1>5, <1>6, <1>7
<1>9. BoardTypes'
  <2>1. \A v \in Users : Once(user'[v].seen)
    BY <1>0, <1>5, <1>6, <1>7 DEF BoardInv, BoardTypes, Seen, Sound
  <2>2. \A v \in Users : user'[v].pc = "store" => user'[v].card \in Cards
    BY <1>5, <1>6, <1>7 DEF BoardInv, BoardTypes
  <2>3. \A v \in Users :
          /\ user'[v].task = "claim" => user'[v].queue # <<>>
          /\ user'[v].task = "batch" /\ user'[v].pc = "store" => user'[v].queue # <<>>
    BY <1>5, <1>6, <1>7 DEF BoardInv, BoardTypes
  <2>4. agents' \in [Cards -> 0..2]
    <3>1. \A d \in Cards : (IF Contains(b.lanes["todo"], d) \/ ~OnBoard(b, d) THEN 0 ELSE
                  IF Launched(u, d) /\ agents[d] < 2 THEN agents[d] + 1 ELSE agents[d]) \in 0..2
      BY <1>0
    <3> QED BY <1>2, <3>1
  <2>5. cut' \subseteq Cards
    BY <1>0, <1>1 DEF Mended
  <2>6. commands' \in 0..MaxCommands /\ handmade' \in BOOLEAN
    BY <1>1 DEF BoardInv, BoardTypes
  <2> QED BY <1>0, <1>1, <1>6, <2>1, <2>2, <2>3, <2>4, <2>5, <2>6 DEF BoardTypes, Seen, Sound
<1>10. ReadsHold'
  BY <1>8 DEF ReadsHold
<1>11. Changing'
  BY <1>8 DEF Changing
<1>12. Agreement'
  <2> SUFFICES ASSUME ~overwritten, ~user[u].old, NEW d \in Cards, ~Stamping(d)', d \notin cut'
               PROVE  d \in b.archive <=> note[d] \in Terminal
    BY <1>0, <1>1 DEF Agreement
  <2>1. ChangesOneCard(u)
    BY <1>0 DEF BoardInv, Changing
  <2>2. (d \in board.archive <=> note[d] \in Terminal) \/ d \in cut \/ Stamping(d)
    BY DEF BoardInv, Agreement
  <2>3. ASSUME Stamping(d) PROVE d = c /\ user[u].stamped
    <3>1. PICK v \in Users : user[v].pc = "store" /\ user[v].stamped /\ user[v].card = d
      BY <2>3 DEF Stamping
    <3>2. v = u
      BY <1>7, <3>1 DEF Stamping
    <3> QED BY <3>1, <3>2
  <2>4. CASE d # c
    <3>1. d \in b.archive <=> d \in board.archive
      BY <2>1, <2>4 DEF ChangesOneCard
    <3>2. d \notin cut
      BY <1>1, <2>4 DEF Mended
    <3> QED BY <2>2, <2>3, <2>4, <3>1, <3>2
  <2>5. CASE d = c
    <3>1. CASE c \in b.archive
      BY <2>1, <2>5, <3>1 DEF ChangesOneCard
    <3>2. CASE c \notin b.archive /\ user[u].stamped
      BY <2>1, <2>5, <3>2 DEF ChangesOneCard
    <3>3. CASE c \notin b.archive /\ ~user[u].stamped
      <4>1. c \in board.archive => ~OnBoard(b, c)
        BY <2>1, <3>3 DEF ChangesOneCard
      <4>2. c \notin board.archive /\ c \notin cut
        BY <1>1, <2>5, <3>3, <4>1 DEF Mended
      <4> QED BY <2>2, <2>3, <2>5, <3>3, <4>2
    <3> QED BY <3>1, <3>2, <3>3
  <2> QED BY <2>4, <2>5
<1>13. InOrder'
  BY <1>0, <1>1, <1>5, <1>6, <1>7 DEF BoardInv, InOrder, Seen
<1>14. Grabbing'
  <2>1. \A d \in Cards : Contains(b.lanes["todo"], d) => agents'[d] = 0
    BY <1>2
  <2>2. ASSUME ~overwritten, ~user[u].old, NEW d \in Cards PROVE agents'[d] <= 1
    <3>1. agents[d] \in 0..2 /\ agents[d] <= 1
      BY <1>0, <2>2 DEF BoardInv, Grabbing
    <3>2. Launched(u, d) => agents[d] = 0
      BY <1>0, <2>2 DEF BoardInv, Grabbing, Launched
    <3>3. agents'[d] \in {0, agents[d]} \/ (Launched(u, d) /\ agents'[d] = agents[d] + 1)
      BY <1>2
    <3> QED BY <3>1, <3>2, <3>3
  <2> QED BY <1>0, <1>1, <1>8, <2>1, <2>2 DEF Grabbing
<1> QED BY <1>9, <1>10, <1>11, <1>12, <1>13, <1>14 DEF BoardInv

-----------------------------------------------------------------------------
(* The project board: the theorems.                                        *)

LEMMA BoardInitially == BoardInit => BoardInv
<1> SUFFICES ASSUME BoardInit PROVE BoardInv
  OBVIOUS
<1> DEFINE On(place, l) == {c \in Cards : place[c] = l}
<1>0. PICK place \in [Cards -> Status \cup {"iced", "missing"}] :
        /\ note = [c \in Cards |-> IF place[c] \in Terminal \cup {"missing"} THEN place[c] ELSE "none"]
        /\ \E lanes \in [Lanes -> UNION {SetToSeqs(On(place, l)) : l \in Lanes}] :
             /\ \A l \in Lanes : lanes[l] \in SetToSeqs(On(place, l))
             /\ board = [lanes |-> lanes, archive |-> {c \in Cards : place[c] \in Terminal}]
  BY DEF BoardInit
<1>1. PICK lanes \in [Lanes -> UNION {SetToSeqs(On(place, l)) : l \in Lanes}] :
        /\ \A l \in Lanes : lanes[l] \in SetToSeqs(On(place, l))
        /\ board = [lanes |-> lanes, archive |-> {c \in Cards : place[c] \in Terminal}]
  BY <1>0
<1>2. \A l \in Lanes :
        /\ lanes[l] \in Seq(Cards) /\ IsInjective(lanes[l])
        /\ \A c \in ToSet(lanes[l]) : place[c] = l
  <2> TAKE l \in Lanes
  <2> DEFINE S == On(place, l)
             n == Cardinality(S)
  <2>1. n \in Nat
    <3>1. IsFiniteSet(S)
      BY FS_Subset, BoardAssumption
    <3> QED BY <3>1, FS_CardinalityType
  <2>2. lanes[l] \in [1..n -> S] /\ \A i, j \in 1..n : i # j => lanes[l][i] # lanes[l][j]
    BY <1>1 DEF SetToSeqs
  <2>3. lanes[l] \in [1..n -> Cards] /\ \A i \in 1..n : place[lanes[l][i]] = l
    BY <2>2
  <2> HIDE DEF n, S
  <2>4. lanes[l] \in Seq(Cards)
    BY <2>1, <2>3
  <2> QED BY <2>2, <2>3, <2>4 DEF IsInjective, ToSet
<1>3. board.lanes = lanes /\ board.archive = {c \in Cards : place[c] \in Terminal}
  BY <1>1
<1>4. Lanes \cap Terminal = {}
  BY DEF Lanes, Terminal
<1>5. board \in Boards
  BY <1>1, <1>2 DEF Boards
<1>6. Once(board)
  BY <1>2, <1>3, <1>4 DEF Once
<1>7. /\ user = [u \in Users |-> AtRest] /\ commands = 0 /\ agents = [c \in Cards |-> 0]
      /\ overwritten = FALSE /\ cut = {} /\ handmade = FALSE
      /\ InDependencyOrder(board.lanes["ready"])
  BY DEF BoardInit
<1>8. /\ AtRest \in Command /\ Sound(AtRest.seen) /\ ReadyInOrder(AtRest.seen)
      /\ AtRest.pc = "idle" /\ AtRest.task = "any"
  BY NothingIsACommand
<1>9. note \in [Cards -> Stamp] /\ \A c \in Cards : note[c] \in Terminal <=> place[c] \in Terminal
  BY <1>0 DEF Stamp, Terminal
<1>10. \A u \in Users : user[u] = AtRest
  BY <1>7
<1>11. BoardTypes
  <2>1. user \in [Users -> Command]
    BY <1>7, <1>8
  <2>2. commands \in 0..MaxCommands
    BY <1>7, BoardAssumption
  <2>3. agents \in [Cards -> 0..2]
    BY <1>7
  <2>4. overwritten \in BOOLEAN /\ cut \subseteq Cards /\ handmade \in BOOLEAN
    BY <1>7
  <2>5. \A u \in Users : Once(Seen(u)) /\ user[u].pc = "idle" /\ user[u].task = "any"
    BY <1>8, <1>10 DEF Seen, Sound
  <2> QED BY <1>5, <1>6, <1>9, <2>1, <2>2, <2>3, <2>4, <2>5 DEF BoardTypes, Sound
<1>12. ReadsHold /\ Changing
  BY <1>8, <1>10 DEF ReadsHold, Changing
<1>13. Agreement
  BY <1>3, <1>9 DEF Agreement
<1>14. InOrder
  BY <1>7, <1>8, <1>10 DEF InOrder, ReadyInOrder, Seen
<1>15. Grabbing
  BY <1>7, <1>8, <1>10 DEF Grabbing
<1> QED BY <1>11, <1>12, <1>13, <1>14, <1>15 DEF BoardInv

LEMMA BoardStep == BoardInv /\ [BoardNext]_boardVars => BoardInv'
<1> SUFFICES ASSUME BoardInv, [BoardNext]_boardVars PROVE BoardInv'
  OBVIOUS
<1>1. CASE UNCHANGED boardVars
  BY <1>1 DEF boardVars, BoardInv, BoardTypes, ReadsHold, Changing, ChangesOneCard, Agreement,
              Stamping, InOrder, Grabbing, Seen, Sound, ReadyInOrder
<1>2. ASSUME NEW u \in Users, Starts(u) PROVE BoardInv'
  BY <1>2, StartsKeeps
<1>3. ASSUME NEW u \in Users, ReadsAgain(u) PROVE BoardInv'
  BY <1>3, ReadsAgainKeeps
<1>4. ASSUME NEW u \in Users, LoadsNotes(u) PROVE BoardInv'
  BY <1>4, LoadsNotesKeeps
<1>5. ASSUME NEW u \in Users, Stores(u) PROVE BoardInv'
  BY <1>5, StoresKeeps
<1>6. ASSUME NEW u \in Users, Quits(u) PROVE BoardInv'
  BY <1>6, QuitsKeeps
<1>7. ASSUME NEW u \in Users, AcceptsAll(u) PROVE BoardInv'
  BY <1>7, AcceptsAllKeeps
<1>8. ASSUME NEW u \in Users, AcceptsNext(u) PROVE BoardInv'
  BY <1>8, AcceptsNextKeeps
<1>9. ASSUME NEW u \in Users, Claims(u) PROVE BoardInv'
  BY <1>9, ClaimsKeeps
<1>10. ASSUME NEW u \in Users, NEW c \in Cards, CancelsIced(u, c) PROVE BoardInv'
  BY <1>10, CancelsIcedKeeps
<1>11. ASSUME NEW u \in Users, NEW c \in Cards, Prioritizes(u, c) PROVE BoardInv'
  BY <1>11, PrioritizesKeeps
<1>12. ASSUME NEW u \in Users, NEW c \in Cards, NEW iced \in BOOLEAN, Files(u, c, iced) PROVE BoardInv'
  BY <1>12, FilesKeeps
<1>13. ASSUME NEW u \in Users, NEW c \in Cards, NEW force \in BOOLEAN, Shelves(u, c, force)
       PROVE  BoardInv'
  BY <1>13, ShelvesKeeps
<1>14. ASSUME NEW u \in Users, NEW c \in Cards, NEW force \in BOOLEAN, Guards(u, c, force)
       PROVE  BoardInv'
  BY <1>14, GuardsKeeps
<1>15. ASSUME NEW u \in Users, NEW c \in Cards, NEW force \in BOOLEAN, NEW to \in Status,
              SetsStatus(u, c, to, force)
       PROVE  BoardInv'
  BY <1>15, SetsStatusKeeps
<1>16. ASSUME NEW u \in Users, NEW c \in Cards, NEW force \in BOOLEAN, NEW to \in Lanes,
              Promotes(u, c, to, force)
       PROVE  BoardInv'
  BY <1>16, PromotesKeeps
<1> QED BY <1>1, <1>2, <1>3, <1>4, <1>5, <1>6, <1>7, <1>8, <1>9, <1>10, <1>11, <1>12, <1>13,
           <1>14, <1>15, <1>16 DEF BoardNext

LEMMA BoardInvHolds == BoardSpec => []BoardInv
BY BoardInitially, BoardStep, PTL DEF BoardSpec

(* Commands that overlap without a lock, or die between their two writes,  *)
(* leave no card in two places (set_status.rs, new.rs, prioritize.rs); and *)
(* a note has an outcome exactly when its card is archived, except where a *)
(* command died with its stamp written, or wrote over another's board.     *)
THEOREM BoardAgreesWithNotes == BoardSpec => []BoardAndNotesAgree
<1>1. BoardInv => BoardTypeOK
  BY DEF BoardInv, BoardTypes, BoardTypeOK, Command, Sound, Seen
<1>2. BoardInv => StampsFollowTheBoard
  BY DEF BoardInv, Agreement, Stamping, StampsFollowTheBoard
<1> QED BY <1>1, <1>2, BoardInvHolds, PTL DEF BoardAndNotesAgree

(* Whatever cards enter Ready, and in whatever order, each is slotted      *)
(* (ready_insertion_index) so that a card which nothing blocks stands      *)
(* before all that it blocks, as long as nobody orders the lane by hand.   *)
THEOREM ReadyKeepsOrder == BoardSpec => []ReadyInDependencyOrder
<1>1. BoardInv => ReadyInDependencyOrder
  BY DEF BoardInv, InOrder, ReadyInOrder, ReadyInDependencyOrder
<1> QED BY <1>1, BoardInvHolds, PTL

(* A card is not dispatched to a second implementor before it is back in   *)
(* To-do, unless a board was written over another command's changes.       *)
THEOREM CardsHaveOneImplementor == BoardSpec => []OneImplementorPerCard
<1>1. BoardInv => OneImplementorPerCard
  BY DEF BoardInv, Grabbing, OneImplementorPerCard
<1> QED BY <1>1, BoardInvHolds, PTL
=============================================================================
