---------------------------- MODULE SessionProofs ----------------------------
(***************************************************************************)
(* Proofs about Session, for every loader, file and memory map.            *)
(***************************************************************************)
EXTENDS Session, Integers, TLAPS, SequenceTheorems, FiniteSetTheorems

-----------------------------------------------------------------------------
(* What hex2dec of the loader computes, for every character.               *)

LEMMA DivMod ==
  \A b \in Byte : /\ b \div 16 \in 0 .. 15 /\ b % 16 \in 0 .. 15
                  /\ b = 16 * (b \div 16) + (b % 16)
BY DEF Byte

LEMMA DigitNibble ==
  \A d \in 0 .. 15 : Digit(d) \in Byte /\ Nibble(Digit(d)) = d
BY DEF Digit, Nibble, Byte, Bad

LEMMA NibbleDigit ==
  \A c \in Byte : Nibble(c) # Bad => Nibble(c) \in 0 .. 15 /\ Digit(Nibble(c)) = c
BY DEF Digit, Nibble, Byte, Bad

(* hex2dec (stage2.asm 147-162) undoes the writing of a byte as two        *)
(* digits, for every byte.                                                 *)
THEOREM DecodesEveryByte ==
  \A b \in Byte : Hex2Dec(HexOf(b)[1], HexOf(b)[2]) = b
<1> SUFFICES ASSUME NEW b \in Byte
             PROVE  Hex2Dec(HexOf(b)[1], HexOf(b)[2]) = b
  OBVIOUS
<1> DEFINE q == b \div 16
           r == b % 16
<1>1. q \in 0 .. 15 /\ r \in 0 .. 15 /\ b = 16 * q + r
  BY DivMod
<1>2. HexOf(b)[1] = Digit(q) /\ HexOf(b)[2] = Digit(r)
  BY DEF HexOf
<1>3. Nibble(Digit(q)) = q /\ Nibble(Digit(r)) = r
  BY <1>1, DigitNibble
<1>4. q # Bad /\ r # Bad
  BY <1>1 DEF Bad
<1> HIDE DEF q, r
<1> QED
  BY <1>1, <1>2, <1>3, <1>4 DEF Hex2Dec

(* Whatever two characters hex2dec accepts, they are the way a byte is     *)
(* written, and it gives that byte: no lower-case digit, no other spelling *)
(* passes (convnibble, stage2.asm 166-185).                                *)
THEOREM AcceptsOneSpelling ==
  \A h, l \in Byte :
    Hex2Dec(h, l) # Bad => Hex2Dec(h, l) \in Byte /\ HexOf(Hex2Dec(h, l)) = <<h, l>>
<1> SUFFICES ASSUME NEW h \in Byte, NEW l \in Byte, Hex2Dec(h, l) # Bad
             PROVE  Hex2Dec(h, l) \in Byte /\ HexOf(Hex2Dec(h, l)) = <<h, l>>
  OBVIOUS
<1> DEFINE p == Nibble(h)
           q == Nibble(l)
           b == 16 * p + q
<1>1. p # Bad /\ q # Bad /\ Hex2Dec(h, l) = b
  BY DEF Hex2Dec
<1>2. p \in 0 .. 15 /\ q \in 0 .. 15 /\ Digit(p) = h /\ Digit(q) = l
  BY <1>1, NibbleDigit
<1> HIDE DEF p, q
<1>3. b \in Byte /\ b \div 16 = p /\ b % 16 = q
  BY <1>2 DEF Byte
<1>4. HexOf(b) = <<h, l>>
  BY <1>2, <1>3 DEF HexOf
<1> QED
  BY <1>1, <1>3, <1>4

-----------------------------------------------------------------------------
(* The transfer of the loader to the ROM.                                  *)

(* At most one byte is on the line, each way.                              *)
Wire(s) == s = <<>> \/ \E v \in Byte : s = <<v>>

BootPlace ==
  /\ program \in Programs
  /\ n \in 0 .. SIZE /\ awaiting \in BOOLEAN /\ good \in BOOLEAN
  /\ faults \in 0 .. MaxFaults
  /\ complaints \subseteq 1 .. n /\ (awaiting => n >= 1 /\ n \notin complaints)
  /\ ram \in Seq(Byte) /\ Len(ram) + Len(toRom) <= n
  /\ Wire(toRom) /\ Wire(toHost)
  /\ awaiting \/ (toRom = <<>> /\ toHost = <<>>)
  /\ toRom = <<>> \/ toHost = <<>>
  /\ good => n = SIZE /\ ~ awaiting

(* FF is ahead of the program, and the ROM echoes nothing before it loads. *)
RomPlace ==
  /\ ff \in {"unsent", "coming", "heard", "lost"} /\ rom \in {"wait", "load", "astray"}
  /\ ff = "unsent" => n = 0
  /\ ff = "lost" => faults >= 1
  /\ ff = "heard" => rom = "load"
  /\ rom # "wait" => ff \in {"heard", "lost"}
  /\ rom # "load" => ram = <<>> /\ toHost = <<>>

(* The byte sent, or its echo, is not what it should be.                   *)
Damaged == awaiting /\ toRom # <<program[n]>> /\ toHost # <<program[n]>>

Counted == ff # "lost" => Cardinality(complaints) + (IF Damaged THEN 1 ELSE 0) <= faults

LEMMA OnWire ==
  ASSUME NEW s, Wire(s)
  PROVE  /\ s \in Seq(Byte) /\ Len(s) \in {0, 1} /\ Len(s) >= 0 /\ Len(s) <= 1
         /\ s = <<>> <=> Len(s) = 0
         /\ s # <<>> => /\ Head(s) \in Byte /\ s = <<Head(s)>> /\ Len(s) = 1
                        /\ Tail(s) = <<>>
                        /\ \A c \in Byte : <<c>> \o Tail(s) = <<c>>
<1>1. CASE s = <<>>
  BY <1>1
<1>2. ASSUME NEW v \in Byte, s = <<v>>
      PROVE  /\ s \in Seq(Byte) /\ Len(s) = 1 /\ s # <<>> /\ Head(s) = v /\ Tail(s) = <<>>
  BY <1>2
<1>3. ASSUME NEW v \in Byte, s = <<v>>, NEW c \in Byte
      PROVE  <<c>> \o Tail(s) = <<c>>
  <2>1. Tail(s) = <<>> /\ <<c>> \in Seq(Byte)
    BY <1>2, <1>3
  <2> QED
    BY <2>1, ConcatEmptySeq
<1> QED
  BY <1>1, <1>2, <1>3 DEF Wire

LEMMA AppendToNone ==
  ASSUME NEW v \in Byte
  PROVE  Append(<<>>, v) = <<v>> /\ Wire(<<v>>) /\ Wire(<<>>)
BY DEF Wire

LEMMA Changed ==
  ASSUME NEW s, Wire(s), s # <<>>, NEW b \in Change(Head(s))
  PROVE  b \in Byte /\ <<b>> \o Tail(s) = <<b>>
BY OnWire, SessionAssumption

LEMMA ChangedWire ==
  ASSUME NEW s, Wire(s), s # <<>>, NEW t,
         t = Tail(s) \/ \E b \in Change(Head(s)) : t = <<b>> \o Tail(s)
  PROVE  t = <<>> \/ \E v \in Byte : t = <<v>>
<1>1. CASE t = Tail(s)
  BY <1>1, OnWire
<1>2. ASSUME NEW b \in Change(Head(s)), t = <<b>> \o Tail(s)
      PROVE  b \in Byte /\ t = <<b>>
  BY <1>2, Changed
<1> QED
  BY <1>1, <1>2

LEMMA ProgramBytes ==
  ASSUME program \in Programs
  PROVE  /\ program \in Seq(Byte) /\ Len(program) = SIZE /\ SIZE \in Nat \ {0}
         /\ \A i \in 1 .. SIZE : program[i] \in Byte
<1>1. program \in Seq(Byte) /\ Len(program) = SIZE /\ SIZE \in Nat \ {0}
  BY SessionAssumption
<1> QED
  BY <1>1, ElementOfSeq

LEMMA ComplaintsFinite ==
  ASSUME BootPlace
  PROVE  /\ IsFiniteSet(complaints) /\ Cardinality(complaints) \in Nat
         /\ awaiting => Cardinality(complaints \cup {n}) = Cardinality(complaints) + 1
<1>1. n \in Nat
  BY SessionAssumption DEF BootPlace
<1>2. IsFiniteSet(complaints)
  <2>1. IsFiniteSet(1 .. n) /\ complaints \in SUBSET (1 .. n)
    BY <1>1, FS_Interval DEF BootPlace
  <2> QED
    BY <2>1, FS_Subset
<1> QED
  BY <1>2, FS_CardinalityType, FS_AddElement DEF BootPlace

LEMMA BootInit ==
  ASSUME SessionInit
  PROVE  BootPlace /\ Counted /\ RomPlace
<1>1. Boot!Init
  BY DEF SessionInit
<1>2. /\ program \in Programs /\ n = 0 /\ awaiting = FALSE /\ complaints = {}
      /\ good = FALSE /\ toRom = <<>> /\ toHost = <<>> /\ ram = <<>> /\ faults = 0
      /\ ff = "unsent" /\ rom = "wait"
  BY <1>1 DEF Boot!Init
<1>3. 0 \in 0 .. SIZE /\ 0 \in 0 .. MaxFaults /\ SIZE # 0
  BY SessionAssumption
<1>4. BootPlace
  <2>1. ram \in Seq(Byte) /\ Len(ram) + Len(toRom) <= n
    BY <1>2
  <2>2. awaiting \in BOOLEAN /\ good \in BOOLEAN /\ ~ awaiting /\ ~ good
    BY <1>2
  <2>3. Wire(toRom) /\ Wire(toHost)
    BY <1>2 DEF Wire
  <2>4. complaints \subseteq 1 .. n
    BY <1>2
  <2>5. n \in 0 .. SIZE /\ faults \in 0 .. MaxFaults /\ toRom = <<>> /\ toHost = <<>>
        /\ program \in Programs
    BY <1>2, <1>3
  <2> QED
    BY <2>1, <2>2, <2>3, <2>4, <2>5 DEF BootPlace
<1> QED
  BY <1>2, <1>4, FS_EmptySet DEF Counted, Damaged, RomPlace

LEMMA WriteSyncKeeps ==
  ASSUME BootPlace, RomPlace, Counted, Boot!WriteSync
  PROVE  BootPlace' /\ Counted' /\ RomPlace'
<1>1. /\ ff = "unsent" /\ toHost' = <<>>
      /\ \/ ff' = "coming" /\ faults' = faults
         \/ faults < MaxFaults /\ ff' = "lost" /\ faults' = faults + 1
      /\ UNCHANGED <<program, n, awaiting, complaints, good, toRom, rom, ram>>
  BY DEF Boot!WriteSync
<1>2. n = 0 /\ rom = "wait" /\ ~ awaiting /\ toRom = <<>> /\ toHost = <<>>
  BY <1>1 DEF RomPlace, BootPlace
<1>3. faults' \in 0 .. MaxFaults /\ faults \in Nat
  BY <1>1, SessionAssumption DEF BootPlace
<1>4. BootPlace'
  BY <1>1, <1>2, <1>3 DEF BootPlace
<1>5. RomPlace'
  BY <1>1, <1>2, <1>3 DEF RomPlace
<1>6. Counted'
  BY <1>1, <1>2 DEF Counted, Damaged
<1> QED
  BY <1>4, <1>5, <1>6

LEMMA WriteByteKeeps ==
  ASSUME BootPlace, RomPlace, Counted, Boot!WriteByte
  PROVE  BootPlace' /\ Counted' /\ RomPlace'
<1>1. /\ ff # "unsent" /\ ~ awaiting /\ n < SIZE /\ n' = n + 1 /\ awaiting' = TRUE
      /\ toRom' = Append(toRom, program[n + 1])
      /\ UNCHANGED <<program, complaints, good, ff, toHost, rom, ram, faults>>
  BY DEF Boot!WriteByte
<1>2. /\ n \in Nat /\ n' \in 1 .. SIZE /\ program[n'] \in Byte
      /\ toRom = <<>> /\ toHost = <<>>
  BY <1>1, ProgramBytes, SessionAssumption DEF BootPlace
<1>3. toRom' = <<program[n']>> /\ Wire(toRom') /\ Len(toRom') = 1
  BY <1>1, <1>2, AppendToNone
<1>4. complaints' \subseteq 1 .. n' /\ n' \notin complaints'
  BY <1>1, <1>2 DEF BootPlace
<1>5. Len(ram) \in Nat /\ Len(ram) <= n
  BY <1>2 DEF BootPlace
<1>6. BootPlace'
  BY <1>1, <1>2, <1>3, <1>4, <1>5, SessionAssumption DEF BootPlace
<1>7. ~ Damaged' /\ ~ Damaged
  BY <1>1, <1>3 DEF Damaged
<1> QED
  BY <1>1, <1>6, <1>7 DEF Counted, RomPlace

LEMMA ReadEchoKeeps ==
  ASSUME BootPlace, RomPlace, Counted, Boot!ReadEcho
  PROVE  BootPlace' /\ Counted' /\ RomPlace'
<1>1. /\ awaiting /\ toHost # <<>> /\ awaiting' = FALSE /\ toHost' = Tail(toHost)
      /\ complaints' = IF Head(toHost) # program[n] THEN complaints \cup {n} ELSE complaints
      /\ UNCHANGED <<program, n, good, ff, toRom, rom, ram, faults>>
  BY DEF Boot!ReadEcho
<1>2. /\ toHost = <<Head(toHost)>> /\ toHost' = <<>> /\ toRom = <<>>
      /\ n \in 1 .. SIZE /\ n \in 1 .. n
  BY <1>1, OnWire, SessionAssumption DEF BootPlace
<1>3. BootPlace'
  BY <1>1, <1>2 DEF BootPlace, Wire
<1>4. ~ Damaged'
  BY <1>1 DEF Damaged
<1>5. ff # "lost" => Cardinality(complaints') <= faults
  <2>1. CASE Head(toHost) = program[n]
    BY <1>1, <2>1, ComplaintsFinite, SessionAssumption DEF Counted, BootPlace
  <2>2. CASE Head(toHost) # program[n]
    <3>1. Damaged
      BY <1>1, <1>2, <2>2 DEF Damaged
    <3> QED
      BY <1>1, <2>2, <3>1, ComplaintsFinite DEF Counted
  <2> QED
    BY <2>1, <2>2
<1> QED
  <2>1. Cardinality(complaints') \in Int /\ faults \in Int /\ (ff' # "lost" => Cardinality(complaints') + 0 <= faults')
    BY <1>1, <1>2, <1>5, ComplaintsFinite, SessionAssumption DEF BootPlace
  <2>2. Counted'
    BY <1>4, <2>1 DEF Counted
  <2>3. RomPlace'
    BY <1>1 DEF RomPlace
  <2> QED
    BY <1>3, <2>2, <2>3

LEMMA ReadTimeoutKeeps ==
  ASSUME BootPlace, RomPlace, Counted, Boot!ReadTimeout
  PROVE  BootPlace' /\ Counted' /\ RomPlace'
<1>1. /\ awaiting /\ toHost = <<>> /\ awaiting' = FALSE
      /\ toRom = <<>> \/ Len(ram) = SIZE
      /\ complaints' = complaints \cup {n}
      /\ UNCHANGED <<program, n, good, ff, toRom, toHost, rom, ram, faults>>
  BY DEF Boot!ReadTimeout, Boot!Running
<1>2. n \in 1 .. SIZE /\ n \in 1 .. n /\ n \in Nat /\ Len(ram) \in Nat
  BY <1>1, SessionAssumption DEF BootPlace
<1>3. toRom = <<>>
  <2>1. Len(toRom) \in {0, 1} /\ Len(ram) + Len(toRom) <= n
    BY OnWire DEF BootPlace
  <2> QED
    BY <1>1, <1>2, <2>1, OnWire DEF BootPlace
<1>4. BootPlace'
  BY <1>1, <1>2, <1>3 DEF BootPlace
<1>5. Damaged /\ ~ Damaged'
  BY <1>1, <1>3 DEF Damaged
<1> QED
  BY <1>1, <1>4, <1>5, ComplaintsFinite DEF Counted, RomPlace

LEMMA AllGoodKeeps ==
  ASSUME BootPlace, RomPlace, Counted, Boot!AllGood
  PROVE  BootPlace' /\ Counted' /\ RomPlace'
<1>1. /\ ~ awaiting /\ n = SIZE /\ good' = TRUE
      /\ UNCHANGED <<program, n, awaiting, complaints, ff, toRom, toHost, rom, ram, faults>>
  BY DEF Boot!AllGood
<1> QED
  BY <1>1 DEF BootPlace, Counted, Damaged, RomPlace

(* The ROM swallows a byte: FF is lost, and nothing is counted then.       *)
LEMMA SwallowedKeeps ==
  ASSUME BootPlace, RomPlace, ff = "lost", rom # "load", toRom # <<>>, toRom' = Tail(toRom),
         rom' \in {"load", "astray"},
         UNCHANGED <<program, n, awaiting, complaints, good, ff, toHost, ram, faults>>
  PROVE  BootPlace' /\ Counted' /\ RomPlace'
<1>1. toRom' = <<>> /\ Wire(toRom') /\ Len(toRom) = 1 /\ Len(toRom') = 0
  BY OnWire DEF BootPlace, Wire
<1>2. Len(ram) \in Nat /\ n \in Int /\ Len(ram) + Len(toRom) <= n
  BY LenProperties, SessionAssumption DEF BootPlace
<1>3. Len(ram') + Len(toRom') <= n'
  <2>1. ram' = ram /\ n' = n
    OBVIOUS
  <2>2. Len(ram) + 0 <= n
    BY <1>1, <1>2
  <2> QED
    BY <1>1, <2>1, <2>2, Zenon
<1>4. BootPlace'
  BY <1>1, <1>3 DEF BootPlace
<1>5. Counted' /\ RomPlace'
  BY DEF Counted, RomPlace
<1> QED
  BY <1>4, <1>5

LEMMA RomSyncKeeps ==
  ASSUME BootPlace, RomPlace, Counted, Boot!RomSync
  PROVE  BootPlace' /\ Counted' /\ RomPlace'
<1>1. /\ rom = "wait"
      /\ \/ ff = "coming" /\ ff' = "heard" /\ rom' = "load" /\ toRom' = toRom
         \/ /\ ff = "lost" /\ toRom # <<>> /\ toRom' = Tail(toRom) /\ ff' = ff
            /\ rom' \in {"load", "astray"}
      /\ UNCHANGED <<program, n, awaiting, complaints, good, toHost, ram, faults>>
  BY DEF Boot!RomSync, Boot!After
<1>2. CASE ff = "coming"
  BY <1>1, <1>2 DEF BootPlace, Counted, Damaged, RomPlace
<1>3. CASE ff = "lost"
  BY <1>1, <1>3, SwallowedKeeps
<1> QED
  BY <1>1, <1>2, <1>3

LEMMA RomAstrayKeeps ==
  ASSUME BootPlace, RomPlace, Counted, Boot!RomAstray
  PROVE  BootPlace' /\ Counted' /\ RomPlace'
<1>1. /\ rom = "astray" /\ toRom # <<>> /\ toRom' = Tail(toRom) /\ rom' = rom
      /\ UNCHANGED <<program, n, awaiting, complaints, good, ff, toHost, ram, faults>>
  BY DEF Boot!RomAstray
<1>2. ff = "lost"
  BY <1>1 DEF RomPlace
<1> QED
  BY <1>1, <1>2, SwallowedKeeps

LEMMA RomStoreKeeps ==
  ASSUME BootPlace, RomPlace, Counted, Boot!RomStore
  PROVE  BootPlace' /\ Counted' /\ RomPlace'
<1>1. /\ rom = "load" /\ toRom # <<>> /\ ram' = Append(ram, Head(toRom))
      /\ toHost' = Append(toHost, Head(toRom)) /\ toRom' = Tail(toRom)
      /\ UNCHANGED <<program, n, awaiting, complaints, good, ff, rom, faults>>
  BY DEF Boot!RomStore
<1>2. /\ Head(toRom) \in Byte /\ toRom = <<Head(toRom)>> /\ toRom' = <<>>
      /\ Len(toRom) = 1 /\ toHost = <<>> /\ awaiting
  BY <1>1, OnWire DEF BootPlace
<1>3. toHost' = toRom
  BY <1>1, <1>2, AppendToNone
<1>4. ram' \in Seq(Byte) /\ Len(ram') = Len(ram) + 1 /\ Len(toRom') = 0
  BY <1>1, <1>2, AppendProperties DEF BootPlace
<1>5. BootPlace'
  <2>1. Len(ram) \in Nat /\ n \in Int
    BY <1>1, SessionAssumption DEF BootPlace
  <2>2. Len(ram') + Len(toRom') <= n
    BY <1>2, <1>4, <2>1 DEF BootPlace
  <2>3. Wire(toRom') /\ Wire(toHost')
    BY <1>2, <1>3 DEF BootPlace, Wire
  <2> QED
    BY <1>1, <1>2, <1>4, <2>2, <2>3 DEF BootPlace
<1>6. Damaged' <=> Damaged
  BY <1>1, <1>2, <1>3 DEF Damaged
<1> QED
  BY <1>1, <1>5, <1>6 DEF Counted, RomPlace

LEMMA RomKeeps ==
  ASSUME BootPlace, RomPlace, Counted, Boot!Rom
  PROVE  BootPlace' /\ Counted' /\ RomPlace'
BY RomSyncKeeps, RomStoreKeeps, RomAstrayKeeps DEF Boot!Rom

LEMMA SyncFaultKeeps ==
  ASSUME BootPlace, RomPlace, Counted, Boot!Fault, Boot!SyncFault
  PROVE  BootPlace' /\ Counted' /\ RomPlace'
<1>1. /\ ff = "coming" /\ ff' = "lost" /\ rom' \in {"wait", "load", "astray"}
      /\ faults < MaxFaults /\ faults' = faults + 1
      /\ UNCHANGED <<program, n, awaiting, complaints, good, toRom, toHost, ram>>
  BY DEF Boot!Fault, Boot!SyncFault
<1>2. faults' \in 0 .. MaxFaults /\ faults' >= 1
  BY <1>1, SessionAssumption DEF BootPlace
<1>3. ram = <<>> /\ toHost = <<>>
  BY <1>1 DEF RomPlace
<1> QED
  BY <1>1, <1>2, <1>3 DEF BootPlace, Counted, RomPlace

LEMMA ByteFaultKeeps ==
  ASSUME BootPlace, RomPlace, Counted, Boot!Fault, Boot!ByteFault
  PROVE  BootPlace' /\ Counted' /\ RomPlace'
<1>1. /\ faults < MaxFaults /\ faults' = faults + 1
      /\ UNCHANGED <<program, n, awaiting, complaints, good, ff, rom, ram>>
      /\ \/ /\ toRom # <<>> /\ toHost' = toHost
            /\ \/ toRom' = Tail(toRom)
               \/ \E b \in Change(Head(toRom)) : toRom' = <<b>> \o Tail(toRom)
         \/ /\ toHost # <<>> /\ toRom' = toRom
            /\ \/ toHost' = Tail(toHost)
               \/ \E b \in Change(Head(toHost)) : toHost' = <<b>> \o Tail(toHost)
  BY DEF Boot!Fault, Boot!ByteFault
<1>2. faults' \in 0 .. MaxFaults /\ faults \in Nat
  BY <1>1, SessionAssumption DEF BootPlace
<1>3. /\ Wire(toRom') /\ Len(toRom') <= Len(toRom) /\ Wire(toHost')
      /\ toRom = <<>> => toRom' = <<>>
      /\ toHost = <<>> => toHost' = <<>>
  <2>1. CASE toRom # <<>> /\ toHost' = toHost
    <3>1. toRom' = <<>> \/ \E v \in Byte : toRom' = <<v>>
      BY <1>1, <2>1, ChangedWire DEF BootPlace
    <3>2. Len(toRom) = 1 /\ Len(toRom') <= 1
      BY <2>1, <3>1, OnWire DEF BootPlace, Wire
    <3> QED
      BY <2>1, <3>1, <3>2 DEF BootPlace, Wire
  <2>2. CASE toHost # <<>> /\ toRom' = toRom
    <3>1. toHost' = <<>> \/ \E v \in Byte : toHost' = <<v>>
      BY <1>1, <2>2, ChangedWire DEF BootPlace
    <3>2. Len(toRom) \in {0, 1}
      BY OnWire DEF BootPlace
    <3> QED
      BY <2>2, <3>1, <3>2 DEF BootPlace, Wire
  <2> QED
    BY <1>1, <2>1, <2>2
<1>4. BootPlace'
  <2>1. Len(ram) + Len(toRom') <= n
    BY <1>3, OnWire DEF BootPlace
  <2> QED
    BY <1>1, <1>2, <1>3, <2>1 DEF BootPlace
<1>5. ff # "lost" => Cardinality(complaints) + 1 <= faults'
  BY <1>1, <1>2, ComplaintsFinite DEF Counted
<1>6. Counted'
  BY <1>1, <1>2, <1>5, ComplaintsFinite DEF Counted
<1>7. RomPlace'
  BY <1>1, <1>2, <1>3 DEF RomPlace
<1> QED
  BY <1>4, <1>6, <1>7

LEMMA FaultKeeps ==
  ASSUME BootPlace, RomPlace, Counted, Boot!Fault
  PROVE  BootPlace' /\ Counted' /\ RomPlace'
BY SyncFaultKeeps, ByteFaultKeeps DEF Boot!Fault
-----------------------------------------------------------------------------
(* The loader, and upload_srec.                                            *)

LoaderOK ==
  /\ pc \in {"rxsrec", "rxdata", "exec", "sone", "datapoll", "run"}
  /\ y \in Nat /\ (pc = "rxdata" => y \in BUF .. BUFEND)
  /\ a \in Byte /\ len \in Byte /\ addr \in Address

(* The byte an EEPROM programs is the one the loader polls.                *)
MemoryOK ==
  /\ mem \in [Buffer \cup Targets -> Byte]
  /\ \/ prog = {}
     \/ /\ pc = "datapoll" /\ addr \in Targets
        /\ \E v \in Byte : prog = {[cell |-> addr, val |-> v]}

LineOK ==
  /\ rdr \in Byte \cup {None}
  /\ line \in Seq(Byte)
  /\ back \in Seq(Characters)

(* A line is written only when there is one.                               *)
HostOK ==
  /\ file \in Files
  /\ waiting \in BOOLEAN
  /\ shown \in Seq(Characters \cup {""}) /\ Len(shown) <= Len(file)
  /\ waiting => Len(shown) < Len(file)

UploadPlace == LoaderOK /\ MemoryOK /\ LineOK /\ HostOK

SInv ==
  /\ BootPlace /\ RomPlace /\ Counted
  /\ UploadPlace /\ overdue \in Nat
  /\ noisy \in BOOLEAN

LEMMA AddressRange ==
  \A x : x \in Address <=> x \in Int /\ 0 <= x /\ x <= LastAddress
<1>1. LastAddress \in Int
  BY DEF LastAddress
<1> QED
  BY <1>1 DEF Address

LEMMA MapRange ==
  /\ BUF \in Nat /\ BUFEND \in Nat /\ BUF + 7 < BUFEND /\ BUF \in BUF .. BUFEND
  /\ \A x : x \in Buffer <=> x \in Int /\ BUF <= x /\ x < BUFEND
  /\ \A x \in BUF .. BUFEND : x # BUFEND => x \in Buffer /\ x + 1 \in BUF .. BUFEND
  /\ Blank \in Byte /\ Open \in Byte /\ None \notin Byte /\ Bad \notin Byte
  /\ Kind \in [Targets -> {"ram", "eeprom", "rom"}]
<1>1. BUF \in Nat /\ BUFEND \in Nat /\ BUF + 7 < BUFEND
  BY MapAssumption, AddressRange
<1>2. \A x : x \in Buffer <=> x \in Int /\ BUF <= x /\ x < BUFEND
  BY <1>1 DEF Buffer
<1>3. BUF \in BUF .. BUFEND
  BY <1>1
<1>4. \A x \in BUF .. BUFEND : x # BUFEND => x \in Buffer /\ x + 1 \in BUF .. BUFEND
  BY <1>1, <1>2
<1>5. None \notin Byte /\ Bad \notin Byte
  BY DEF None, Bad, Byte
<1> QED
  BY <1>1, <1>2, <1>3, <1>4, <1>5, MapAssumption

LEMMA FileLines ==
  ASSUME file \in Files
  PROVE  /\ Len(file) \in Nat
         /\ \A i \in 1 .. Len(file) : file[i] \in Lines
<1>1. file \in Seq(Lines)
  BY FilesAssumption
<1> QED
  BY <1>1, LenProperties, ElementOfSeq

LEMMA ReadByte ==
  ASSUME MemoryOK, NEW c
  PROVE  At(c) \in Byte
BY MapRange DEF MemoryOK, At

LEMMA PairByte ==
  ASSUME MemoryOK, NEW c, Pair(c) # Bad
  PROVE  Pair(c) \in Byte
BY ReadByte, AcceptsOneSpelling DEF Pair

LEMMA WriteKeeps ==
  ASSUME mem \in [Buffer \cup Targets -> Byte], NEW c, NEW v \in Byte,
         Write(c, v), prog = {}
  PROVE  /\ mem' \in [Buffer \cup Targets -> Byte]
         /\ prog' = {} \/ (c \in Targets /\ prog' = {[cell |-> c, val |-> v]})
<1>1. CASE c \in Buffer \/ (c \in Targets /\ Kind[c] = "ram")
  BY <1>1 DEF Write
<1>2. CASE ~ (c \in Buffer \/ (c \in Targets /\ Kind[c] = "ram"))
  BY <1>2 DEF Write
<1> QED
  BY <1>1, <1>2

LEMMA InitPlace ==
  ASSUME SessionInit
  PROVE  UploadPlace /\ overdue \in Nat /\ noisy \in BOOLEAN
<1>1. overdue = 0 /\ DeviceInit /\ file \in Files /\ waiting = FALSE /\ shown = <<>> /\ noisy \in BOOLEAN
  BY DEF SessionInit, Init
<1>2. LoaderOK
  <2>1. 0 \in Byte /\ 0 \in Address
    BY AddressRange DEF Byte, LastAddress
  <2> QED
    BY <1>1, <2>1, MapRange DEF DeviceInit, LoaderOK
<1>3. MemoryOK
  BY <1>1, MapRange DEF DeviceInit, MemoryOK
<1>4. LineOK
  BY <1>1 DEF DeviceInit, LineOK
<1>5. HostOK
  <2>1. Len(file) \in Nat /\ Len(shown) = 0
    BY <1>1, FileLines
  <2>2. shown \in Seq(Characters \cup {""})
    BY <1>1
  <2>3. Len(shown) <= Len(file)
    BY <2>1
  <2> QED
    BY <1>1, <2>2, <2>3 DEF HostOK
<1> QED
  BY <1>1, <1>2, <1>3, <1>4, <1>5 DEF UploadPlace

LEMMA AnswerType ==
  ASSUME LineOK, NEW c \in {"*", "!", ">", "echo"}, back' = Append(back, c)
  PROVE  back' \in Seq(Characters)
BY AppendProperties DEF LineOK, Characters

LEMMA HostStays ==
  ASSUME HostOK, UNCHANGED <<file, waiting, shown>>
  PROVE  HostOK'
BY DEF HostOK

LEMMA RxsrecKeeps ==
  ASSUME UploadPlace, LoaderStep, Rxsrec
  PROVE  UploadPlace'
<1>1. /\ pc = "rxsrec" /\ rdr' = None
      /\ \/ pc' = "rxdata" /\ y' = BUF
         \/ pc' = pc /\ y' = y
      /\ UNCHANGED <<a, len, addr, mem, prog, line, back, file, waiting, shown>>
  BY DEF LoaderStep, Rxsrec
<1>2. LoaderOK'
  BY <1>1, MapRange DEF UploadPlace, LoaderOK
<1>3. MemoryOK'
  BY <1>1 DEF UploadPlace, MemoryOK
<1>4. LineOK'
  BY <1>1 DEF UploadPlace, LineOK
<1> QED
  BY <1>1, <1>2, <1>3, <1>4, HostStays DEF UploadPlace

LEMMA RxdataKeeps ==
  ASSUME UploadPlace, LoaderStep, Rxdata
  PROVE  UploadPlace'
<1>1. /\ pc = "rxdata" /\ rdr # None /\ rdr' = None
      /\ UNCHANGED <<a, len, addr, prog, line, file, waiting, shown>>
      /\ \/ pc' = "exec" /\ UNCHANGED <<y, mem, back>>
         \/ pc' = "rxsrec" /\ back' = Append(back, "!") /\ UNCHANGED <<y, mem>>
         \/ /\ y # BUFEND /\ mem' = [mem EXCEPT ![y] = rdr] /\ y' = y + 1
            /\ UNCHANGED <<pc, back>>
  BY DEF LoaderStep, Rxdata, Answer
<1>2. y \in BUF .. BUFEND /\ rdr \in Byte /\ prog = {} /\ y \in Nat
  BY <1>1 DEF UploadPlace, LoaderOK, LineOK, MemoryOK
<1>3. LineOK'
  BY <1>1, AnswerType DEF UploadPlace, LineOK
<1>4. LoaderOK'
  BY <1>1, <1>2, MapRange DEF UploadPlace, LoaderOK
<1>5. MemoryOK'
  BY <1>1, <1>2, MapRange DEF UploadPlace, MemoryOK
<1> QED
  BY <1>1, <1>3, <1>4, <1>5, HostStays DEF UploadPlace

LEMMA ExecKeeps ==
  ASSUME UploadPlace, LoaderStep, Exec
  PROVE  UploadPlace'
<1> DEFINE count == Pair(BUF + 1)
           hi    == Pair(BUF + 3)
           lo    == Pair(BUF + 5)
<1>1. /\ pc = "exec"
      /\ UNCHANGED <<a, mem, prog, line, rdr, file, waiting, shown>>
      /\ \/ pc' = "rxsrec" /\ back' = Append(back, "!") /\ UNCHANGED <<y, len, addr>>
         \/ /\ Bad \notin {count, hi, lo}
            /\ len' = (count + 256 - 3) % 256 /\ addr' = 256 * hi + lo /\ y' = BUF + 7
            /\ \/ pc' = "sone" /\ back' = back
               \/ pc' = "run" /\ back' = Append(back, ">")
  BY DEF LoaderStep, Exec, Answer
<1>2. prog = {} /\ MemoryOK'
  BY <1>1 DEF UploadPlace, MemoryOK
<1>3. LineOK'
  BY <1>1, AnswerType DEF UploadPlace, LineOK
<1>4. /\ count # Bad => count \in Byte
      /\ hi # Bad => hi \in Byte
      /\ lo # Bad => lo \in Byte
  BY PairByte DEF UploadPlace
<1> HIDE DEF count, hi, lo
<1>5. ASSUME UNCHANGED <<y, len, addr>>, pc' = "rxsrec"
      PROVE  LoaderOK'
  BY <1>1, <1>5 DEF UploadPlace, LoaderOK
<1>6. ASSUME count \in Byte, hi \in Byte, lo \in Byte, pc' \in {"sone", "run"},
             len' = (count + 256 - 3) % 256, addr' = 256 * hi + lo, y' = BUF + 7
      PROVE  LoaderOK'
  <2>1. len' \in Byte
    BY <1>6 DEF Byte
  <2>2. addr' \in Address
    <3>1. /\ hi \in Int /\ 0 <= hi /\ hi <= 255
          /\ lo \in Int /\ 0 <= lo /\ lo <= 255
      BY <1>6 DEF Byte
    <3>2. addr' \in Int /\ 0 <= addr' /\ addr' <= 65535
      BY <1>6, <3>1
    <3> QED
      BY <3>2, AddressRange DEF LastAddress
  <2> QED
    BY <1>1, <1>6, <2>1, <2>2, MapRange DEF UploadPlace, LoaderOK
<1>7. LoaderOK'
  BY <1>1, <1>4, <1>5, <1>6
<1> QED
  BY <1>1, <1>2, <1>3, <1>7, HostStays DEF UploadPlace

LEMMA SoneKeeps ==
  ASSUME UploadPlace, LoaderStep, Sone
  PROVE  UploadPlace'
<1>1. /\ pc = "sone"
      /\ UNCHANGED <<len, addr, line, rdr, file, waiting, shown>>
      /\ \/ pc' = "rxsrec" /\ back' = Append(back, "!") /\ UNCHANGED <<a, y, mem, prog>>
         \/ /\ Pair(y) # Bad /\ pc' = "datapoll" /\ a' = Pair(y) /\ y' = y + 2
            /\ Write(addr, Pair(y)) /\ back' = back
  BY DEF LoaderStep, Sone, Answer
<1>2. prog = {} /\ y \in Nat /\ mem \in [Buffer \cup Targets -> Byte]
  BY <1>1 DEF UploadPlace, LoaderOK, MemoryOK
<1>3. LineOK'
  BY <1>1, AnswerType DEF UploadPlace, LineOK
<1>4. LoaderOK'
  BY <1>1, <1>2, PairByte DEF UploadPlace, LoaderOK
<1>5. MemoryOK'
  <2>1. CASE UNCHANGED <<mem, prog>>
    BY <1>2, <2>1 DEF MemoryOK
  <2>2. CASE Pair(y) # Bad /\ Write(addr, Pair(y)) /\ pc' = "datapoll"
    <3>1. Pair(y) \in Byte
      BY <2>2, PairByte DEF UploadPlace
    <3> QED
      BY <1>1, <1>2, <2>2, <3>1, WriteKeeps DEF MemoryOK
  <2> QED
    BY <1>1, <2>1, <2>2
<1> QED
  BY <1>1, <1>3, <1>4, <1>5, HostStays DEF UploadPlace

LEMMA DatapollKeeps ==
  ASSUME UploadPlace, LoaderStep, Datapoll
  PROVE  UploadPlace'
<1>1. /\ pc = "datapoll" /\ ReadsBack(addr, a)
      /\ addr' = (addr + 1) % 65536 /\ len' = (len + 255) % 256
      /\ UNCHANGED <<y, a, mem, prog, line, rdr, file, waiting, shown>>
      /\ \/ pc' = "sone" /\ back' = back
         \/ pc' = "rxsrec" /\ back' = Append(back, "*")
  BY DEF LoaderStep, Datapoll, Answer
<1>2. prog = {} /\ MemoryOK'
  BY <1>1 DEF UploadPlace, MemoryOK, ReadsBack
<1>3. LineOK'
  BY <1>1, AnswerType DEF UploadPlace, LineOK
<1>4. addr' \in Address
  <2>1. addr \in Int
    BY AddressRange DEF UploadPlace, LoaderOK
  <2>2. addr' \in Int /\ 0 <= addr' /\ addr' <= 65535
    BY <1>1, <2>1
  <2> QED
    BY <2>2, AddressRange DEF LastAddress
<1>5. len' \in Byte
  BY <1>1 DEF UploadPlace, LoaderOK, Byte
<1>6. LoaderOK'
  BY <1>1, <1>4, <1>5 DEF UploadPlace, LoaderOK
<1> QED
  BY <1>1, <1>2, <1>3, <1>6, HostStays DEF UploadPlace

LEMMA LoaderKeeps ==
  ASSUME UploadPlace, LoaderStep
  PROVE  UploadPlace'
BY RxsrecKeeps, RxdataKeeps, ExecKeeps, SoneKeeps, DatapollKeeps DEF LoaderStep, Loader

LEMMA ArriveKeeps ==
  ASSUME UploadPlace, ArriveStep
  PROVE  UploadPlace'
<1>1. /\ line # <<>> /\ rdr' \in {rdr, Head(line)} /\ line' = Tail(line)
      /\ UNCHANGED <<pc, y, a, len, addr, mem, prog, back, file, waiting, shown>>
  BY DEF ArriveStep, Arrive
<1>2. line \in Seq(Byte)
  BY DEF UploadPlace, LineOK
<1>3. Head(line) \in Byte /\ line' \in Seq(Byte)
  BY <1>1, <1>2, HeadTailProperties
<1>4. LineOK'
  BY <1>1, <1>3 DEF UploadPlace, LineOK
<1>5. LoaderOK' /\ MemoryOK'
  BY <1>1 DEF UploadPlace, LoaderOK, MemoryOK
<1> QED
  BY <1>1, <1>4, <1>5, HostStays DEF UploadPlace

LEMMA ProgrammedKeeps ==
  ASSUME UploadPlace, ProgrammedStep
  PROVE  UploadPlace'
<1>1. PICK w \in prog : mem' = [mem EXCEPT ![w.cell] = w.val]
  BY DEF ProgrammedStep, Programmed
<1>2. /\ prog' = {}
      /\ UNCHANGED <<pc, y, a, len, addr, line, rdr, back, file, waiting, shown>>
  BY DEF ProgrammedStep, Programmed
<1>3. w.val \in Byte
  BY DEF UploadPlace, MemoryOK
<1>4. MemoryOK'
  BY <1>1, <1>2, <1>3 DEF UploadPlace, MemoryOK
<1>5. LoaderOK' /\ LineOK'
  BY <1>2 DEF UploadPlace, LoaderOK, LineOK
<1> QED
  BY <1>2, <1>4, <1>5, HostStays DEF UploadPlace

LEMMA WriteLineKeeps ==
  ASSUME UploadPlace, WriteLine
  PROVE  UploadPlace'
<1>1. /\ ~ waiting /\ Len(shown) + 1 <= Len(file) /\ waiting' = TRUE
      /\ line' = line \o file[Len(shown) + 1].text
      /\ UNCHANGED <<pc, y, a, len, addr, mem, prog, rdr, back, file, shown>>
  BY DEF WriteLine, Current, device
<1>2. /\ file \in Files /\ line \in Seq(Byte) /\ Len(shown) \in Nat /\ Len(file) \in Nat
  BY FileLines, LenProperties DEF UploadPlace, HostOK, LineOK
<1>3. Len(shown) + 1 \in 1 .. Len(file)
  BY <1>1, <1>2
<1>4. file[Len(shown) + 1].text \in Seq(Byte)
  BY <1>2, <1>3, FileLines DEF Lines
<1>5. LineOK'
  BY <1>1, <1>2, <1>4, ConcatProperties DEF UploadPlace, LineOK
<1>6. HostOK'
  <2>1. HostOK /\ waiting' = TRUE /\ waiting' \in BOOLEAN /\ Len(shown') < Len(file')
        /\ UNCHANGED <<file, shown>>
    BY <1>1, <1>2 DEF UploadPlace
  <2> QED
    BY <2>1 DEF HostOK
<1> QED
  BY <1>1, <1>5, <1>6 DEF UploadPlace, LoaderOK, MemoryOK

LEMMA OneMore == \A p, q \in Nat : p < q => p + 1 <= q
OBVIOUS

LEMMA ShownGrows ==
  ASSUME HostOK, Len(shown) < Len(file), NEW c \in Characters \cup {""},
         shown' = Append(shown, c), file' = file
  PROVE  shown' \in Seq(Characters \cup {""}) /\ Len(shown') <= Len(file') /\ file' \in Files
<1>1. /\ shown' \in Seq(Characters \cup {""}) /\ Len(shown') = Len(shown) + 1
      /\ Len(shown) \in Nat /\ Len(file) \in Nat
  BY AppendProperties, LenProperties, FileLines DEF HostOK
<1>2. Len(shown) + 1 <= Len(file)
  BY <1>1, OneMore, Zenon
<1> QED
  BY <1>1, <1>2, Zenon DEF HostOK

LEMMA ReadAnswerKeeps ==
  ASSUME UploadPlace, ReadAnswer
  PROVE  UploadPlace'
<1>1. /\ waiting /\ back # <<>> /\ shown' = Append(shown, Head(back)) /\ back' = Tail(back)
      /\ waiting' = FALSE
      /\ UNCHANGED <<pc, y, a, len, addr, mem, prog, line, rdr, file>>
  BY DEF ReadAnswer, device
<1>2. Head(back) \in Characters /\ back' \in Seq(Characters)
  BY <1>1, HeadTailProperties DEF UploadPlace, LineOK
<1>3. HostOK'
  <2>1. HostOK /\ Len(shown) < Len(file) /\ waiting' = FALSE /\ waiting' \in BOOLEAN
    BY <1>1 DEF UploadPlace, HostOK
  <2> QED
    BY <1>1, <1>2, <2>1, ShownGrows DEF HostOK
<1> QED
  BY <1>1, <1>2, <1>3 DEF UploadPlace, LoaderOK, MemoryOK, LineOK

LEMMA ReadTimeoutShown ==
  ASSUME UploadPlace, ReadTimeout
  PROVE  UploadPlace'
<1>1. /\ waiting /\ shown' = Append(shown, "") /\ waiting' = FALSE
      /\ UNCHANGED <<pc, y, a, len, addr, mem, prog, line, rdr, back, file>>
  BY DEF ReadTimeout, device, serial
<1>2. HostOK'
  <2>1. HostOK /\ Len(shown) < Len(file) /\ waiting' = FALSE /\ waiting' \in BOOLEAN
    BY <1>1 DEF UploadPlace, HostOK
  <2> QED
    BY <1>1, <2>1, ShownGrows DEF HostOK
<1> QED
  BY <1>1, <1>2 DEF UploadPlace, LoaderOK, MemoryOK, LineOK

LEMMA NoAnswerKeeps ==
  ASSUME UploadPlace, NoAnswer
  PROVE  UploadPlace'
<1>1. /\ waiting /\ shown' = Append(shown, "") /\ waiting' = FALSE /\ line' = <<>>
      /\ UNCHANGED <<pc, y, a, len, addr, mem, prog, rdr, back, file>>
  BY DEF NoAnswer, device
<1>2. HostOK'
  <2>1. HostOK /\ Len(shown) < Len(file) /\ waiting' = FALSE /\ waiting' \in BOOLEAN
    BY <1>1 DEF UploadPlace, HostOK
  <2> QED
    BY <1>1, <2>1, ShownGrows DEF HostOK
<1>3. LineOK'
  <2>1. <<>> \in Seq(Byte)
    OBVIOUS
  <2>2. line' \in Seq(Byte)
    BY <1>1, <2>1, Zenon
  <2> QED
    BY <1>1, <2>2 DEF UploadPlace, LineOK
<1> QED
  BY <1>1, <1>2, <1>3 DEF UploadPlace, LoaderOK, MemoryOK

LEMMA RomTakesKeeps ==
  ASSUME BootPlace, RomPlace, Counted, UploadPlace, RomTakesCharacter
  PROVE  BootPlace' /\ RomPlace' /\ Counted' /\ UploadPlace'
<1>1. /\ good /\ Len(ram) # SIZE /\ rom # "astray" /\ ff # "coming" /\ line # <<>>
      /\ line' = Tail(line)
      /\ IF rom = "load" THEN ram' = Append(ram, Head(line)) /\ back' = Append(back, "echo")
                         ELSE UNCHANGED <<ram, back>>
      /\ IF rom = "wait" THEN rom' \in {"load", "astray"} ELSE rom' = rom
      /\ UNCHANGED <<pc, y, a, len, addr, mem, prog, rdr, file, waiting, shown>>
      /\ UNCHANGED <<program, n, awaiting, complaints, good, ff, toRom, toHost, faults>>
  BY DEF RomTakesCharacter, Boot!Left, Boot!Running, Boot!After, device
<1>2. Head(line) \in Byte /\ line' \in Seq(Byte)
  BY <1>1, HeadTailProperties DEF UploadPlace, LineOK
<1>3. LineOK'
  <2>1. back' \in Seq(Characters)
    <3>1. CASE back' = Append(back, "echo")
      BY <3>1, AnswerType DEF UploadPlace
    <3>2. CASE back' = back
      BY <3>2 DEF UploadPlace, LineOK
    <3> QED
      BY <1>1, <3>1, <3>2
  <2> QED
    BY <1>1, <1>2, <2>1 DEF UploadPlace, LineOK
<1>4. UploadPlace'
  BY <1>1, <1>3, HostStays DEF UploadPlace, LoaderOK, MemoryOK
<1>5. n = SIZE /\ ~ awaiting /\ toRom = <<>> /\ SIZE \in Nat /\ Len(toRom) = 0
  BY <1>1, SessionAssumption DEF BootPlace
<1>6. ram' \in Seq(Byte) /\ Len(ram') <= Len(ram) + 1 /\ Len(ram) \in Nat /\ Len(ram') \in Nat
  <2>1. ram \in Seq(Byte) /\ Len(ram) \in Nat
    BY LenProperties DEF BootPlace
  <2>2. CASE ram' = Append(ram, Head(line))
    BY <1>2, <2>1, <2>2, AppendProperties
  <2>3. CASE ram' = ram
    BY <2>1, <2>3
  <2> QED
    BY <1>1, <2>2, <2>3
<1>7. Len(ram') + Len(toRom') <= n'
  BY <1>1, <1>5, <1>6 DEF BootPlace
<1>8. BootPlace'
  BY <1>1, <1>6, <1>7 DEF BootPlace
<1>9. RomPlace'
  <2>1. n # 0
    BY <1>5, SessionAssumption
  <2> QED
    BY <1>1, <2>1 DEF RomPlace
<1> QED
  BY <1>1, <1>4, <1>8, <1>9 DEF Counted, Damaged
-----------------------------------------------------------------------------
(* Both, together.                                                         *)

LEMMA BootStays ==
  ASSUME BootPlace, RomPlace, Counted, UNCHANGED boot
  PROVE  BootPlace' /\ RomPlace' /\ Counted'
BY DEF BootPlace, RomPlace, Counted, Damaged, boot

LEMMA UploadStays ==
  ASSUME UploadPlace, UNCHANGED uploading
  PROVE  UploadPlace'
BY DEF UploadPlace, LoaderOK, MemoryOK, LineOK, HostOK, uploading, device, serial

LEMMA OverdueKeeps ==
  ASSUME SInv, [SessionNext]_vars, UploadPlace'
  PROVE  overdue' \in Nat
<1>1. CASE SendLine
  <2>1. overdue' = IF Len(line') < Rate[file] THEN 0 ELSE Len(line') - Rate[file] + 1
    BY <1>1 DEF SendLine, WriteLine
  <2>2. Len(line') \in Nat
    BY LenProperties DEF UploadPlace, LineOK
  <2>3. Rate[file] \in Nat
    BY FilesAssumption DEF SInv, UploadPlace, HostOK
  <2> QED
    BY <2>1, <2>2, <2>3
<1>2. CASE ~ SendLine
  <2>1. overdue' = overdue
    BY <1>2 DEF SessionNext, UploadPy, Rom, BootHost, BootRom, BootFault, TakeAnswer, ReadAnswer,
                GiveUp, ReadTimeout, NoAnswer, RomTakesCharacter, Load, LoaderStep, Deliver,
                ArriveStep, EndProgramming, ProgrammedStep, uploading, vars
  <2> QED
    BY <2>1 DEF SInv
<1> QED
  BY <1>1, <1>2

LEMMA Placed ==
  ASSUME SInv, [SessionNext]_vars
  PROVE  BootPlace' /\ RomPlace' /\ Counted' /\ UploadPlace' /\ noisy' \in BOOLEAN
<1> USE DEF SInv
<1>1. CASE BootHost
  <2>1. Boot!Host /\ UNCHANGED <<uploading, noisy>>
    BY <1>1 DEF BootHost
  <2> QED
    BY <2>1, UploadStays, WriteSyncKeeps, WriteByteKeeps, ReadEchoKeeps, ReadTimeoutKeeps, AllGoodKeeps
       DEF Boot!Host
<1>2. CASE BootRom
  BY <1>2, UploadStays, RomKeeps DEF BootRom
<1>3. CASE BootFault
  BY <1>3, UploadStays, FaultKeeps DEF BootFault
<1>4. CASE SendLine
  BY <1>4, BootStays, WriteLineKeeps DEF SendLine, Rest
<1>5. CASE TakeAnswer
  BY <1>5, BootStays, ReadAnswerKeeps DEF TakeAnswer, Rest
<1>6. CASE GiveUp
  BY <1>6, BootStays, ReadTimeoutShown DEF GiveUp, Rest
<1>7. CASE NoAnswer
  BY <1>7, BootStays, NoAnswerKeeps DEF NoAnswer, Rest
<1>8. CASE RomTakesCharacter
  BY <1>8, RomTakesKeeps DEF RomTakesCharacter
<1>9. CASE Load
  BY <1>9, BootStays, LoaderKeeps DEF Load, Rest
<1>10. CASE Deliver
  BY <1>10, BootStays, ArriveKeeps DEF Deliver, Rest
<1>11. CASE EndProgramming
  BY <1>11, BootStays, ProgrammedKeeps DEF EndProgramming, Rest
<1>12. CASE UNCHANGED vars
  BY <1>12, BootStays, UploadStays DEF vars
<1> QED
  BY <1>1, <1>2, <1>3, <1>4, <1>5, <1>6, <1>7, <1>8, <1>9, <1>10, <1>11, <1>12
     DEF SessionNext, UploadPy, Rom

LEMMA SNext ==
  ASSUME SInv, [SessionNext]_vars
  PROVE  SInv'
BY Placed, OverdueKeeps DEF SInv

THEOREM SessionInvariant == Spec => []SInv
<1>1. SessionInit => SInv
  BY BootInit, InitPlace DEF SInv
<1> QED
  BY <1>1, SNext, PTL DEF Spec
-----------------------------------------------------------------------------
(* What the session shows.                                                 *)

(* The variables of the session keep their types, the indices and counters *)
(* their bounds and the line its one byte, whatever the loader, the file   *)
(* and the line do.                                                        *)
THEOREM SessionTypeOK == Spec => []TypeOK
<1>1. SInv => TypeOK
  <2> SUFFICES ASSUME SInv PROVE TypeOK
    OBVIOUS
  <2>1. UploadTypeOK
    <3>1. prog = {} \/ \E c \in Targets, b \in Byte : prog = {[cell |-> c, val |-> b]}
      BY DEF SInv, UploadPlace, MemoryOK
    <3> QED
      BY <3>1 DEF SInv, UploadPlace, LoaderOK, MemoryOK, LineOK, HostOK, UploadTypeOK
  <2>2. Len(ram) <= SIZE /\ Len(toRom) <= 1 /\ Len(toHost) <= 1
    <3>1. Len(toRom) <= 1 /\ Len(toHost) <= 1 /\ Len(toRom) >= 0
      BY OnWire DEF SInv, BootPlace
    <3>2. Len(ram) \in Nat /\ n \in Int /\ n <= SIZE /\ SIZE \in Int
      BY LenProperties, SessionAssumption DEF SInv, BootPlace
    <3>3. Len(ram) + Len(toRom) <= n
      BY DEF SInv, BootPlace
    <3> QED
      BY <3>1, <3>2, <3>3
  <2>3. Boot!BootTypeOK
    BY <2>2 DEF SInv, BootPlace, RomPlace, Boot!BootTypeOK
  <2> QED
    BY <2>1, <2>3 DEF SInv, TypeOK
<1> QED
  BY <1>1, SessionInvariant, PTL

(* However many bytes are lost or changed, FF included, upload.py complains*)
(* of a byte only if one was, and while FF is not lost, of no more bytes   *)
(* than were.                                                              *)
THEOREM ComplaintsHaveACause == Spec => []ComplaintsAreFaults
<1>1. SInv => ComplaintsAreFaults
  <2> SUFFICES ASSUME SInv PROVE ComplaintsAreFaults
    OBVIOUS
  <2>1. Cardinality(complaints) \in Nat /\ faults \in Int /\ IsFiniteSet(complaints)
    BY ComplaintsFinite, SessionAssumption DEF SInv, BootPlace
  <2>2. ff # "lost" => Cardinality(complaints) <= faults
    BY <2>1 DEF SInv, Counted
  <2>3. complaints # {} => Cardinality(complaints) # 0
    BY <2>1, FS_EmptySet
  <2>4. ff = "lost" => faults >= 1
    BY DEF SInv, RomPlace
  <2> QED
    BY <2>1, <2>2, <2>3, <2>4 DEF ComplaintsAreFaults
<1> QED
  BY <1>1, SessionInvariant, PTL

(* The loader writes no byte to an EEPROM that programs another one.       *)
THEOREM NoWriteIsLost == Spec => NoWriteIsIgnored
<1>1. SInv /\ [SessionNext]_vars => [pc = "sone" /\ pc' = "datapoll" => prog = {}]_vars
  BY DEF SInv, UploadPlace, MemoryOK
<1> QED
  BY <1>1, SessionInvariant, PTL DEF Spec, NoWriteIsIgnored

-----------------------------------------------------------------------------
(* A transfer without complaint.                                           *)

(* As long as upload.py has not complained and the line damaged one byte   *)
(* at most, the bytes whose echo was read are stored as they are in the    *)
(* program; the one on its way is the next of them, and if it is damaged   *)
(* its echo is not the byte that was sent.                                 *)
Sound ==
  /\ \A i \in 1 .. n : i # n \/ ~ awaiting => i <= Len(ram) /\ ram[i] = program[i]
  /\ toRom # <<>> => toRom = <<program[n]>> \/ faults = 1
  /\ toHost # <<>> =>
       /\ n = Len(ram)
       /\ ram[n] = program[n] \/ (faults = 1 /\ toHost # <<program[n]>>)

Clean == complaints = {} /\ faults <= 1 => Sound

LEMMA CleanWriteSync ==
  ASSUME BootPlace, RomPlace, Clean, Boot!WriteSync
  PROVE  Clean'
<1>1. ff = "unsent" /\ toHost' = <<>> /\ UNCHANGED <<program, n, awaiting, complaints, toRom, ram>>
  BY DEF Boot!WriteSync
<1>2. n' = 0 /\ toRom' = <<>>
  BY <1>1 DEF RomPlace, BootPlace
<1>3. \A i \in 1 .. n' : FALSE
  BY <1>2
<1> QED
  BY <1>1, <1>2, <1>3 DEF Clean, Sound

LEMMA CleanWriteByte ==
  ASSUME BootPlace, Sound, Boot!WriteByte
  PROVE  Sound'
<1>1. /\ ~ awaiting /\ n < SIZE /\ n' = n + 1 /\ awaiting' = TRUE
      /\ toRom' = Append(toRom, program[n + 1])
      /\ UNCHANGED <<program, complaints, good, toHost, ram, faults>>
  BY DEF Boot!WriteByte
<1>2. n \in Nat /\ toRom = <<>> /\ toHost = <<>> /\ program[n'] \in Byte
  BY <1>1, ProgramBytes, SessionAssumption DEF BootPlace
<1>3. toRom' = <<program'[n']>> /\ toHost' = <<>>
  BY <1>1, <1>2, AppendToNone
<1>4. \A i \in 1 .. n' : i # n' \/ ~ awaiting' => i <= Len(ram') /\ ram'[i] = program'[i]
  BY <1>1, <1>2 DEF Sound
<1> QED
  BY <1>3, <1>4 DEF Sound

LEMMA CleanReadEcho ==
  ASSUME BootPlace, Clean, Boot!ReadEcho
  PROVE  Clean'
<1> SUFFICES ASSUME complaints' = {}, faults' <= 1
             PROVE  Sound'
  BY DEF Clean
<1>1. /\ awaiting /\ toHost # <<>> /\ awaiting' = FALSE /\ toHost' = Tail(toHost)
      /\ complaints' = IF Head(toHost) # program[n] THEN complaints \cup {n} ELSE complaints
      /\ UNCHANGED <<program, n, good, toRom, ram, faults>>
  BY DEF Boot!ReadEcho
<1>2. complaints = {} /\ Head(toHost) = program[n]
  BY <1>1
<1>3. toHost = <<program[n]>> /\ toHost' = <<>> /\ toRom' = <<>> /\ n \in Nat
  BY <1>1, <1>2, OnWire, SessionAssumption DEF BootPlace
<1>4. Sound /\ n = Len(ram) /\ ram[n] = program[n]
  BY <1>1, <1>2, <1>3 DEF Clean, Sound
<1>5. \A i \in 1 .. n' : i <= Len(ram') /\ ram'[i] = program'[i]
  BY <1>1, <1>3, <1>4 DEF Sound
<1> QED
  BY <1>3, <1>5 DEF Sound

LEMMA CleanRomStore ==
  ASSUME BootPlace, Sound, Boot!RomStore
  PROVE  Sound'
<1>1. /\ toRom # <<>> /\ ram' = Append(ram, Head(toRom))
      /\ toHost' = Append(toHost, Head(toRom)) /\ toRom' = Tail(toRom)
      /\ UNCHANGED <<program, n, awaiting, complaints, good, faults>>
  BY DEF Boot!RomStore
<1>2. /\ Head(toRom) \in Byte /\ toRom = <<Head(toRom)>> /\ toRom' = <<>>
      /\ toHost = <<>> /\ awaiting /\ Len(toRom) = 1 /\ n \in Nat /\ n >= 1
  BY <1>1, OnWire, SessionAssumption DEF BootPlace
<1>3. toHost' = toRom
  BY <1>1, <1>2, AppendToNone
<1>4. /\ ram' \in Seq(Byte) /\ Len(ram') = Len(ram) + 1 /\ Len(ram) \in Nat
      /\ \A i \in 1 .. Len(ram) : ram'[i] = ram[i]
      /\ ram'[Len(ram) + 1] = Head(toRom)
  BY <1>1, <1>2, AppendProperties, LenProperties DEF BootPlace
<1>5. Len(ram) = n - 1
  <2>1. Len(ram) + 1 <= n
    BY <1>2 DEF BootPlace
  <2>2. CASE n = 1
    BY <1>4, <2>1, <2>2
  <2>3. CASE n # 1
    <3>1. n - 1 \in 1 .. n /\ n - 1 # n
      BY <1>2, <2>3
    <3> QED
      BY <1>2, <1>4, <2>1, <3>1 DEF Sound
  <2> QED
    BY <2>2, <2>3
<1>6. n' = Len(ram') /\ ram'[n'] = Head(toRom)
  BY <1>1, <1>2, <1>4, <1>5
<1>7. \A i \in 1 .. n' : i # n' \/ ~ awaiting' => i <= Len(ram') /\ ram'[i] = program'[i]
  BY <1>1, <1>2, <1>4, <1>5 DEF Sound
<1>8. ram'[n'] = program'[n'] \/ (faults' = 1 /\ toHost' # <<program'[n']>>)
  <2>1. CASE toRom = <<program[n]>>
    BY <1>1, <1>6, <2>1
  <2>2. CASE toRom # <<program[n]>>
    BY <1>1, <1>3, <2>2 DEF Sound
  <2> QED
    BY <2>1, <2>2
<1> QED
  BY <1>2, <1>6, <1>7, <1>8 DEF Sound

LEMMA CleanRom ==
  ASSUME BootPlace, Sound, Boot!Rom
  PROVE  Sound'
<1>1. CASE Boot!RomStore
  BY <1>1, CleanRomStore
<1>2. CASE Boot!RomSync \/ Boot!RomAstray
  <2>1. /\ UNCHANGED <<program, n, awaiting, ram, toHost, faults>>
        /\ toRom' = toRom \/ (toRom # <<>> /\ toRom' = Tail(toRom))
    BY <1>2 DEF Boot!RomSync, Boot!RomAstray
  <2>2. toRom # <<>> => Tail(toRom) = <<>>
    BY OnWire DEF BootPlace
  <2> QED
    BY <2>1, <2>2 DEF Sound
<1> QED
  BY <1>1, <1>2 DEF Boot!Rom

LEMMA CleanFault ==
  ASSUME BootPlace, Clean, Boot!Fault
  PROVE  Clean'
<1> SUFFICES ASSUME complaints' = {}, faults' <= 1
             PROVE  Sound'
  BY DEF Clean
<1>1. /\ faults < MaxFaults /\ faults' = faults + 1
      /\ UNCHANGED <<program, n, awaiting, complaints, good, ram>>
      /\ \/ UNCHANGED <<toRom, toHost>>
         \/ toRom # <<>> /\ toHost' = toHost
         \/ /\ toHost # <<>> /\ toRom' = toRom
            /\ \/ toHost' = Tail(toHost)
               \/ \E b \in Change(Head(toHost)) : toHost' = <<b>> \o Tail(toHost)
  BY DEF Boot!Fault, Boot!SyncFault, Boot!ByteFault
<1>2. faults = 0 /\ faults' = 1
  BY <1>1, SessionAssumption DEF BootPlace
<1>3. Sound
  BY <1>1, <1>2 DEF Clean
<1>4. CASE toRom # <<>> /\ toHost' = toHost
  BY <1>1, <1>2, <1>3, <1>4 DEF BootPlace, Sound
<1>5. CASE toHost # <<>> /\ toRom' = toRom
  <2>1. n = Len(ram) /\ ram[n] = program[n] /\ toRom = <<>>
    BY <1>2, <1>3, <1>5 DEF BootPlace, Sound
  <2> QED
    BY <1>1, <1>2, <1>3, <1>5, <2>1 DEF Sound
<1>6. CASE UNCHANGED <<toRom, toHost>>
  BY <1>1, <1>2, <1>3, <1>6 DEF Sound
<1> QED
  BY <1>1, <1>4, <1>5, <1>6

LEMMA CleanNext ==
  ASSUME SInv, Clean, [SessionNext]_vars
  PROVE  Clean'
<1>1. CASE BootHost
  <2>1. CASE Boot!WriteByte
    <3>1. UNCHANGED <<complaints, faults>>
      BY <2>1 DEF Boot!WriteByte
    <3> QED
      BY <2>1, <3>1, CleanWriteByte DEF SInv, Clean
  <2>2. CASE Boot!ReadEcho
    BY <2>2, CleanReadEcho DEF SInv
  <2>3. CASE Boot!ReadTimeout
    BY <2>3 DEF Boot!ReadTimeout, Clean
  <2>4. CASE Boot!AllGood
    BY <2>4 DEF Boot!AllGood, Clean, Sound
  <2>5. CASE Boot!WriteSync
    BY <2>5, CleanWriteSync DEF SInv
  <2> QED
    BY <1>1, <2>1, <2>2, <2>3, <2>4, <2>5 DEF BootHost, Boot!Host
<1>2. CASE BootRom
  <2>1. Boot!Rom /\ UNCHANGED <<complaints, faults>>
    BY <1>2 DEF BootRom, Boot!Rom, Boot!RomSync, Boot!RomStore, Boot!RomAstray
  <2> QED
    BY <2>1, CleanRom DEF SInv, Clean
<1>3. CASE BootFault
  BY <1>3, CleanFault DEF BootFault, SInv
<1>4. CASE RomTakesCharacter
  <2>1. /\ good /\ Len(ram) # SIZE /\ UNCHANGED <<complaints, faults>>
    BY <1>4 DEF RomTakesCharacter, Boot!Left, Boot!Running
  <2>2. n = SIZE /\ ~ awaiting /\ n \in 1 .. n /\ Len(ram) \in Nat /\ Len(ram) <= n
    <3>1. toRom = <<>> /\ Len(toRom) = 0 /\ SIZE \in Nat \ {0} /\ Len(ram) \in Nat
      BY <2>1, SessionAssumption, LenProperties DEF SInv, BootPlace
    <3> QED
      BY <2>1, <3>1 DEF SInv, BootPlace
  <2>3. ~ Sound
    BY <2>1, <2>2 DEF Sound
  <2> QED
    BY <2>1, <2>3 DEF Clean
<1>5. CASE UNCHANGED boot
  BY <1>5 DEF boot, Clean, Sound
<1> QED
  BY <1>1, <1>2, <1>3, <1>4, <1>5
     DEF SessionNext, UploadPy, Rom, SendLine, TakeAnswer, GiveUp, NoAnswer, Load, Deliver,
         EndProgramming, Rest, vars

LEMMA CleanRuns ==
  ASSUME SInv, Clean, faults <= 1, good, complaints = {}
  PROVE  ram = program
<1>1. n = SIZE /\ ~ awaiting /\ toRom = <<>> /\ Len(toRom) = 0
  BY DEF SInv, BootPlace
<1>2. \A i \in 1 .. n : i <= Len(ram) /\ ram[i] = program[i]
  BY <1>1 DEF Clean, Sound
<1>3. ram \in Seq(Byte) /\ program \in Seq(Byte) /\ Len(program) = n /\ n \in Nat \ {0}
      /\ Len(ram) \in Nat
  BY <1>1, ProgramBytes, LenProperties DEF SInv, BootPlace
<1>4. Len(ram) = n
  <2>1. n \in 1 .. n /\ Len(ram) <= n
    BY <1>1, <1>3 DEF SInv, BootPlace
  <2> QED
    BY <1>2, <1>3, <2>1
<1> QED
  BY <1>2, <1>3, <1>4, SeqEqual

LEMMA CleanInit ==
  ASSUME SessionInit
  PROVE  Clean
<1>1. n = 0 /\ toRom = <<>> /\ toHost = <<>>
  BY DEF SessionInit, Boot!Init
<1> QED
  BY <1>1 DEF Clean, Sound

(* One byte lost or damaged, FF included, never goes unseen: when upload.py*)
(* ends the transfer without complaint, and there was one such byte at     *)
(* most, the ROM runs the very program that was sent, whatever the line    *)
(* made of the byte.                                                       *)
(* Two damages may cancel: the echo of a changed byte may be changed back. *)
THEOREM OneDamageIsSeen == Spec => [](faults <= 1 => NoComplaintIsRunning)
<1>1. SInv /\ Clean => (faults <= 1 => NoComplaintIsRunning)
  BY CleanRuns DEF NoComplaintIsRunning
<1> QED
  BY <1>1, CleanInit, CleanNext, SessionInvariant, PTL DEF Spec

(* When one byte at most is lost or damaged, the transfer of the loader    *)
(* without complaint is a loader that runs.                                *)
COROLLARY CleanTransferRuns ==
  ASSUME MaxFaults <= 1
  PROVE  Spec => []NoComplaintIsRunning
<1>1. SInv => faults <= 1
  BY SessionAssumption DEF SInv, BootPlace
<1> QED
  BY <1>1, SessionInvariant, OneDamageIsSeen, PTL
-----------------------------------------------------------------------------
(* One answer for a line.                                                  *)

(* Every answer on its way or shown, and every start of a line that the    *)
(* loader has, or may get, an answer for, is one of a line that was sent.  *)
Places(s) == { i \in 1 .. Len(s) : s[i] = SREC }
Starts(s) == Cardinality(Places(s))
InLine == IF pc \in {"rxdata", "exec", "sone", "datapoll"} THEN 1 ELSE 0
AtHand == IF rdr = SREC THEN 1 ELSE 0
Shown(s) == { i \in DOMAIN s : s[i] # "" }
Sent == Len(shown) + (IF waiting THEN 1 ELSE 0)

Answers == Len(back) + Cardinality(Shown(shown))
Unanswered == InLine + AtHand + Starts(line)

AnswersCounted == Answers + Unanswered <= Sent

(* A ROM that still loads waits for as many bytes as were lost, FF among   *)
(* them, and the first character it can get is the first of a line.        *)
Enough ==
  rom # "astray" =>
    n + (IF ff = "lost" /\ rom = "wait" THEN 1 ELSE 0) <= Len(ram) + Len(toRom) + faults

BytesMissing ==
  /\ Enough
  /\ Len(ram) < SIZE => /\ back = <<>>
                        /\ IF waiting THEN line # <<>> /\ Head(line) = SREC ELSE line = <<>>

OnceEach == faults <= 1 => AnswersCounted /\ BytesMissing

LEMMA StartsNat ==
  ASSUME NEW s \in Seq(Byte)
  PROVE  IsFiniteSet(Places(s)) /\ Starts(s) \in Nat
<1>1. Len(s) \in Nat
  BY LenProperties
<1>2. IsFiniteSet(1 .. Len(s)) /\ Places(s) \subseteq 1 .. Len(s)
  BY <1>1, FS_Interval DEF Places
<1> QED
  BY <1>2, FS_Subset, FS_CardinalityType DEF Starts

LEMMA NoStart == Starts(<<>>) = 0
<1>1. Places(<<>>) = {}
  BY DEF Places
<1> QED
  BY <1>1, FS_EmptySet DEF Starts

(* A line without its first character.                                     *)
LEMMA StartsOfTail ==
  ASSUME NEW s \in Seq(Byte), s # <<>>
  PROVE  Starts(Tail(s)) + (IF Head(s) = SREC THEN 1 ELSE 0) <= Starts(s)
<1>1. /\ Tail(s) \in Seq(Byte) /\ Len(Tail(s)) = Len(s) - 1 /\ Len(s) \in Nat
      /\ \A i \in 1 .. Len(Tail(s)) : Tail(s)[i] = s[i + 1]
  BY HeadTailProperties, LenProperties
<1>2. Head(s) = s[1] /\ Len(s) >= 1
  BY <1>1, EmptySeq
<1> DEFINE T == Places(Tail(s))
           L == Places(s) \ {1}
           f == [i \in T |-> i + 1]
<1>3. IsFiniteSet(L) /\ IsFiniteSet(Places(s)) /\ Cardinality(Places(s)) \in Nat
      /\ Cardinality(T) \in Nat /\ Cardinality(L) \in Nat
  BY <1>1, StartsNat, FS_Subset, FS_CardinalityType DEF Starts
<1>4. f \in Injection(T, L)
  <2>1. ASSUME NEW i \in T PROVE i \in Int /\ i + 1 \in L
    <3>1. i \in 1 .. Len(Tail(s)) /\ Tail(s)[i] = SREC
      BY DEF Places
    <3>2. i + 1 \in 1 .. Len(s) /\ i + 1 # 1
      BY <1>1, <3>1
    <3> QED
      BY <1>1, <3>1, <3>2 DEF Places
  <2>2. f \in [T -> L]
    BY <2>1
  <2>3. DOMAIN f = T /\ \A i, j \in T : f[i] = f[j] => i = j
    BY <2>1
  <2> HIDE DEF f, T, L
  <2> QED
    BY <2>2, <2>3 DEF Injection, IsInjective
<1>5. Cardinality(T) <= Cardinality(L)
  BY <1>3, <1>4, FS_Injection
<1>6. CASE Head(s) = SREC
  <2>1. 1 \in Places(s)
    BY <1>1, <1>2, <1>6 DEF Places
  <2>2. Cardinality(L) = Cardinality(Places(s)) - 1
    BY <1>3, <2>1, FS_RemoveElement
  <2> QED
    BY <1>3, <1>5, <1>6, <2>2 DEF Starts
<1>7. CASE Head(s) # SREC
  <2>1. Cardinality(L) <= Cardinality(Places(s))
    BY <1>3, FS_Subset
  <2> QED
    BY <1>3, <1>5, <1>7, <2>1 DEF Starts
<1> QED
  BY <1>6, <1>7

(* A line after others.                                                    *)
LEMMA StartsOfConcat ==
  ASSUME NEW s \in Seq(Byte), NEW t \in Seq(Byte),
         \A j \in 2 .. Len(t) : t[j] # SREC
  PROVE  Starts(s \o t) <= Starts(s) + 1
<1>1. /\ Len(s \o t) = Len(s) + Len(t) /\ Len(s) \in Nat /\ Len(t) \in Nat
      /\ \A i \in 1 .. Len(s) + Len(t) : (s \o t)[i] = IF i <= Len(s) THEN s[i] ELSE t[i - Len(s)]
  BY ConcatProperties, LenProperties
<1>2. Places(s \o t) \subseteq Places(s) \cup {Len(s) + 1}
  <2> SUFFICES ASSUME NEW i \in 1 .. Len(s) + Len(t), (s \o t)[i] = SREC, i # Len(s) + 1
               PROVE  i \in Places(s)
    BY <1>1 DEF Places
  <2>1. ~ (i > Len(s))
    <3> SUFFICES ASSUME i > Len(s) PROVE FALSE
      OBVIOUS
    <3>1. i - Len(s) \in 2 .. Len(t) /\ ~ (i <= Len(s))
      BY <1>1
    <3> QED
      BY <1>1, <3>1
  <2>2. i \in 1 .. Len(s)
    BY <1>1, <2>1
  <2> QED
    BY <1>1, <2>1, <2>2 DEF Places
<1>3. IsFiniteSet(Places(s)) /\ Cardinality(Places(s)) \in Nat
  BY StartsNat DEF Starts
<1>4. /\ IsFiniteSet(Places(s) \cup {Len(s) + 1})
      /\ Cardinality(Places(s) \cup {Len(s) + 1}) = Cardinality(Places(s)) + 1
  <2>1. Len(s) + 1 \notin Places(s)
    BY <1>1 DEF Places
  <2> QED
    BY <1>3, <2>1, FS_AddElement
<1>5. Cardinality(Places(s \o t)) <= Cardinality(Places(s) \cup {Len(s) + 1})
  BY <1>2, <1>4, FS_Subset
<1>6. Cardinality(Places(s \o t)) \in Nat /\ Cardinality(Places(s) \cup {Len(s) + 1}) \in Nat
  BY <1>2, <1>4, FS_Subset, FS_CardinalityType
<1> QED
  BY <1>3, <1>4, <1>5, <1>6 DEF Starts

LEMMA ShownNat ==
  ASSUME NEW S, NEW s \in Seq(S)
  PROVE  IsFiniteSet(Shown(s)) /\ Cardinality(Shown(s)) \in Nat
<1>1. DOMAIN s = 1 .. Len(s) /\ Len(s) \in Nat
  BY LenProperties
<1>2. IsFiniteSet(1 .. Len(s))
  BY <1>1, FS_Interval
<1>3. Shown(s) \subseteq 1 .. Len(s)
  BY <1>1, Zenon DEF Shown
<1> QED
  BY <1>2, <1>3, FS_Subset, FS_CardinalityType

LEMMA ShownOneMore ==
  ASSUME NEW S, NEW s \in Seq(S), NEW c \in S
  PROVE  /\ Cardinality(Shown(Append(s, c))) <= Cardinality(Shown(s)) + 1
         /\ c = "" => Cardinality(Shown(Append(s, c))) = Cardinality(Shown(s))
         /\ Len(Append(s, c)) = Len(s) + 1 /\ Len(s) \in Nat
<1>1. /\ Append(s, c) \in Seq(S) /\ Len(Append(s, c)) = Len(s) + 1
      /\ \A i \in 1 .. Len(s) : Append(s, c)[i] = s[i]
      /\ Append(s, c)[Len(s) + 1] = c /\ Len(s) \in Nat
  BY AppendProperties, LenProperties
<1>2. DOMAIN Append(s, c) = 1 .. Len(s) + 1 /\ DOMAIN s = 1 .. Len(s)
  BY <1>1, LenProperties
<1>3. ASSUME NEW u, u = Append(s, c)
      PROVE  Shown(u) = IF c = "" THEN Shown(s) ELSE Shown(s) \cup {Len(s) + 1}
  <2>1. /\ DOMAIN u = (DOMAIN s) \cup {Len(s) + 1} /\ u[Len(s) + 1] = c
        /\ \A i \in DOMAIN s : u[i] = s[i]
    BY <1>1, <1>2, <1>3
  <2> QED
    BY <2>1, Zenon DEF Shown
<1>4. Len(s) + 1 \notin Shown(s)
  <2>1. Len(s) + 1 \notin DOMAIN s
    BY <1>1, <1>2
  <2> QED
    BY <2>1, Zenon DEF Shown
<1>5. IsFiniteSet(Shown(s)) /\ Cardinality(Shown(s)) \in Nat
  BY ShownNat
<1>6. Cardinality(Shown(s) \cup {Len(s) + 1}) = Cardinality(Shown(s)) + 1
  BY <1>4, <1>5, FS_AddElement
<1>7. Shown(Append(s, c)) = IF c = "" THEN Shown(s) ELSE Shown(s) \cup {Len(s) + 1}
  BY <1>3
<1>8. c = "" => Cardinality(Shown(Append(s, c))) = Cardinality(Shown(s))
  BY <1>7, Zenon
<1>9. c # "" => Cardinality(Shown(Append(s, c))) = Cardinality(Shown(s)) + 1
  BY <1>6, <1>7, Zenon
<1>10. \A k \in Nat : k <= k + 1 /\ k + 1 <= k + 1
  OBVIOUS
<1> QED
  BY <1>1, <1>5, <1>8, <1>9, <1>10, Zenon
(* The terms of the count are numbers.                                     *)
LEMMA Terms ==
  ASSUME SInv
  PROVE  /\ Len(back) \in Nat /\ back \in Seq(Characters)
         /\ Cardinality(Shown(shown)) \in Nat /\ Starts(line) \in Nat
         /\ InLine \in Nat /\ AtHand \in Nat /\ Len(shown) \in Nat
         /\ line \in Seq(Byte) /\ Len(ram) \in Nat /\ faults \in Nat /\ SIZE \in Nat
         /\ n \in Nat /\ Len(toRom) \in Nat
<1>1. /\ back \in Seq(Characters) /\ line \in Seq(Byte) /\ shown \in Seq(Characters \cup {""})
      /\ ram \in Seq(Byte)
  BY DEF SInv, UploadPlace, LineOK, HostOK, BootPlace
<1>2. Len(back) \in Nat /\ Len(shown) \in Nat /\ Len(ram) \in Nat
  BY <1>1, LenProperties
<1>3. Starts(line) \in Nat /\ Cardinality(Shown(shown)) \in Nat
  BY <1>1, StartsNat, ShownNat
<1>4. InLine \in Nat /\ AtHand \in Nat
  BY DEF InLine, AtHand
<1>5. faults \in Nat /\ SIZE \in Nat /\ n \in Nat /\ Len(toRom) \in Nat
  BY SessionAssumption, OnWire DEF SInv, BootPlace
<1> QED
  BY <1>1, <1>2, <1>3, <1>4, <1>5

LEMMA Counts ==
  ASSUME SInv
  PROVE  /\ Len(back) \in Nat /\ Cardinality(Shown(shown)) \in Nat /\ Starts(line) \in Nat
         /\ InLine \in Nat /\ AtHand \in Nat /\ Len(shown) \in Nat
BY Terms

(* What is counted, as integers alone.                                     *)
LEMMA Amounts ==
  ASSUME SInv
  PROVE  Answers \in Int /\ Unanswered \in Int /\ Sent \in Int
<1>1. Answers \in Int
  BY Terms DEF Answers
<1>2. Unanswered \in Int
  BY Terms DEF Unanswered
<1>3. Sent \in Int
  BY Terms DEF Sent
<1> QED
  BY <1>1, <1>2, <1>3

(* While the loader is sent nothing is counted, and no byte is missed but  *)
(* by a fault.                                                             *)
LEMMA BootCounts ==
  ASSUME SInv, AnswersCounted, BytesMissing, BootHost \/ BootRom \/ BootFault
  PROVE  AnswersCounted' /\ BytesMissing'
<1>1. UNCHANGED <<pc, line, rdr, back, shown, waiting>>
  BY DEF BootHost, BootRom, BootFault, uploading, device, serial
<1>2. AnswersCounted'
  BY <1>1 DEF AnswersCounted, Answers, Unanswered, Starts, InLine, AtHand, Sent
<1>3. /\ Len(ram) \in Nat /\ faults \in Nat /\ n \in Nat /\ SIZE \in Nat /\ Len(toRom) \in Nat
      /\ Enough
  BY Terms DEF BytesMissing
<1>4. Len(ram') \in Nat /\ Len(ram) <= Len(ram') /\ Enough'
  <2>1. CASE BootHost
    <3>1. CASE Boot!WriteSync
      <4>1. /\ ff = "unsent" /\ UNCHANGED <<n, toRom, rom, ram>>
            /\ (ff' = "coming" /\ faults' = faults) \/ faults' = faults + 1
        BY <3>1 DEF Boot!WriteSync
      <4>2. n = 0 /\ toRom = <<>> /\ Len(toRom) = 0
        BY <4>1 DEF SInv, RomPlace, BootPlace
      <4> QED
        BY <1>3, <4>1, <4>2 DEF Enough
    <3>2. CASE Boot!WriteByte
      <4>1. /\ ~ awaiting /\ n < SIZE /\ n' = n + 1 /\ toRom' = Append(toRom, program[n + 1])
            /\ UNCHANGED <<ff, rom, ram, faults>>
        BY <3>2 DEF Boot!WriteByte
      <4>2. toRom = <<>> /\ Len(toRom) = 0 /\ program[n + 1] \in Byte
        BY <1>3, <4>1, ProgramBytes DEF SInv, BootPlace
      <4>3. Len(toRom') = 1
        BY <4>1, <4>2, AppendToNone
      <4> QED
        BY <1>3, <4>1, <4>2, <4>3 DEF Enough
    <3>3. CASE Boot!ReadEcho \/ Boot!ReadTimeout \/ Boot!AllGood
      <4>1. UNCHANGED <<n, ff, toRom, rom, ram, faults>>
        BY <3>3 DEF Boot!ReadEcho, Boot!ReadTimeout, Boot!AllGood
      <4> QED
        BY <1>3, <4>1 DEF Enough
    <3> QED
      BY <2>1, <3>1, <3>2, <3>3 DEF BootHost, Boot!Host
  <2>2. CASE Boot!RomSync \/ Boot!RomAstray
    <3>1. /\ UNCHANGED <<n, ram, faults>>
          /\ \/ rom = "wait" /\ rom' = "load" /\ ff' = "heard" /\ toRom' = toRom
             \/ rom = "wait" /\ ff = "lost" /\ toRom # <<>> /\ toRom' = Tail(toRom)
                /\ rom' \in {"load", "astray"}
             \/ rom' = "astray"
      BY <2>2 DEF Boot!RomSync, Boot!RomAstray, Boot!After
    <3>2. toRom # <<>> => Tail(toRom) = <<>> /\ Len(toRom) = 1
      BY OnWire DEF SInv, BootPlace
    <3>3. Len(toRom) \in Nat /\ Len(<<>>) = 0
      BY Terms
    <3> QED
      BY <1>3, <3>1, <3>2, <3>3 DEF Enough
  <2>3. CASE Boot!RomStore
    <3>1. /\ toRom # <<>> /\ ram' = Append(ram, Head(toRom)) /\ toRom' = Tail(toRom)
          /\ UNCHANGED <<n, ff, rom, faults>>
      BY <2>3 DEF Boot!RomStore
    <3>2. Head(toRom) \in Byte /\ toRom' = <<>> /\ Len(toRom) = 1 /\ ram \in Seq(Byte)
      BY <3>1, OnWire DEF SInv, BootPlace
    <3>3. Len(ram') = Len(ram) + 1 /\ Len(toRom') = 0
      BY <3>1, <3>2, AppendProperties
    <3> QED
      BY <1>3, <3>1, <3>2, <3>3 DEF Enough
  <2>4. CASE BootFault
    <3>1. /\ faults' = faults + 1 /\ UNCHANGED <<n, ram>>
          /\ (ff' = ff /\ rom' = rom) \/ (ff = "coming" /\ toRom' = toRom)
          /\ \/ /\ toRom # <<>>
                /\ \/ toRom' = Tail(toRom)
                   \/ \E b \in Change(Head(toRom)) : toRom' = <<b>> \o Tail(toRom)
             \/ toRom' = toRom
      BY <2>4 DEF BootFault, Boot!Fault, Boot!SyncFault, Boot!ByteFault
    <3>2. Wire(toRom)
      BY DEF SInv, BootPlace
    <3>3. toRom # <<>> => /\ Tail(toRom) = <<>> /\ Len(toRom) = 1
                          /\ \A b \in Change(Head(toRom)) : <<b>> \o Tail(toRom) = <<b>>
      BY <3>2, OnWire, Changed
    <3>4. Len(toRom') \in Nat /\ Len(toRom) \in Nat /\ Len(toRom) <= Len(toRom') + 1
      BY <3>1, <3>2, <3>3, OnWire
    <3> QED
      <4>1. CASE ff' = ff /\ rom' = rom
        BY <1>3, <3>1, <3>4, <4>1 DEF Enough
      <4>2. CASE ff = "coming" /\ toRom' = toRom
        <5>1. rom = "wait"
          BY <4>2 DEF SInv, RomPlace
        <5> QED
          BY <1>3, <3>1, <3>4, <4>2, <5>1 DEF Enough
      <4> QED
        BY <3>1, <4>1, <4>2
  <2> QED
    BY <2>1, <2>2, <2>3, <2>4 DEF BootRom, Boot!Rom
<1>5. Len(ram') < SIZE => Len(ram) < SIZE
  BY <1>3, <1>4
<1>6. BytesMissing'
  BY <1>1, <1>4, <1>5 DEF BytesMissing
<1> QED
  BY <1>2, <1>6

(* The loader runs, or another program does: no byte is missed.            *)
LEMMA NoneMissed ==
  ASSUME SInv, BytesMissing, UNCHANGED boot, ~ (Len(ram) < SIZE)
  PROVE  BytesMissing'
BY DEF BytesMissing, Enough, boot

LEMMA RunningLoader ==
  ASSUME SInv, LoaderRuns
  PROVE  ~ (Len(ram) < SIZE)
<1>1. Len(program) = SIZE /\ SIZE \in Nat
  BY SessionAssumption DEF SInv, BootPlace
<1> QED
  BY <1>1 DEF LoaderRuns
LEMMA SendLineCounts ==
  ASSUME OneStart, SInv, AnswersCounted, BytesMissing, SendLine
  PROVE  AnswersCounted' /\ BytesMissing'
<1>1. /\ ~ waiting /\ Len(shown) + 1 <= Len(file) /\ waiting' = TRUE
      /\ line' = line \o file[Len(shown) + 1].text
      /\ UNCHANGED <<pc, rdr, back, file, shown>> /\ UNCHANGED boot
  BY DEF SendLine, Rest, WriteLine, Current, device
<1> DEFINE t == file[Len(shown) + 1].text
<1>2. /\ file \in Files /\ Len(shown) \in Nat /\ Len(file) \in Nat
      /\ file[Len(shown) + 1].text \in Seq(Byte)
  <2>1. file \in Files /\ Len(shown) \in Nat /\ Len(file) \in Nat
    BY FileLines, Terms DEF SInv, UploadPlace, HostOK
  <2>2. Len(shown) + 1 \in 1 .. Len(file)
    BY <1>1, <2>1
  <2> QED
    BY <2>1, <2>2, FileLines DEF Lines
<1>3. t \in Seq(Byte) /\ t # <<>> /\ t[1] = SREC /\ \A j \in 2 .. Len(t) : t[j] # SREC
  <2>1. Len(shown) + 1 \in 1 .. Len(file)
    BY <1>1, <1>2
  <2> QED
    BY <1>2, <2>1 DEF OneStart, StartsOnce
<1>4. line' = line \o t
  BY <1>1
<1> HIDE DEF t
<1>5. Starts(line') <= Starts(line) + 1 /\ Starts(line') \in Nat
  <2>1. line \in Seq(Byte)
    BY Terms
  <2>2. line' \in Seq(Byte)
    BY <1>3, <1>4, <2>1, ConcatProperties
  <2> QED
    BY <1>3, <1>4, <2>1, <2>2, StartsOfConcat, StartsNat
<1>6. Unanswered' <= Unanswered + 1 /\ Unanswered' \in Int
  <2>1. InLine' = InLine /\ AtHand' = AtHand /\ InLine \in Int /\ AtHand \in Int
        /\ Starts(line) \in Int /\ Starts(line)' = Starts(line')
    BY <1>1, Terms DEF InLine, AtHand, Starts
  <2>2. InLine' + AtHand' = InLine + AtHand /\ InLine + AtHand \in Int
    BY <2>1
  <2> QED
    BY <1>5, <2>1, <2>2 DEF Unanswered
<1>7. Answers' = Answers
  BY <1>1 DEF Answers
<1>8. Sent' = Sent + 1
  BY <1>1, Terms DEF Sent
<1>9. AnswersCounted'
  BY <1>6, <1>7, <1>8, Amounts DEF AnswersCounted
<1>10. ASSUME Len(ram) < SIZE
       PROVE  back' = <<>> /\ line' # <<>> /\ Head(line') = SREC
  <2>1. back = <<>> /\ line = <<>>
    BY <1>1, <1>10 DEF BytesMissing
  <2>2. line' = t
    BY <1>3, <1>4, <2>1, ConcatEmptySeq
  <2>3. Head(t) = t[1]
    BY <1>3
  <2> QED
    BY <1>1, <1>3, <2>1, <2>2, <2>3
<1>11. BytesMissing'
  BY <1>1, <1>10 DEF BytesMissing, Enough, boot
<1> QED
  BY <1>9, <1>11

LEMMA TakeAnswerCounts ==
  ASSUME SInv, AnswersCounted, BytesMissing, TakeAnswer
  PROVE  AnswersCounted' /\ BytesMissing'
<1>1. /\ waiting /\ back # <<>> /\ shown' = Append(shown, Head(back)) /\ back' = Tail(back)
      /\ waiting' = FALSE /\ UNCHANGED <<pc, line, rdr>> /\ UNCHANGED boot
  BY DEF TakeAnswer, Rest, ReadAnswer, device
<1>2. BytesMissing'
  BY <1>1, NoneMissed DEF BytesMissing
<1>3. Len(back') = Len(back) - 1 /\ Head(back) \in Characters
  BY <1>1, Terms, HeadTailProperties
<1>4. /\ Cardinality(Shown(shown')) <= Cardinality(Shown(shown)) + 1
      /\ Len(shown') = Len(shown) + 1
  <2>1. shown \in Seq(Characters \cup {""}) /\ Head(back) \in Characters \cup {""}
    BY <1>3 DEF SInv, UploadPlace, HostOK
  <2> QED
    BY <1>1, <2>1, ShownOneMore
<1>5. Cardinality(Shown(shown')) \in Nat
  <2>1. shown' \in Seq(Characters \cup {""})
    <3>1. shown \in Seq(Characters \cup {""}) /\ Head(back) \in Characters \cup {""}
      BY <1>3 DEF SInv, UploadPlace, HostOK
    <3> QED
      BY <1>1, <3>1, AppendProperties
  <2> QED
    BY <2>1, ShownNat
<1>6. Answers' <= Answers /\ Answers' \in Int
  BY <1>3, <1>4, <1>5, Counts DEF Answers
<1>7. Sent' = Sent
  BY <1>1, <1>4, Terms DEF Sent
<1>8. Unanswered' = Unanswered
  BY <1>1 DEF Unanswered, InLine, AtHand, Starts
<1>9. AnswersCounted'
  BY <1>6, <1>7, <1>8, Amounts DEF AnswersCounted
<1> QED
  BY <1>2, <1>9

(* An answer that does not come.                                           *)
LEMMA TimeoutCounts ==
  ASSUME SInv, AnswersCounted, BytesMissing, GiveUp \/ NoAnswer
  PROVE  AnswersCounted' /\ BytesMissing'
<1>1. /\ waiting /\ shown' = Append(shown, "") /\ waiting' = FALSE
      /\ UNCHANGED <<pc, rdr, back>> /\ UNCHANGED boot
      /\ line' = line \/ line' = <<>>
  BY DEF GiveUp, NoAnswer, Rest, ReadTimeout, device, serial
<1>3. BytesMissing'
  <2>1. CASE GiveUp
    <3>1. ~ (Len(ram) < SIZE)
      BY <2>1, RunningLoader DEF GiveUp
    <3> QED
      BY <1>1, <3>1, NoneMissed
  <2>2. CASE NoAnswer
    <3>1. line' = <<>>
      BY <2>2 DEF NoAnswer
    <3> QED
      BY <1>1, <3>1 DEF BytesMissing, Enough, boot
  <2> QED
    BY <2>1, <2>2
<1>4. /\ Cardinality(Shown(shown')) = Cardinality(Shown(shown))
      /\ Len(shown') = Len(shown) + 1
  <2>1. shown \in Seq(Characters \cup {""}) /\ "" \in Characters \cup {""}
    BY DEF SInv, UploadPlace, HostOK
  <2> QED
    BY <1>1, <2>1, ShownOneMore
<1>5. Starts(line') <= Starts(line) /\ Starts(line') \in Nat
  <2>1. CASE line' = line
    BY <2>1, Counts DEF Starts
  <2>2. CASE line' = <<>>
    <3>1. Starts(line') = 0
      BY <2>2, NoStart DEF Starts
    <3> QED
      BY <3>1, Counts
  <2> QED
    BY <1>1, <2>1, <2>2
<1>6. Answers' = Answers
  BY <1>1, <1>4 DEF Answers
<1>7. Sent' = Sent
  <2>1. (IF waiting THEN 1 ELSE 0) = 1 /\ (IF waiting' THEN 1 ELSE 0) = 0
    BY <1>1
  <2> QED
    BY <1>4, <2>1, Counts DEF Sent
<1>8. Unanswered' <= Unanswered /\ Unanswered' \in Int
  <2>1. InLine' = InLine /\ AtHand' = AtHand /\ InLine + AtHand \in Int
        /\ Starts(line) \in Int /\ Starts(line)' = Starts(line')
    <3>1. InLine' = InLine /\ AtHand' = AtHand
      BY <1>1 DEF InLine, AtHand
    <3>2. Starts(line)' = Starts(line')
      BY DEF Starts
    <3> QED
      BY <3>1, <3>2, Counts
  <2> QED
    BY <1>5, <2>1 DEF Unanswered
<1>9. AnswersCounted'
  BY <1>6, <1>7, <1>8, Amounts DEF AnswersCounted
<1> QED
  BY <1>3, <1>9

(* The byte a ROM still waited for is the 'S' of a line: its echo is the   *)
(* answer to that line, as the rest of it starts no line.                  *)
LEMMA RomTakesCounts ==
  ASSUME SInv, AnswersCounted, BytesMissing, faults <= 1, RomTakesCharacter
  PROVE  AnswersCounted' /\ BytesMissing'
<1>1. /\ good /\ Len(ram) # SIZE /\ rom # "astray" /\ ff # "coming" /\ line # <<>>
      /\ rom = "load" => rom' = rom /\ ram' = Append(ram, Head(line)) /\ back' = Append(back, "echo")
      /\ line' = Tail(line)
      /\ UNCHANGED <<pc, rdr, shown, waiting>>
      /\ UNCHANGED <<n, ff, toRom, faults>>
  BY DEF RomTakesCharacter, Boot!Left, Boot!Running, device
<1>2. n = SIZE /\ toRom = <<>> /\ Len(toRom) = 0 /\ n # 0
  BY <1>1, SessionAssumption DEF SInv, BootPlace
<1>3. Len(ram) <= SIZE /\ SIZE <= Len(ram) + 1 /\ rom = "load"
  <2>1. Len(ram) <= SIZE
    BY <1>2, Terms DEF SInv, BootPlace
  <2>2. CASE rom = "wait"
    <3>1. ff = "lost" /\ ram = <<>> /\ Len(ram) = 0
      BY <1>1, <1>2, <2>2 DEF SInv, RomPlace
    <3> QED
      BY <1>2, <2>2, <3>1, Terms DEF BytesMissing, Enough
  <2>3. CASE rom = "load"
    BY <1>2, <2>1, <2>3, Terms DEF BytesMissing, Enough
  <2> QED
    BY <1>1, <2>1, <2>2, <2>3 DEF SInv, RomPlace
<1>4. ram' = Append(ram, Head(line)) /\ back' = Append(back, "echo") /\ rom' = "load"
  BY <1>1, <1>3
<1>5. Len(ram) < SIZE
  BY <1>1, <1>3, Terms
<1>6. Head(line) = SREC /\ line \in Seq(Byte) /\ ram \in Seq(Byte) /\ Head(line) \in Byte
  BY <1>1, <1>5, Terms, HeadTailProperties DEF BytesMissing, SInv, BootPlace
<1>7. Len(ram') = Len(ram) + 1
  BY <1>4, <1>6, AppendProperties
<1>8. BytesMissing'
  <2>1. Len(ram') = SIZE /\ SIZE \in Int /\ faults \in Nat
    BY <1>3, <1>5, <1>7, Terms
  <2>2. ~ (Len(ram') < SIZE) /\ n' <= Len(ram') + Len(toRom') + faults'
    BY <1>1, <1>2, <2>1
  <2>3. n' + 0 = n'
    BY <1>1, <1>2, <2>1
  <2>4. Enough'
    BY <1>1, <1>4, <2>2, <2>3 DEF Enough
  <2> QED
    BY <2>2, <2>4 DEF BytesMissing
<1>9. Len(back') = Len(back) + 1
  <2>1. "echo" \in Characters
    BY DEF Characters
  <2> QED
    BY <1>4, <2>1, Terms, AppendProperties
<1>10. Starts(line') + 1 <= Starts(line) /\ Starts(line') \in Nat
  <2>1. line' \in Seq(Byte)
    BY <1>1, <1>6, HeadTailProperties
  <2> QED
    BY <1>1, <1>6, <2>1, StartsOfTail, StartsNat
<1>11. Sent' = Sent
  BY <1>1 DEF Sent
<1>12. Answers' = Answers + 1
  BY <1>1, <1>9, Terms DEF Answers
<1>13. Unanswered' + 1 <= Unanswered /\ Unanswered' \in Int
  <2>1. InLine' = InLine /\ AtHand' = AtHand /\ InLine + AtHand \in Int
        /\ Starts(line) \in Int /\ Starts(line)' = Starts(line')
    BY <1>1, Terms DEF InLine, AtHand, Starts
  <2> QED
    BY <1>10, <2>1 DEF Unanswered
<1>14. AnswersCounted'
  BY <1>11, <1>12, <1>13, Amounts DEF AnswersCounted
<1> QED
  BY <1>8, <1>14

(* The loader answers a line it was in, and is in no line after that.      *)
LEMMA LoadCounts ==
  ASSUME SInv, AnswersCounted, BytesMissing, Load
  PROVE  AnswersCounted' /\ BytesMissing'
<1>1. UNCHANGED <<line, shown, waiting>> /\ UNCHANGED boot /\ Loader /\ LoaderRuns
  BY DEF Load, Rest, LoaderStep, Loader, Rxsrec, Rxdata, Exec, Sone, Datapoll, Go
<1>2. BytesMissing'
  BY <1>1, RunningLoader, NoneMissed
<1>3. Sent' = Sent /\ Cardinality(Shown(shown))' = Cardinality(Shown(shown))
      /\ Starts(line)' = Starts(line)
  BY <1>1 DEF Sent, Starts
<1>4. Len(back') + InLine' + AtHand' <= Len(back) + InLine + AtHand
      /\ Len(back') \in Nat /\ InLine' \in Nat /\ AtHand' \in Nat
  <2>1. \A c \in {"!", "*", ">"} : back' = Append(back, c) => Len(back') = Len(back) + 1
    <3>1. \A c \in {"!", "*", ">"} : c \in Characters
      BY DEF Characters
    <3> QED
      BY <3>1, Terms, AppendProperties
  <2>2. CASE Rxsrec
    <3>1. /\ pc = "rxsrec" /\ rdr' = None /\ back' = back
          /\ IF rdr = SREC THEN pc' = "rxdata" ELSE pc' = pc
      BY <2>2 DEF Rxsrec
    <3> QED
      BY <3>1, Terms DEF InLine, AtHand, SREC, None
  <2>3. CASE Rxdata
    <3>1. /\ pc = "rxdata" /\ rdr' = None
          /\ \/ pc' \in {"exec", "rxdata"} /\ back' = back
             \/ pc' = "rxsrec" /\ back' = Append(back, "!")
      BY <2>3 DEF Rxdata, Answer
    <3> QED
      <4>1. InLine = 1 /\ AtHand' = 0 /\ AtHand \in Nat
        BY <3>1, Counts DEF InLine, AtHand, SREC, None
      <4>2. CASE pc' \in {"exec", "rxdata"} /\ back' = back
        <5>1. InLine' = 1
          BY <4>2 DEF InLine
        <5> QED
          BY <4>1, <4>2, <5>1, Counts
      <4>3. CASE pc' = "rxsrec" /\ back' = Append(back, "!")
        <5>1. InLine' = 0 /\ Len(back') = Len(back) + 1
          BY <2>1, <4>3 DEF InLine
        <5> QED
          BY <4>1, <5>1, Counts
      <4> QED
        BY <3>1, <4>2, <4>3
  <2>4. CASE Exec
    <3>1. /\ pc = "exec" /\ rdr' = rdr
          /\ \/ pc' = "sone" /\ back' = back
             \/ pc' = "rxsrec" /\ back' = Append(back, "!")
             \/ pc' = "run" /\ back' = Append(back, ">")
      BY <2>4 DEF Exec, Answer
    <3> QED
      BY <2>1, <3>1, Terms DEF InLine, AtHand
  <2>5. CASE Sone
    <3>1. /\ pc = "sone" /\ rdr' = rdr
          /\ \/ pc' = "datapoll" /\ back' = back
             \/ pc' = "rxsrec" /\ back' = Append(back, "!")
      BY <2>5 DEF Sone, Answer
    <3> QED
      BY <2>1, <3>1, Terms DEF InLine, AtHand
  <2>6. CASE Datapoll
    <3>1. /\ pc = "datapoll" /\ rdr' = rdr
          /\ \/ pc' = "sone" /\ back' = back
             \/ pc' = "rxsrec" /\ back' = Append(back, "*")
      BY <2>6 DEF Datapoll, Answer
    <3> QED
      BY <2>1, <3>1, Terms DEF InLine, AtHand
  <2> QED
    BY <1>1, <2>2, <2>3, <2>4, <2>5, <2>6 DEF Loader
<1>5. Answers' + Unanswered' <= Answers + Unanswered
  <2>1. \A b, i, h, c, s, d, j, k \in Int :
          d + j + k <= b + i + h => (d + c) + (j + k + s) <= (b + c) + (i + h + s)
    OBVIOUS
  <2>2. /\ Len(back) \in Int /\ InLine \in Int /\ AtHand \in Int
        /\ Cardinality(Shown(shown)) \in Int /\ Starts(line) \in Int
        /\ Len(back') \in Int /\ InLine' \in Int /\ AtHand' \in Int
    BY <1>4, Counts
  <2>3. (Len(back') + Cardinality(Shown(shown))) + (InLine' + AtHand' + Starts(line))
          <= (Len(back) + Cardinality(Shown(shown))) + (InLine + AtHand + Starts(line))
    BY <1>4, <2>1, <2>2, Zenon
  <2> QED
    BY <1>3, <2>3 DEF Answers, Unanswered
<1>6. Answers' \in Int /\ Unanswered' \in Int
  BY <1>3, <1>4, Counts DEF Answers, Unanswered
<1>7. AnswersCounted'
  BY <1>3, <1>5, <1>6, Amounts DEF AnswersCounted
<1> QED
  BY <1>2, <1>7

LEMMA DeliverCounts ==
  ASSUME SInv, AnswersCounted, BytesMissing, Deliver
  PROVE  AnswersCounted' /\ BytesMissing'
<1>1. /\ UNCHANGED <<pc, back, shown, waiting>> /\ UNCHANGED boot /\ LoaderRuns
      /\ line # <<>> /\ line' = Tail(line)
      /\ rdr' = IF rdr = None THEN Head(line) ELSE rdr
  BY DEF Deliver, Rest, ArriveStep, Arrive
<1>2. BytesMissing'
  BY <1>1, RunningLoader, NoneMissed
<1>3. Sent' = Sent /\ Answers' = Answers
  BY <1>1 DEF Sent, Answers
<1>4. Starts(line') \in Nat /\ Starts(line') + (IF Head(line) = SREC THEN 1 ELSE 0) <= Starts(line)
  <2>1. line \in Seq(Byte) /\ line' \in Seq(Byte)
    BY <1>1, Terms, HeadTailProperties
  <2> QED
    BY <1>1, <2>1, StartsOfTail, StartsNat
<1>5. AtHand' <= AtHand + (IF Head(line) = SREC THEN 1 ELSE 0) /\ AtHand' \in Nat
  BY <1>1 DEF AtHand
<1>6. InLine' = InLine /\ (IF Head(line) = SREC THEN 1 ELSE 0) \in Nat
  BY <1>1 DEF InLine
<1>7. Unanswered' <= Unanswered /\ Unanswered' \in Int
  <2>1. InLine \in Int /\ AtHand \in Int /\ Starts(line) \in Int /\ Starts(line)' = Starts(line')
    BY Terms DEF Starts
  <2>2. AtHand' + Starts(line') <= AtHand + Starts(line)
    BY <1>4, <1>5, <1>6, <2>1
  <2> QED
    BY <1>4, <1>5, <1>6, <2>1, <2>2 DEF Unanswered
<1>8. AnswersCounted'
  BY <1>3, <1>7, Amounts DEF AnswersCounted
<1> QED
  BY <1>2, <1>8

LEMMA OnceEachNext ==
  ASSUME OneStart, SInv, OnceEach, [SessionNext]_vars
  PROVE  OnceEach'
<1> SUFFICES ASSUME faults' <= 1 PROVE AnswersCounted' /\ BytesMissing'
  BY DEF OnceEach
<1>1. faults <= 1
  <2>1. CASE BootFault \/ Boot!WriteSync
    <3>1. faults' = faults + 1 \/ faults' = faults
      BY <2>1 DEF BootFault, Boot!Fault, Boot!WriteSync
    <3> QED
      BY <3>1, Terms
  <2>2. CASE ~ (BootFault \/ Boot!WriteSync)
    <3>1. faults' = faults
      BY <2>2 DEF SessionNext, UploadPy, Rom, BootHost, BootRom, SendLine, TakeAnswer, GiveUp,
                  NoAnswer, RomTakesCharacter, Load, Deliver, EndProgramming, Rest, boot, vars,
                  Boot!Host, Boot!WriteByte, Boot!ReadEcho, Boot!ReadTimeout, Boot!AllGood, Boot!Rom,
                  Boot!RomSync, Boot!RomStore, Boot!RomAstray
    <3> QED
      BY <3>1
  <2> QED
    BY <2>1, <2>2
<1>2. AnswersCounted /\ BytesMissing
  BY <1>1 DEF OnceEach
<1>3. CASE EndProgramming
  <2>1. UNCHANGED <<pc, line, rdr, back, shown, waiting>> /\ UNCHANGED boot
    BY <1>3 DEF EndProgramming, Rest, ProgrammedStep, Programmed
  <2> QED
    BY <1>2, <2>1 DEF AnswersCounted, Answers, Unanswered, BytesMissing, Enough, Starts, InLine, AtHand, Sent, boot
<1>4. CASE UNCHANGED vars
  <2>1. UNCHANGED <<pc, line, rdr, back, shown, waiting>> /\ UNCHANGED boot
    BY <1>4 DEF vars, uploading, device, serial
  <2> QED
    BY <1>2, <2>1 DEF AnswersCounted, Answers, Unanswered, BytesMissing, Enough, Starts, InLine, AtHand, Sent, boot
<1> QED
  BY <1>1, <1>2, <1>3, <1>4, BootCounts, SendLineCounts, TakeAnswerCounts, TimeoutCounts,
     RomTakesCounts, LoadCounts, DeliverCounts DEF SessionNext, UploadPy, Rom

(* A line gets one answer at most, when one byte at most was lost or       *)
(* damaged while the loader was sent, FF included: also when it comes late,*)
(* when it is refused before its end, and when it is the ROM that answers. *)
(* With two bytes lost the ROM would echo two characters of a line.        *)
THEOREM AnsweredOnce ==
  ASSUME OneStart
  PROVE  Spec => [](faults <= 1 => OneAnswerPerLine)
<1>1. SessionInit => OnceEach
  <2> SUFFICES ASSUME SessionInit PROVE AnswersCounted /\ BytesMissing
    BY DEF OnceEach
  <2>1. /\ pc = "rxsrec" /\ line = <<>> /\ rdr = None /\ back = <<>> /\ shown = <<>>
        /\ waiting = FALSE
    BY DEF SessionInit, Init, DeviceInit
  <2>2. n = 0 /\ ram = <<>> /\ toRom = <<>> /\ faults = 0 /\ ff = "unsent"
    BY DEF SessionInit, Boot!Init
  <2>3. Len(<<>>) = 0
    OBVIOUS
  <2>4. BytesMissing
    BY <2>1, <2>2, <2>3 DEF BytesMissing, Enough
  <2>5. Cardinality(Shown(shown)) = 0
    <3>1. Shown(shown) = {}
      BY <2>1 DEF Shown
    <3> QED
      BY <3>1, FS_EmptySet
  <2>6. InLine = 0 /\ AtHand = 0 /\ Sent = 0
    BY <2>1, <2>3 DEF InLine, AtHand, Sent, None, SREC
  <2>7. AnswersCounted
    BY <2>1, <2>3, <2>5, <2>6, NoStart DEF AnswersCounted, Answers, Unanswered
  <2> QED
    BY <2>4, <2>7
<1>2. SInv /\ OnceEach => (faults <= 1 => OneAnswerPerLine)
  <2> SUFFICES ASSUME SInv, AnswersCounted PROVE OneAnswerPerLine
    BY DEF OnceEach
  <2>1. Answers <= Sent
    <3>1. Unanswered >= 0
      BY Terms DEF Unanswered
    <3> QED
      BY <3>1, Amounts DEF AnswersCounted
  <2> QED
    BY <2>1 DEF OneAnswerPerLine, Answers, Shown, Sent
<1>3. SInv /\ OnceEach /\ [SessionNext]_vars => OnceEach'
  BY OnceEachNext
<1> QED
  BY <1>1, <1>2, <1>3, SessionInvariant, PTL DEF Spec

-----------------------------------------------------------------------------
(***************************************************************************)
(* That upload.py prints what the loader answers, and that the memory      *)
(* holds what was answered, for every loader, file and memory map: the     *)
(* states that upload.py, the line, the loader and the memory can be in    *)
(* together while the file is sent.                                        *)
(***************************************************************************)

(* What is shown for a line, and what the memory holds.                    *)

(* The line that is written, or will be next.                              *)
Now == file[Len(shown) + 1]

(* What is left on the way of a line that was answered starts none.        *)
Quiet == rdr # SREC /\ \A i \in 1 .. Len(line) : line[i] # SREC

(* The memory holds what the lines answered so far say; and the next one.  *)
Settled == \A c \in Targets : mem[c] = ImageAt(c, Len(shown))
NowSettled == \A c \in Targets : mem[c] = ImageAt(c, Len(shown) + 1)

(* What c holds once j bytes of the line are written.                      *)
Upto(c, j) ==
  IF c \in Now.addr .. Now.addr + j - 1 THEN Now.data[c - Now.addr + 1] ELSE ImageAt(c, Len(shown))

(* The characters after the p-th are still to be read.                     *)
Unread(p) ==
  \/ /\ rdr = None
     /\ Len(line) = Len(Now.text) - p
     /\ \A i \in 1 .. Len(line) : line[i] = Now.text[p + i]
  \/ /\ p < Len(Now.text) /\ rdr = Now.text[p + 1]
     /\ Len(line) = Len(Now.text) - (p + 1)
     /\ \A i \in 1 .. Len(line) : line[i] = Now.text[p + 1 + i]

(* Those up to the p-th, but the 'S', are in the buffer.                   *)
Buffered(p) == \A j \in 2 .. p : mem[BUF + j - 2] = Now.text[j]

(* The line is still behind what is left of the one before.                *)
Behind(k) ==
  /\ Len(line) = k + Len(Now.text)
  /\ \A i \in 1 .. k : line[i] # SREC
  /\ \A i \in 1 .. Len(Now.text) : line[k + i] = Now.text[i]

Coming == pc = "rxsrec" /\ rdr # SREC /\ \E k \in 0 .. Len(line) : Behind(k)

Starting == pc = "rxsrec" /\ rdr = SREC /\ Unread(0)

Read == y - BUF + 1

Receiving ==
  pc = "rxdata" /\ Read \in 1 .. Len(Now.text) - 1 /\ Buffered(Read) /\ Unread(Read)

Received ==
  /\ rdr = None /\ line = <<>>
  /\ Len(Now.text) - 2 <= BUFEND - BUF /\ Buffered(Len(Now.text) - 1)

(* j bytes of the line are in memory, and the next one is to be written.   *)
Writing(j) ==
  /\ pc = "sone" /\ y = BUF + 7 + 2 * j
  /\ j < Len(Now.data) => addr = Now.addr + j
  /\ \A c \in Targets : mem[c] = Upto(c, j)

(* The next one is being written.                                          *)
Polling(j) ==
  /\ pc = "datapoll" /\ y = BUF + 9 + 2 * j
  /\ j < Len(Now.data) /\ addr = Now.addr + j /\ a = Now.data[j + 1]
  /\ \A c \in Targets : c # addr => mem[c] = Upto(c, j)

(* As many bytes are still to be written as the count says.                *)
Remaining(j) ==
  /\ j < DataCount(Now.text)
  /\ len = DataCount(Now.text) - j \/ (len = 0 /\ DataCount(Now.text) - j = 256)

Loading ==
  /\ Received /\ Len(Now.text) >= 9 /\ Header(Now.text) /\ Now.text[2] = Data1 /\ DataSaid(Now)
  /\ \E j \in 0 .. Len(Now.data) : Remaining(j) /\ (Writing(j) \/ Polling(j))

(* The line is written, and its answer is not read yet.                    *)
Underway ==
  \/ back = <<>> /\ Settled /\ (Coming \/ Starting \/ Receiving)
  \/ back = <<>> /\ Settled /\ pc = "exec" /\ Received
  \/ back = <<>> /\ Loading
  \/ back = <<Now.answer>> /\ pc \in {"rxsrec", "run"} /\ Quiet /\ NowSettled
  \/ back = <<>> /\ pc = "run"

Between == back = <<>> /\ pc \in {"rxsrec", "run"} /\ Quiet /\ Settled

AsShown == \A i \in DOMAIN shown : shown[i] = file[i].answer

Stage == AsShown /\ IF waiting THEN Underway ELSE Between

InStep == faults <= 1 /\ complaints = {} /\ OnTime => Stage

-----------------------------------------------------------------------------
LEMMA TheLine ==
  ASSUME SInv, FilesSay, waiting \/ Len(shown) + 1 <= Len(file)
  PROVE  /\ Len(shown) \in Nat /\ Len(file) \in Nat /\ Len(shown) + 1 \in 1 .. Len(file)
         /\ Now \in Lines /\ Says(Now)
         /\ Now.text \in Seq(Byte) /\ Len(Now.text) \in Nat
         /\ Now.data \in Seq(Byte) /\ Len(Now.data) \in Nat
         /\ Now.addr \in Address /\ Now.addr \in Nat
         /\ Now.answer \in {"*", "!", ">"}
<1>1. /\ Len(shown) \in Nat /\ Len(file) \in Nat /\ file \in Files
      /\ \A i \in 1 .. Len(file) : file[i] \in Lines
  BY Terms, FileLines DEF SInv, UploadPlace, HostOK
<1>2. Len(shown) + 1 \in 1 .. Len(file)
  <2>1. waiting => Len(shown) < Len(file)
    BY DEF SInv, UploadPlace, HostOK
  <2>2. Len(shown) < Len(file) \/ Len(shown) + 1 <= Len(file)
    BY <2>1
  <2> QED
    BY <1>1, <2>2
<1>3. Now \in Lines /\ Says(Now)
  BY <1>1, <1>2 DEF Now, FilesSay
<1>4. /\ Now.text \in Seq(Byte) /\ Now.data \in Seq(Byte) /\ Now.addr \in Address
      /\ Now.answer \in {"*", "!", ">"}
  BY <1>3 DEF Lines
<1>5. Len(Now.text) \in Nat /\ Len(Now.data) \in Nat
  BY <1>4, LenProperties
<1>6. Now.addr \in Nat
  BY <1>4, AddressRange
<1> QED
  BY <1>1, <1>2, <1>3, <1>4, <1>5, <1>6

(* The next line covers what the lines before it put in memory.            *)
LEMMA ImageOfNext ==
  ASSUME NEW c, Len(shown) \in Nat
  PROVE  ImageAt(c, Len(shown) + 1)
           = IF Covers(Now, c) THEN Now.data[c - Now.addr + 1] ELSE ImageAt(c, Len(shown))
<1> DEFINE m == Len(shown)
           C(k) == {i \in 1 .. k : Covers(file[i], c)}
           Latest(k) == CHOOSE i \in C(k) : \A j \in C(k) : j <= i
<1>1. \A k : ImageAt(c, k)
               = IF C(k) = {} THEN Blank ELSE file[Latest(k)].data[c - file[Latest(k)].addr + 1]
  BY DEF ImageAt
<1>2. CASE ~ Covers(Now, c)
  <2>1. C(m + 1) = C(m)
    BY <1>2 DEF Now
  <2>2. Latest(m + 1) = Latest(m)
    BY <2>1
  <2> HIDE DEF C, Latest
  <2> QED
    BY <1>1, <1>2, <2>1, <2>2
<1>3. CASE Covers(Now, c)
  <2>1. m + 1 \in C(m + 1) /\ \A j \in C(m + 1) : j <= m + 1 /\ j \in Int
    BY <1>3 DEF Now
  <2>2. Latest(m + 1) \in C(m + 1) /\ \A j \in C(m + 1) : j <= Latest(m + 1)
    <3>1. \E i \in C(m + 1) : \A j \in C(m + 1) : j <= i
      BY <2>1
    <3> HIDE DEF C
    <3> QED
      BY <3>1
  <2>3. Latest(m + 1) = m + 1
    <3> HIDE DEF C, Latest
    <3> QED
      BY <2>1, <2>2
  <2>4. C(m + 1) # {}
    BY <2>1
  <2> HIDE DEF C, Latest
  <2> QED
    BY <1>1, <1>3, <2>3, <2>4 DEF Now
<1> QED
  BY <1>2, <1>3

LEMMA UptoAll ==
  ASSUME Len(shown) \in Nat, NEW c
  PROVE  Upto(c, Len(Now.data)) = ImageAt(c, Len(shown) + 1)
BY ImageOfNext DEF Upto, Covers

LEMMA UptoNone ==
  ASSUME Now.addr \in Nat, NEW c
  PROVE  Upto(c, 0) = ImageAt(c, Len(shown))
<1>1. ~ (c \in Now.addr .. Now.addr + 0 - 1)
  OBVIOUS
<1> QED
  BY <1>1, Zenon DEF Upto

LEMMA UptoNext ==
  ASSUME Now.addr \in Nat, NEW c, NEW j \in Nat
  PROVE  Upto(c, j + 1) = IF c = Now.addr + j THEN Now.data[j + 1] ELSE Upto(c, j)
<1>1. c \in Now.addr .. Now.addr + (j + 1) - 1 <=> c \in Now.addr .. Now.addr + j - 1 \/ c = Now.addr + j
  OBVIOUS
<1>2. c = Now.addr + j => c - Now.addr + 1 = j + 1 /\ ~ (c \in Now.addr .. Now.addr + j - 1)
  OBVIOUS
<1> QED
  BY <1>1, <1>2 DEF Upto

-----------------------------------------------------------------------------
(* Steps that leave a part of it as it is.                                 *)

LEMMA LineStays ==
  ASSUME UNCHANGED <<file, shown>>
  PROVE  Now' = Now /\ Len(shown)' = Len(shown) /\ (AsShown => AsShown')
BY DEF Now, AsShown

LEMMA UptoStays ==
  ASSUME UNCHANGED <<file, shown>>, NEW c, NEW j
  PROVE  Upto(c, j)' = Upto(c, j)
<1>1. ImageAt(c, Len(shown))' = ImageAt(c, Len(shown))
  BY DEF ImageAt, Covers
<1> QED
  BY <1>1, LineStays DEF Upto

LEMMA SettledStays ==
  ASSUME UNCHANGED <<file, shown>>, \A c \in Targets : mem'[c] = mem[c]
  PROVE  (Settled => Settled') /\ (NowSettled => NowSettled')
<1>1. \A c, m : ImageAt(c, m)' = ImageAt(c, m)
  BY DEF ImageAt, Covers
<1> QED
  BY <1>1 DEF Settled, NowSettled

(* What no byte of data has changed.                                       *)
LEMMA SettledWithout ==
  ASSUME SInv, FilesSay, waiting, Settled, Now.data = <<>>
  PROVE  NowSettled
<1>1. Len(shown) \in Nat /\ Now.addr \in Nat /\ Len(Now.data) = 0
  BY TheLine
<1>2. \A c : ImageAt(c, Len(shown) + 1) = ImageAt(c, Len(shown))
  BY <1>1, UptoAll, UptoNone
<1> QED
  BY <1>2 DEF Settled, NowSettled

LEMMA TailOfLine ==
  ASSUME SInv, line # <<>>, line' = Tail(line)
  PROVE  /\ Len(line) \in Nat \ {0} /\ Len(line') = Len(line) - 1
         /\ \A i \in 1 .. Len(line') : line'[i] = line[i + 1]
         /\ Head(line) = line[1]
<1>1. line \in Seq(Byte)
  BY DEF SInv, UploadPlace, LineOK
<1>2. Len(line) \in Nat /\ Len(line) # 0
  BY <1>1, LenProperties, EmptySeq
<1> QED
  BY <1>1, <1>2, HeadTailProperties

(* A character that is not 'S' is taken off what is left.                  *)
LEMMA QuietTail ==
  ASSUME SInv, Quiet, line # <<>>, line' = Tail(line),
         rdr' = IF rdr = None THEN Head(line) ELSE rdr
  PROVE  Quiet'
<1>1. /\ Len(line) \in Nat \ {0} /\ Len(line') = Len(line) - 1
      /\ \A i \in 1 .. Len(line') : line'[i] = line[i + 1]
      /\ Head(line) = line[1]
  BY TailOfLine
<1>2. \A i \in 1 .. Len(line') : i + 1 \in 1 .. Len(line)
  BY <1>1
<1>3. 1 \in 1 .. Len(line)
  BY <1>1
<1> QED
  BY <1>1, <1>2, <1>3 DEF Quiet

LEMMA NoneIsNoCharacter == None # SREC /\ None \notin Byte
BY DEF None, SREC, Byte

-----------------------------------------------------------------------------
LEMMA SendLineStage ==
  ASSUME SInv, FilesSay, Stage, SendLine
  PROVE  Stage'
<1>1. /\ waiting = FALSE /\ Len(shown) + 1 <= Len(file) /\ waiting' = TRUE
      /\ line' = line \o Now.text
      /\ UNCHANGED <<pc, mem, rdr, back, file, shown>>
  BY DEF SendLine, WriteLine, Current, Now, device, SInv, UploadPlace, HostOK
<1>2. back = <<>> /\ pc \in {"rxsrec", "run"} /\ Quiet /\ Settled /\ AsShown
  BY <1>1 DEF Stage, Between
<1>3. Now' = Now /\ AsShown' /\ Settled'
  BY <1>1, <1>2, LineStays, SettledStays
<1>4. CASE pc = "run"
  <2>1. Underway'
    BY <1>1, <1>2, <1>4 DEF Underway
  <2> QED
    BY <1>1, <1>3, <2>1 DEF Stage
<1>5. CASE pc = "rxsrec"
  <2>1. line \in Seq(Byte) /\ Len(line) \in Nat /\ Now.text \in Seq(Byte) /\ Len(Now.text) \in Nat
    BY <1>1, TheLine, LenProperties DEF SInv, UploadPlace, LineOK
  <2>2. /\ Len(line') = Len(line) + Len(Now.text)
        /\ \A i \in 1 .. Len(line) + Len(Now.text) :
             line'[i] = IF i <= Len(line) THEN line[i] ELSE Now.text[i - Len(line)]
    BY <1>1, <2>1, ConcatProperties
  <2>3. \A i \in 1 .. Len(line) : line'[i] # SREC
    <3>1. \A i \in 1 .. Len(line) : i \in 1 .. Len(line) + Len(Now.text) /\ i <= Len(line)
      BY <2>1
    <3> QED
      BY <1>2, <2>2, <3>1 DEF Quiet
  <2>4. \A i \in 1 .. Len(Now.text) : line'[Len(line) + i] = Now.text[i]
    <3>1. \A i \in 1 .. Len(Now.text) : /\ Len(line) + i \in 1 .. Len(line) + Len(Now.text)
                                        /\ ~ (Len(line) + i <= Len(line))
                                        /\ Len(line) + i - Len(line) = i
      BY <2>1
    <3> QED
      BY <2>2, <3>1
  <2>5. PICK k \in 0 .. Len(line') : k = Len(line)
    BY <2>1, <2>2
  <2>6. Behind(k)'
    BY <1>3, <2>2, <2>3, <2>4, <2>5 DEF Behind
  <2>7. Coming'
    BY <1>1, <1>2, <1>5, <2>5, <2>6 DEF Coming, Quiet
  <2>8. Underway'
    BY <1>1, <1>2, <1>3, <2>7 DEF Underway
  <2> QED
    BY <1>1, <1>3, <2>8 DEF Stage
<1> QED
  BY <1>2, <1>4, <1>5

(* A character reaches the receiver.                                       *)
LEMMA DeliverStage ==
  ASSUME SInv, FilesSay, Stage, Deliver
  PROVE  Stage'
<1>1. /\ line # <<>> /\ line' = Tail(line)
      /\ rdr = None \/ pc \notin {"rxsrec", "rxdata"}
      /\ pc # "run"
      /\ rdr' = IF rdr = None THEN Head(line) ELSE rdr
      /\ UNCHANGED <<pc, y, a, len, addr, mem, back, file, waiting, shown>>
  BY DEF Deliver, ArriveStep, Arrive
<1>2. Now' = Now /\ (AsShown => AsShown') /\ (Settled => Settled') /\ (NowSettled => NowSettled')
  BY <1>1, LineStays, SettledStays
<1>3. Quiet => Quiet'
  BY <1>1, QuietTail
<1>4. /\ Len(line) \in Nat \ {0} /\ Len(line') = Len(line) - 1
      /\ \A i \in 1 .. Len(line') : line'[i] = line[i + 1]
      /\ Head(line) = line[1]
  BY <1>1, TailOfLine
<1>5. CASE waiting = FALSE
  BY <1>1, <1>2, <1>3, <1>5 DEF Stage, Between
<1>6. CASE waiting = TRUE
  <2>1. Underway /\ AsShown
    BY <1>6 DEF Stage
  <2> SUFFICES Underway'
    BY <1>1, <1>2, <1>6, <2>1 DEF Stage
  <2>2. Len(Now.text) \in Nat /\ Now.text \in Seq(Byte) /\ StartsOnce(Now.text)
    BY <1>6, TheLine DEF Says
  <2>3. CASE back = <<>> /\ Settled /\ Coming
    <3>1. rdr = None /\ pc = "rxsrec"
      BY <1>1, <2>3 DEF Coming
    <3>2. PICK k \in 0 .. Len(line) : Behind(k)
      BY <2>3 DEF Coming
    <3>3. CASE k = 0
      <4>1. /\ Len(line) = Len(Now.text) /\ \A i \in 1 .. Len(Now.text) : line[i] = Now.text[i]
        BY <2>2, <3>2, <3>3 DEF Behind
      <4>2. rdr' = Now.text[1] /\ rdr' = SREC
        BY <1>1, <1>4, <2>2, <3>1, <4>1 DEF StartsOnce
      <4>3. /\ 0 < Len(Now.text) /\ Len(line') = Len(Now.text) - (0 + 1) /\ rdr' = Now.text[0 + 1]
            /\ \A i \in 1 .. Len(line') : line'[i] = Now.text[0 + 1 + i]
        <5>1. \A i \in 1 .. Len(line') : i + 1 \in 1 .. Len(Now.text) /\ 0 + 1 + i = i + 1
          BY <1>4, <4>1
        <5>2. \A i \in 1 .. Len(line') : line'[i] = Now.text[0 + 1 + i]
          BY <1>4, <4>1, <5>1
        <5>3. 0 < Len(Now.text) /\ Len(line') = Len(Now.text) - (0 + 1)
          BY <1>4, <2>2, <4>1
        <5>4. rdr' = Now.text[0 + 1]
          <6>1. 0 + 1 = 1
            OBVIOUS
          <6> QED
            BY <4>2, <6>1
        <5> QED
          BY <5>2, <5>3, <5>4
      <4>4. Unread(0)'
        BY <1>2, <4>2, <4>3 DEF Unread
      <4>5. Starting'
        BY <1>1, <3>1, <4>2, <4>4 DEF Starting
      <4> QED
        BY <1>1, <1>2, <2>3, <4>5 DEF Underway
    <3>4. CASE k # 0
      <4>1. k - 1 \in 0 .. Len(line') /\ 1 \in 1 .. k
        BY <1>4, <3>4
      <4>2. rdr' # SREC
        BY <1>1, <1>4, <3>1, <3>2, <4>1 DEF Behind
      <4>3. Behind(k - 1)'
        <5>1. Len(line') = (k - 1) + Len(Now.text)
          BY <1>4, <2>2, <3>2 DEF Behind
        <5>2. ASSUME NEW i \in 1 .. k - 1 PROVE line'[i] # SREC
          <6>1. i \in 1 .. Len(line') /\ i + 1 \in 1 .. k
            BY <2>2, <5>1
          <6> QED
            BY <1>4, <3>2, <6>1 DEF Behind
        <5>3. ASSUME NEW i \in 1 .. Len(Now.text) PROVE line'[k - 1 + i] = Now.text[i]
          <6>1. k - 1 + i \in 1 .. Len(line') /\ k - 1 + i + 1 = k + i
            BY <2>2, <3>4, <5>1
          <6>2. line'[k - 1 + i] = line[k + i]
            BY <1>4, <6>1
          <6> QED
            BY <3>2, <6>2 DEF Behind
        <5> QED
          BY <1>2, <5>1, <5>2, <5>3 DEF Behind
      <4>4. Coming'
        BY <1>1, <3>1, <4>1, <4>2, <4>3 DEF Coming
      <4> QED
        BY <1>1, <1>2, <2>3, <4>4 DEF Underway
    <3> QED
      BY <3>3, <3>4
  <2>4. CASE back = <<>> /\ Settled /\ Starting
    BY <1>1, <2>4, NoneIsNoCharacter DEF Starting
  <2>5. CASE back = <<>> /\ Settled /\ Receiving
    <3>1. rdr = None /\ pc = "rxdata" /\ Read \in 1 .. Len(Now.text) - 1 /\ Buffered(Read) /\ Unread(Read)
      BY <1>1, <2>5 DEF Receiving
    <3>2. PICK p \in 1 .. Len(Now.text) - 1 : p = Read
      BY <3>1
    <3>3. Len(line) = Len(Now.text) - p /\ \A i \in 1 .. Len(line) : line[i] = Now.text[p + i]
      <4>1. p + 1 \in 1 .. Len(Now.text)
        BY <2>2
      <4>2. Now.text[p + 1] # None
        BY <2>2, <4>1, NoneIsNoCharacter, ElementOfSeq
      <4> QED
        BY <3>1, <3>2, <4>2 DEF Unread
    <3>4. /\ p < Len(Now.text) /\ rdr' = Now.text[p + 1]
          /\ Len(line') = Len(Now.text) - (p + 1)
      <4>1. 1 \in 1 .. Len(line)
        BY <1>4
      <4> QED
        BY <1>1, <1>4, <2>2, <3>1, <3>3, <4>1
    <3>5. ASSUME NEW i \in 1 .. Len(line') PROVE line'[i] = Now.text[p + 1 + i]
      <4>1. i + 1 \in 1 .. Len(line) /\ p + (i + 1) = p + 1 + i
        BY <1>4
      <4> QED
        BY <1>4, <3>3, <4>1
    <3>6. Unread(p)'
      BY <1>2, <3>4, <3>5 DEF Unread
    <3>7. Buffered(p)'
      BY <1>1, <1>2, <3>1, <3>2 DEF Buffered
    <3>8. Read' = p
      BY <1>1, <3>2 DEF Read
    <3>9. Receiving'
      BY <1>1, <1>2, <3>1, <3>6, <3>7, <3>8 DEF Receiving, Unread, Buffered
    <3> QED
      BY <1>1, <1>2, <2>5, <3>9 DEF Underway
  <2>6. CASE back = <<>> /\ (Received \/ Loading)
    BY <1>1, <2>6 DEF Received, Loading
  <2>7. CASE back = <<Now.answer>> /\ pc \in {"rxsrec", "run"} /\ Quiet /\ NowSettled
    BY <1>1, <1>2, <1>3, <2>7 DEF Underway
  <2> QED
    BY <1>1, <2>1, <2>3, <2>4, <2>5, <2>6, <2>7 DEF Underway
<1> QED
  BY <1>5, <1>6 DEF SInv, UploadPlace, HostOK

-----------------------------------------------------------------------------
(* The loader.                                                             *)

LEMMA RxsrecStage ==
  ASSUME SInv, FilesSay, Stage, Load, Rxsrec
  PROVE  Stage'
<1>1. /\ pc = "rxsrec" /\ rdr # None /\ rdr' = None
      /\ IF rdr = SREC THEN pc' = "rxdata" /\ y' = BUF ELSE UNCHANGED <<pc, y>>
      /\ UNCHANGED <<a, len, addr, mem, line, back, file, waiting, shown>>
  BY DEF Load, LoaderStep, Rxsrec
<1>2. Now' = Now /\ (AsShown => AsShown') /\ (Settled => Settled') /\ (NowSettled => NowSettled')
  BY <1>1, LineStays, SettledStays
<1>3. Quiet => Quiet' /\ pc' = pc
  BY <1>1, NoneIsNoCharacter DEF Quiet
<1>4. CASE waiting = FALSE
  BY <1>1, <1>2, <1>3, <1>4 DEF Stage, Between
<1>5. CASE waiting = TRUE
  <2>1. Underway /\ AsShown
    BY <1>5 DEF Stage
  <2> SUFFICES Underway'
    BY <1>1, <1>2, <1>5, <2>1 DEF Stage
  <2>2. CASE back = <<>> /\ Settled /\ Coming
    <3>1. pc' = pc /\ rdr' # SREC
      BY <1>1, <2>2, NoneIsNoCharacter DEF Coming
    <3>2. Coming'
      BY <1>1, <1>2, <2>2, <3>1 DEF Coming, Behind
    <3> QED
      BY <1>1, <1>2, <2>2, <3>2 DEF Underway
  <2>3. CASE back = <<>> /\ Settled /\ Starting
    <3>1. /\ Len(Now.text) \in Nat /\ Len(Now.text) >= 2
      <4>1. Len(Now.text) \in Nat /\ (Len(Now.text) - 2 > BUFEND - BUF \/ Len(Now.text) >= 9)
        BY <1>5, TheLine DEF Says
      <4> QED
        BY <4>1, MapRange
    <3>2. pc' = "rxdata" /\ y' = BUF /\ rdr # None
      BY <1>1, <2>3 DEF Starting
    <3>3. Len(line) = Len(Now.text) - 1 /\ \A i \in 1 .. Len(line) : line[i] = Now.text[1 + i]
      <4>1. Unread(0)
        BY <2>3 DEF Starting
      <4>2. /\ Len(line) = Len(Now.text) - (0 + 1)
            /\ \A i \in 1 .. Len(line) : line[i] = Now.text[0 + 1 + i]
        BY <3>2, <4>1 DEF Unread
      <4> QED
        BY <4>2
    <3>4. Read' = 1
      BY <3>2, MapRange DEF Read
    <3>5. Unread(1)'
      BY <1>1, <1>2, <3>3 DEF Unread
    <3>6. Buffered(1)'
      BY DEF Buffered
    <3>7. 1 \in 1 .. Len(Now.text) - 1
      BY <3>1
    <3>8. Receiving'
      BY <1>2, <3>2, <3>4, <3>5, <3>6, <3>7 DEF Receiving, Unread, Buffered
    <3> QED
      BY <1>1, <1>2, <2>3, <3>8 DEF Underway
  <2>4. CASE back = <<>> /\ (Receiving \/ Loading)
    BY <1>1, <2>4 DEF Receiving, Loading, Writing, Polling
  <2>5. CASE back = <<Now.answer>> /\ pc \in {"rxsrec", "run"} /\ Quiet /\ NowSettled
    BY <1>1, <1>2, <1>3, <2>5 DEF Underway
  <2> QED
    BY <1>1, <2>1, <2>2, <2>3, <2>4, <2>5 DEF Underway
<1> QED
  BY <1>4, <1>5 DEF SInv, UploadPlace, HostOK

(* A character goes to the buffer, ends the line, or does not fit.         *)
LEMMA RxdataStage ==
  ASSUME SInv, FilesSay, Stage, Load, Rxdata
  PROVE  Stage'
<1>1. /\ pc = "rxdata" /\ rdr # None /\ rdr' = None
      /\ UNCHANGED <<a, len, addr, line, file, waiting, shown>>
  BY DEF Load, LoaderStep, Rxdata
<1>2. \/ rdr = LF /\ pc' = "exec" /\ UNCHANGED <<y, mem, back>>
      \/ rdr # LF /\ y = BUFEND /\ back' = Append(back, "!") /\ pc' = "rxsrec" /\ UNCHANGED <<y, mem>>
      \/ rdr # LF /\ y # BUFEND /\ mem' = [mem EXCEPT ![y] = rdr] /\ y' = y + 1 /\ UNCHANGED <<pc, back>>
  BY DEF Load, LoaderStep, Rxdata, Answer
<1>3. waiting = TRUE /\ Underway /\ AsShown
  BY <1>1 DEF Stage, Between, SInv, UploadPlace, HostOK
<1>4. back = <<>> /\ Settled /\ Receiving
  BY <1>1, <1>3 DEF Underway, Coming, Starting, Loading, Writing, Polling
<1>5. /\ Now.text \in Seq(Byte) /\ Len(Now.text) \in Nat /\ Says(Now)
      /\ StartsOnce(Now.text) /\ \A j \in 1 .. Len(Now.text) : Now.text[j] = LF <=> j = Len(Now.text)
  BY <1>3, TheLine DEF Says
<1>6. PICK p \in 1 .. Len(Now.text) - 1 : p = Read
  BY <1>4 DEF Receiving
<1>7. y \in BUF .. BUFEND /\ y = BUF + p - 1 /\ BUF \in Nat /\ BUFEND \in Nat /\ p \in Nat
  <2>1. y \in BUF .. BUFEND
    BY <1>1 DEF SInv, UploadPlace, LoaderOK
  <2> QED
    BY <1>5, <1>6, <2>1, MapRange DEF Read
<1>8. /\ p + 1 \in 1 .. Len(Now.text) /\ rdr = Now.text[p + 1]
      /\ Len(line) = Len(Now.text) - (p + 1) /\ \A i \in 1 .. Len(line) : line[i] = Now.text[p + 1 + i]
  BY <1>1, <1>4, <1>5, <1>6 DEF Receiving, Unread
<1>9. Buffered(p)
  BY <1>4, <1>6 DEF Receiving
<1>10. Now' = Now /\ AsShown'
  BY <1>1, <1>3, LineStays
<1>11. \A c \in Targets : mem'[c] = mem[c]
  <2>1. CASE mem' = mem
    BY <2>1
  <2>2. CASE mem' = [mem EXCEPT ![y] = rdr] /\ y # BUFEND
    <3>1. \A c \in Targets : c # y
      BY <1>7, <2>2, MapRange, MapAssumption
    <3>2. Targets \subseteq DOMAIN mem
      BY DEF SInv, UploadPlace, MemoryOK
    <3> QED
      BY <2>2, <3>1, <3>2
  <2> QED
    BY <1>2, <2>1, <2>2
<1>12. Settled'
  BY <1>1, <1>4, <1>11, SettledStays
<1> SUFFICES Underway'
  BY <1>1, <1>3, <1>10 DEF Stage
<1>13. CASE rdr = LF /\ pc' = "exec" /\ UNCHANGED <<y, mem, back>>
  <2>1. p + 1 = Len(Now.text)
    BY <1>5, <1>8, <1>13
  <2>2. line = <<>>
    <3>1. line \in Seq(Byte) /\ Len(line) = 0
      BY <1>5, <1>8, <2>1 DEF SInv, UploadPlace, LineOK
    <3> QED
      BY <3>1, EmptySeq
  <2>3. Len(Now.text) - 2 <= BUFEND - BUF
    BY <1>5, <1>7, <2>1
  <2>4. p = Len(Now.text) - 1
    BY <1>5, <1>7, <2>1
  <2>5. Buffered(p)'
    BY <1>9, <1>10, <1>13 DEF Buffered
  <2>6. Received'
    BY <1>1, <1>10, <2>2, <2>3, <2>4, <2>5 DEF Received, Buffered
  <2> QED
    BY <1>4, <1>12, <1>13, <2>6 DEF Underway
<1>14. CASE /\ rdr # LF /\ y = BUFEND
            /\ back' = Append(back, "!") /\ pc' = "rxsrec" /\ UNCHANGED <<y, mem>>
  <2>1. p + 1 # Len(Now.text)
    BY <1>5, <1>8, <1>14
  <2>2. Len(Now.text) - 2 > BUFEND - BUF
    BY <1>5, <1>7, <1>8, <1>14, <2>1
  <2>3. Now.answer = "!" /\ Now.data = <<>>
    <3>1. ~ (Len(Now.text) - 2 <= BUFEND - BUF)
      BY <1>5, <1>7, <2>2
    <3> QED
      BY <1>5, <3>1 DEF Says
  <2>4. NowSettled'
    BY <1>1, <1>3, <1>4, <1>11, <2>3, SettledWithout, SettledStays
  <2>5. Quiet'
    <3>1. ASSUME NEW i \in 1 .. Len(line) PROVE line[i] # SREC
      <4>1. p + 1 + i \in 2 .. Len(Now.text)
        BY <1>5, <1>7, <1>8
      <4> QED
        BY <1>5, <1>8, <4>1 DEF StartsOnce
    <3> QED
      BY <1>1, <3>1, NoneIsNoCharacter DEF Quiet
  <2>6. back' = <<"!">>
    BY <1>4, <1>14
  <2> QED
    BY <1>10, <1>14, <2>3, <2>4, <2>5, <2>6 DEF Underway
<1>15. CASE /\ rdr # LF /\ y # BUFEND
            /\ mem' = [mem EXCEPT ![y] = rdr] /\ y' = y + 1 /\ UNCHANGED <<pc, back>>
  <2>1. p + 1 \in 1 .. Len(Now.text) - 1
    BY <1>5, <1>7, <1>8, <1>15
  <2>2. Read' = p + 1
    BY <1>7, <1>15 DEF Read
  <2>3. y \in DOMAIN mem
    BY <1>7, <1>15, MapRange DEF SInv, UploadPlace, MemoryOK
  <2>4. Buffered(p + 1)'
    <3> SUFFICES ASSUME NEW j \in 2 .. p + 1 PROVE mem'[BUF + j - 2] = Now.text[j]
      BY <1>10 DEF Buffered
    <3>1. CASE j = p + 1
      <4>1. BUF + j - 2 = y
        BY <1>7, <3>1
      <4> QED
        BY <1>8, <1>15, <2>3, <3>1, <4>1
    <3>2. CASE j # p + 1
      <4>1. j \in 2 .. p /\ BUF + j - 2 # y
        BY <1>7, <3>2
      <4> QED
        BY <1>9, <1>15, <4>1 DEF Buffered
    <3> QED
      BY <3>1, <3>2
  <2>5. Unread(p + 1)'
    BY <1>1, <1>8, <1>10 DEF Unread
  <2>6. Receiving'
    BY <1>1, <1>10, <1>15, <2>1, <2>2, <2>4, <2>5 DEF Receiving, Unread, Buffered
  <2> QED
    BY <1>4, <1>12, <1>15, <2>6 DEF Underway
<1> QED
  BY <1>2, <1>13, <1>14, <1>15

-----------------------------------------------------------------------------
(* What the loader decodes from its buffer is what the text says.          *)

LEMMA PairRead ==
  ASSUME SInv, FilesSay, waiting, Received, NEW i \in Nat, 1 <= i, 2 * i + 2 < Len(Now.text)
  PROVE  Pair(BUF + 2 * i - 1) = RecordByte(Now.text, i)
<1>1. Len(Now.text) \in Nat /\ BUF \in Nat /\ BUFEND \in Nat /\ Len(Now.text) - 2 <= BUFEND - BUF
  BY TheLine, MapRange DEF Received
<1>2. /\ 2 * i + 1 \in 2 .. Len(Now.text) - 1 /\ 2 * i + 2 \in 2 .. Len(Now.text) - 1
      /\ BUF + (2 * i + 1) - 2 = BUF + 2 * i - 1
      /\ BUF + (2 * i + 2) - 2 = BUF + 2 * i - 1 + 1
  BY <1>1
<1>3. mem[BUF + 2 * i - 1] = Now.text[2 * i + 1] /\ mem[BUF + 2 * i - 1 + 1] = Now.text[2 * i + 2]
  <2>1. \A j \in 2 .. Len(Now.text) - 1 : mem[BUF + j - 2] = Now.text[j]
    BY DEF Received, Buffered
  <2>2. /\ mem[BUF + (2 * i + 1) - 2] = Now.text[2 * i + 1]
        /\ mem[BUF + (2 * i + 2) - 2] = Now.text[2 * i + 2]
    BY <1>2, <2>1
  <2> QED
    BY <1>2, <2>2
<1>4. BUF + 2 * i - 1 \in Buffer /\ BUF + 2 * i - 1 + 1 \in Buffer
  <2>1. /\ BUF + 2 * i - 1 \in Int /\ BUF <= BUF + 2 * i - 1
        /\ BUF + 2 * i - 1 + 1 < BUFEND
    BY <1>1
  <2> DEFINE z == BUF + 2 * i - 1
  <2>2. z \in Int /\ BUF <= z /\ z + 1 < BUFEND
    BY <2>1
  <2> HIDE DEF z
  <2>3. z \in Buffer /\ z + 1 \in Buffer
    BY <1>1, <2>2, MapRange
  <2> QED
    BY <2>3 DEF z
<1>5. Buffer \subseteq DOMAIN mem
  BY DEF SInv, UploadPlace, MemoryOK
<1> QED
  BY <1>3, <1>4, <1>5 DEF Pair, At, RecordByte

LEMMA HeaderRead ==
  ASSUME SInv, FilesSay, waiting, Received, Len(Now.text) >= 9
  PROVE  /\ At(BUF) = Now.text[2]
         /\ Pair(BUF + 1) = RecordByte(Now.text, 1)
         /\ Pair(BUF + 3) = RecordByte(Now.text, 2)
         /\ Pair(BUF + 5) = RecordByte(Now.text, 3)
<1>1. Len(Now.text) \in Nat /\ BUF \in Nat
  BY TheLine, MapRange
<1>2. Pair(BUF + 2 * 1 - 1) = RecordByte(Now.text, 1)
  <2>1. 2 * 1 + 2 < Len(Now.text)
    BY <1>1
  <2> QED
    BY <2>1, PairRead
<1>3. Pair(BUF + 2 * 2 - 1) = RecordByte(Now.text, 2)
  <2>1. 2 * 2 + 2 < Len(Now.text)
    BY <1>1
  <2> QED
    BY <2>1, PairRead
<1>4. Pair(BUF + 2 * 3 - 1) = RecordByte(Now.text, 3)
  <2>1. 2 * 3 + 2 < Len(Now.text)
    BY <1>1
  <2> QED
    BY <2>1, PairRead
<1>5. BUF + 2 * 1 - 1 = BUF + 1 /\ BUF + 2 * 2 - 1 = BUF + 3 /\ BUF + 2 * 3 - 1 = BUF + 5
  BY <1>1
<1>6. At(BUF) = Now.text[2]
  <2>1. 2 \in 2 .. Len(Now.text) - 1 /\ BUF + 2 - 2 = BUF
    BY <1>1
  <2>2. mem[BUF + 2 - 2] = Now.text[2]
    BY <2>1 DEF Received, Buffered
  <2>3. BUF \in Buffer
    BY MapRange
  <2>4. BUF \in DOMAIN mem
    BY <2>3 DEF SInv, UploadPlace, MemoryOK
  <2> QED
    BY <2>1, <2>2, <2>4 DEF At
<1> QED
  BY <1>2, <1>3, <1>4, <1>5, <1>6

(* The count says at least one byte.                                       *)
LEMMA CountRange ==
  ASSUME SInv, FilesSay, waiting, Received, Len(Now.text) >= 9, Header(Now.text)
  PROVE  /\ RecordByte(Now.text, 1) \in Byte
         /\ DataCount(Now.text) \in 1 .. 256
         /\ \/ DataCount(Now.text) = 256 /\ (RecordByte(Now.text, 1) + 256 - 3) % 256 = 0
            \/ DataCount(Now.text) = (RecordByte(Now.text, 1) + 256 - 3) % 256
<1>1. RecordByte(Now.text, 1) \in Byte
  <2>1. Pair(BUF + 1) = RecordByte(Now.text, 1)
    BY HeaderRead
  <2>2. RecordByte(Now.text, 1) # Bad
    BY DEF Header
  <2> QED
    BY <2>1, <2>2, PairByte DEF SInv, UploadPlace
<1>2. \A b \in Nat : b <= 255 =>
        /\ b = 3 => (b + 256 - 3) % 256 = 0
        /\ b # 3 => (b + 253) % 256 \in 1 .. 256 /\ (b + 253) % 256 = (b + 256 - 3) % 256
  OBVIOUS
<1>3. \A b \in Byte : b \in Nat /\ b <= 255
  BY DEF Byte
<1> DEFINE b1 == RecordByte(Now.text, 1)
<1>4. DataCount(Now.text) = IF b1 = 3 THEN 256 ELSE (b1 + 253) % 256
  BY DEF DataCount
<1>5. b1 \in Nat /\ b1 <= 255
  BY <1>1, <1>3
<1> HIDE DEF b1
<1>6. /\ DataCount(Now.text) \in 1 .. 256
      /\ \/ DataCount(Now.text) = 256 /\ (b1 + 256 - 3) % 256 = 0
         \/ DataCount(Now.text) = (b1 + 256 - 3) % 256
  <2>1. CASE b1 = 3
    BY <1>4, <2>1
  <2>2. CASE b1 # 3
    BY <1>2, <1>4, <1>5, <2>2
  <2> QED
    BY <2>1, <2>2
<1> QED
  BY <1>1, <1>6 DEF b1

(* The length of the line, while its bytes are decoded.                    *)
LEMMA TextIsLong ==
  ASSUME SInv, FilesSay, waiting, Loading, NEW j \in 0 .. Len(Now.data), j < DataCount(Now.text)
  PROVE  /\ 2 * (4 + j) + 2 < Len(Now.text)
         /\ j = Len(Now.data) => Now.answer = "!" /\ RecordByte(Now.text, 4 + j) = Bad
<1>1. Len(Now.data) \in Nat /\ Len(Now.text) \in Nat /\ DataCount(Now.text) \in 1 .. 256
  BY TheLine, CountRange DEF Loading
<1>2. \/ /\ Now.answer = "*" /\ Len(Now.data) = DataCount(Now.text)
         /\ 2 * Len(Now.data) + 8 < Len(Now.text)
      \/ /\ Now.answer = "!" /\ 2 * Len(Now.data) + 10 < Len(Now.text)
         /\ RecordByte(Now.text, 4 + Len(Now.data)) = Bad
  BY DEF Loading, DataSaid
<1> QED
  BY <1>1, <1>2

(* Nothing is left of the line: none starts.                               *)
LEMMA ReceivedIsQuiet ==
  ASSUME Received
  PROVE  Quiet
BY NoneIsNoCharacter DEF Received, Quiet

(* The line is complete: it is refused, it starts the program, or its data *)
(* are to be written.                                                      *)
LEMMA ExecStage ==
  ASSUME SInv, FilesSay, Stage, Load, Exec
  PROVE  Stage'
<1> DEFINE count == Pair(BUF + 1)
           hi    == Pair(BUF + 3)
           lo    == Pair(BUF + 5)
           ok    == Bad \notin {count, hi, lo} /\ At(BUF) \in {Data1, End9}
<1>1. /\ pc = "exec"
      /\ UNCHANGED <<a, mem, prog, line, rdr, file, waiting, shown>>
      /\ \/ ~ ok /\ pc' = "rxsrec" /\ back' = Append(back, "!") /\ UNCHANGED <<y, len, addr>>
         \/ /\ ok
            /\ len' = (count + 256 - 3) % 256 /\ addr' = 256 * hi + lo /\ y' = BUF + 7
            /\ \/ At(BUF) = Data1 /\ pc' = "sone" /\ back' = back
               \/ At(BUF) # Data1 /\ pc' = "run" /\ back' = Append(back, ">")
  BY DEF Load, LoaderStep, Exec, Answer
<1>2. waiting = TRUE /\ Underway /\ AsShown
  BY <1>1 DEF Stage, Between, SInv, UploadPlace, HostOK
<1>3. back = <<>> /\ Settled /\ Received
  BY <1>1, <1>2 DEF Underway, Coming, Starting, Receiving, Loading, Writing, Polling
<1>4. Says(Now) /\ Len(Now.text) \in Nat /\ Len(Now.data) \in Nat /\ Now.addr \in Nat
  BY <1>2, TheLine
<1>5. /\ Len(Now.text) >= 9
      /\ \/ ~ Header(Now.text) /\ Now.answer = "!" /\ Now.data = <<>>
         \/ /\ Header(Now.text) /\ Now.text[2] = End9 /\ Now.answer = ">" /\ Now.data = <<>>
         \/ /\ Header(Now.text) /\ Now.text[2] = Data1
            /\ Now.addr = AddressOf(Now.text) /\ DataSaid(Now)
  <2>1. ~ (Len(Now.text) - 2 > BUFEND - BUF)
    BY <1>3, <1>4, MapRange DEF Received
  <2> QED
    BY <1>4, <2>1 DEF Says
<1>6. /\ At(BUF) = Now.text[2] /\ count = RecordByte(Now.text, 1)
      /\ hi = RecordByte(Now.text, 2) /\ lo = RecordByte(Now.text, 3)
  BY <1>2, <1>3, <1>5, HeaderRead
<1>7. ok <=> Header(Now.text)
  BY <1>6 DEF Header
<1>8. Now' = Now /\ AsShown' /\ (Settled' /\ (NowSettled => NowSettled'))
  BY <1>1, <1>2, <1>3, LineStays, SettledStays
<1>9. Received' /\ Quiet'
  <2>1. Received'
    BY <1>1, <1>3, <1>8 DEF Received, Buffered
  <2>2. Quiet
    BY <1>3, ReceivedIsQuiet
  <2> QED
    BY <1>1, <2>1, <2>2 DEF Quiet
<1> SUFFICES Underway'
  BY <1>1, <1>2, <1>8 DEF Stage
<1>10. Now.data = <<>> => NowSettled'
  BY <1>2, <1>3, <1>8, SettledWithout
<1>11. CASE ~ Header(Now.text)
  <2>1. back' = <<Now.answer>> /\ pc' = "rxsrec"
    BY <1>1, <1>3, <1>5, <1>7, <1>11
  <2> QED
    BY <1>5, <1>8, <1>9, <1>10, <1>11, <2>1 DEF Underway
<1>12. CASE Header(Now.text) /\ Now.text[2] = End9 /\ Now.answer = ">" /\ Now.data = <<>>
  <2>1. At(BUF) # Data1
    BY <1>6, <1>12 DEF Data1, End9
  <2>2. back' = <<Now.answer>> /\ pc' = "run"
    BY <1>1, <1>3, <1>7, <1>12, <2>1
  <2> QED
    BY <1>8, <1>9, <1>10, <1>12, <2>2 DEF Underway
<1>13. CASE Header(Now.text) /\ Now.text[2] = Data1 /\ Now.addr = AddressOf(Now.text) /\ DataSaid(Now)
  <2>1. /\ pc' = "sone" /\ back' = <<>> /\ y' = BUF + 7
        /\ len' = (count + 256 - 3) % 256 /\ addr' = 256 * hi + lo
    BY <1>1, <1>3, <1>6, <1>7, <1>13
  <2> HIDE DEF count, hi, lo, ok
  <2>2. addr' = Now.addr
    BY <1>6, <1>13, <2>1 DEF AddressOf
  <2>3. \A c \in Targets : mem'[c] = Upto(c, 0)'
    BY <1>1, <1>3, <1>4, UptoNone, UptoStays DEF Settled
  <2>4. BUF + 7 = BUF + 7 + 2 * 0 /\ Now.addr = Now.addr + 0
    BY <1>4, MapRange
  <2>5. Writing(0)'
    BY <1>8, <2>1, <2>2, <2>3, <2>4 DEF Writing
  <2>6. Remaining(0)'
    <3>1. /\ DataCount(Now.text) \in 1 .. 256
          /\ \/ DataCount(Now.text) = 256 /\ len' = 0
             \/ DataCount(Now.text) = len'
      BY <1>2, <1>3, <1>5, <1>6, <1>13, <2>1, CountRange
    <3>2. /\ 0 < DataCount(Now.text)
          /\ len' = DataCount(Now.text) - 0 \/ (len' = 0 /\ DataCount(Now.text) - 0 = 256)
      BY <3>1
    <3> QED
      BY <1>8, <3>2 DEF Remaining
  <2>7. 0 \in 0 .. Len(Now.data)
    BY <1>4
  <2>8. Loading'
    BY <1>5, <1>8, <1>9, <1>13, <2>5, <2>6, <2>7 DEF Loading
  <2> QED
    BY <2>1, <2>8 DEF Underway
<1> QED
  BY <1>5, <1>11, <1>12, <1>13

-----------------------------------------------------------------------------
(* The bytes of a data record.                                             *)

LEMMA ReceivedStays ==
  ASSUME SInv, FilesSay, waiting, Received,
         UNCHANGED <<file, shown, rdr, line>>, \A c \in Buffer : mem'[c] = mem[c]
  PROVE  Received'
<1>1. Len(Now.text) \in Nat /\ BUF \in Nat /\ BUFEND \in Nat /\ Len(Now.text) - 2 <= BUFEND - BUF
  BY TheLine, MapRange DEF Received
<1>2. ASSUME NEW j \in 2 .. Len(Now.text) - 1
      PROVE  mem'[BUF + j - 2] = Now.text[j]
  <2>1. BUF + j - 2 \in Buffer
    <3>1. BUF + j - 2 \in Int /\ BUF <= BUF + j - 2 /\ BUF + j - 2 < BUFEND
      BY <1>1
    <3> QED
      BY <3>1, MapRange
  <2> QED
    BY <2>1 DEF Received, Buffered
<1>3. Now' = Now
  BY LineStays
<1> QED
  BY <1>2, <1>3 DEF Received, Buffered

LEMMA LoadingLine ==
  ASSUME SInv, FilesSay, Stage, pc \in {"sone", "datapoll"}
  PROVE  /\ waiting = TRUE /\ AsShown /\ back = <<>> /\ Loading
         /\ Len(Now.data) \in Nat /\ Now.data \in Seq(Byte) /\ Now.addr \in Nat
         /\ DataCount(Now.text) \in 1 .. 256
         /\ \A k \in 1 .. Len(Now.data) : Now.addr + k - 1 \in Address \ Buffer
<1>1. waiting = TRUE /\ Underway /\ AsShown
  BY DEF Stage, Between, SInv, UploadPlace, HostOK
<1>2. back = <<>> /\ Loading
  BY <1>1 DEF Underway, Coming, Starting, Receiving
<1> QED
  BY <1>1, <1>2, TheLine, CountRange DEF Loading, DataSaid

LEMMA SoneStage ==
  ASSUME SInv, FilesSay, Stage, Load, Sone
  PROVE  Stage'
<1>1. /\ pc = "sone"
      /\ UNCHANGED <<len, addr, line, rdr, file, waiting, shown>>
      /\ \/ Pair(y) = Bad /\ pc' = "rxsrec" /\ back' = Append(back, "!") /\ UNCHANGED <<a, y, mem, prog>>
         \/ /\ Pair(y) # Bad /\ pc' = "datapoll" /\ a' = Pair(y) /\ y' = y + 2
            /\ Write(addr, Pair(y)) /\ back' = back
  BY DEF Load, LoaderStep, Sone, Answer
<1>2. /\ waiting = TRUE /\ AsShown /\ back = <<>> /\ Loading
      /\ Len(Now.data) \in Nat /\ Now.data \in Seq(Byte) /\ Now.addr \in Nat
      /\ \A k \in 1 .. Len(Now.data) : Now.addr + k - 1 \in Address \ Buffer
  BY <1>1, LoadingLine
<1>3. PICK j \in 0 .. Len(Now.data) : Remaining(j) /\ Writing(j)
  BY <1>1, <1>2 DEF Loading, Polling
<1>4. j \in Nat /\ j <= Len(Now.data) /\ BUF \in Nat
  BY <1>2, <1>3, MapRange
<1>5. /\ 2 * (4 + j) + 2 < Len(Now.text)
      /\ j = Len(Now.data) => Now.answer = "!" /\ RecordByte(Now.text, 4 + j) = Bad
  BY <1>2, <1>3, TextIsLong DEF Remaining
<1>6. Pair(y) = RecordByte(Now.text, 4 + j)
  <2>1. 4 + j \in Nat /\ 1 <= 4 + j /\ BUF + 2 * (4 + j) - 1 = BUF + 7 + 2 * j
    BY <1>4
  <2>2. Pair(BUF + 2 * (4 + j) - 1) = RecordByte(Now.text, 4 + j)
    BY <1>2, <1>5, <2>1, PairRead DEF Loading
  <2> QED
    BY <1>3, <2>1, <2>2 DEF Writing
<1>7. Now' = Now /\ AsShown'
  BY <1>1, <1>2, LineStays
<1> SUFFICES Underway'
  BY <1>1, <1>2, <1>7 DEF Stage
<1>8. CASE j = Len(Now.data)
  <2>1. pc' = "rxsrec" /\ back' = <<Now.answer>> /\ mem' = mem
    BY <1>1, <1>2, <1>5, <1>6, <1>8
  <2>2. NowSettled
    <3>1. Len(shown) \in Nat
      BY <1>2, TheLine
    <3> QED
      BY <1>3, <1>8, <3>1, UptoAll DEF Writing, NowSettled
  <2>3. NowSettled'
    BY <1>1, <2>1, <2>2, SettledStays
  <2>4. Quiet'
    <3>1. Quiet
      BY <1>2, ReceivedIsQuiet DEF Loading
    <3> QED
      BY <1>1, <3>1 DEF Quiet
  <2> QED
    BY <1>7, <2>1, <2>3, <2>4 DEF Underway
<1>9. CASE j # Len(Now.data)
  <2>1. j + 1 \in 1 .. Len(Now.data) /\ j < Len(Now.data)
    BY <1>2, <1>4, <1>9
  <2>2. Pair(y) = Now.data[j + 1] /\ Pair(y) \in Byte /\ Pair(y) # Bad
    <3>1. Now.data[j + 1] = RecordByte(Now.text, 3 + (j + 1))
      BY <1>2, <2>1 DEF Loading, DataSaid
    <3>2. 3 + (j + 1) = 4 + j
      BY <1>4
    <3>3. Now.data[j + 1] \in Byte
      BY <1>2, <2>1, ElementOfSeq
    <3> QED
      BY <1>6, <3>1, <3>2, <3>3, MapRange
  <2>3. addr = Now.addr + j /\ addr \notin Buffer
    <3>1. Now.addr + (j + 1) - 1 = Now.addr + j
      BY <1>2, <1>4
    <3>2. Now.addr + (j + 1) - 1 \notin Buffer
      BY <1>2, <2>1
    <3> QED
      BY <1>3, <2>1, <3>1, <3>2 DEF Writing
  <2>4. \A c \in Buffer \cup Targets : c # addr => mem'[c] = mem[c]
    <3>1. mem \in [Buffer \cup Targets -> Byte]
      BY DEF SInv, UploadPlace, MemoryOK
    <3>2. mem' = mem \/ mem' = [mem EXCEPT ![addr] = Pair(y)]
      BY <1>1, <2>2 DEF Write
    <3>3. CASE mem' = mem
      BY <3>3
    <3>4. CASE mem' = [mem EXCEPT ![addr] = Pair(y)]
      BY <3>1, <3>4
    <3> QED
      BY <3>2, <3>3, <3>4
  <2>5. Received'
    BY <1>1, <1>2, <2>3, <2>4, ReceivedStays DEF Loading
  <2>6. Remaining(j)'
    BY <1>1, <1>3, <1>7 DEF Remaining
  <2>7. y' = BUF + 9 + 2 * j
    <3>1. y = BUF + 7 + 2 * j
      BY <1>3 DEF Writing
    <3> QED
      BY <1>1, <1>4, <2>2, <3>1
  <2>8. \A c \in Targets : c # addr' => mem'[c] = Upto(c, j)'
    <3>1. \A c : Upto(c, j)' = Upto(c, j)
      BY <1>1, UptoStays
    <3> QED
      BY <1>1, <1>3, <2>4, <3>1 DEF Writing
  <2>9. pc' = "datapoll" /\ a' = Now.data[j + 1] /\ back' = <<>>
    BY <1>1, <1>2, <2>2
  <2>10. Polling(j)'
    BY <1>1, <1>7, <2>1, <2>3, <2>7, <2>8, <2>9 DEF Polling
  <2>11. Loading'
    BY <1>2, <1>3, <1>7, <2>5, <2>6, <2>10 DEF Loading
  <2> QED
    BY <2>9, <2>11 DEF Underway
<1> QED
  BY <1>8, <1>9

(* The byte reads back: the next one, or the answer.                       *)
LEMMA DatapollStage ==
  ASSUME SInv, FilesSay, Stage, Load, Datapoll
  PROVE  Stage'
<1>1. /\ pc = "datapoll" /\ ReadsBack(addr, a)
      /\ addr' = (addr + 1) % 65536 /\ len' = (len + 255) % 256
      /\ UNCHANGED <<y, a, mem, prog, line, rdr, file, waiting, shown>>
      /\ \/ len' # 0 /\ pc' = "sone" /\ back' = back
         \/ len' = 0 /\ pc' = "rxsrec" /\ back' = Append(back, "*")
  BY DEF Load, LoaderStep, Datapoll, Answer
<1>2. /\ waiting = TRUE /\ AsShown /\ back = <<>> /\ Loading
      /\ Len(Now.data) \in Nat /\ Now.data \in Seq(Byte) /\ Now.addr \in Nat
      /\ DataCount(Now.text) \in 1 .. 256
      /\ \A k \in 1 .. Len(Now.data) : Now.addr + k - 1 \in Address \ Buffer
  BY <1>1, LoadingLine
<1>3. PICK j \in 0 .. Len(Now.data) : Remaining(j) /\ Polling(j)
  BY <1>1, <1>2 DEF Loading, Writing
<1>4. /\ j \in Nat /\ j < Len(Now.data) /\ BUF \in Nat
      /\ addr = Now.addr + j /\ a = Now.data[j + 1] /\ y = BUF + 9 + 2 * j
  BY <1>2, <1>3, MapRange DEF Polling
<1>5. Now' = Now /\ AsShown'
  BY <1>1, <1>2, LineStays
<1>6. \A c \in Targets : mem[c] = Upto(c, j + 1)
  <2> SUFFICES ASSUME NEW c \in Targets PROVE mem[c] = Upto(c, j + 1)
    OBVIOUS
  <2>1. Upto(c, j + 1) = IF c = Now.addr + j THEN Now.data[j + 1] ELSE Upto(c, j)
    BY <1>2, <1>4, UptoNext
  <2>2. CASE c = addr
    <3>1. c \in DOMAIN mem
      BY DEF SInv, UploadPlace, MemoryOK
    <3> QED
      BY <1>1, <1>4, <2>1, <2>2, <3>1 DEF ReadsBack, At
  <2>3. CASE c # addr
    BY <1>3, <1>4, <2>1, <2>3 DEF Polling
  <2> QED
    BY <2>2, <2>3
<1>7. /\ len' # 0 => /\ j + 1 < DataCount(Now.text)
                     /\ len' = DataCount(Now.text) - (j + 1)
      /\ len' = 0 => j + 1 = DataCount(Now.text)
  <2>1. \A l, d \in Nat : /\ l <= 255 /\ j < d /\ d <= 256
                          /\ l = d - j \/ (l = 0 /\ d - j = 256)
           => /\ (l + 255) % 256 # 0 => j + 1 < d /\ (l + 255) % 256 = d - (j + 1)
              /\ (l + 255) % 256 = 0 => j + 1 = d
    <3> SUFFICES ASSUME NEW l \in Nat, NEW d \in Nat, l <= 255, j < d, d <= 256,
                        l = d - j \/ (l = 0 /\ d - j = 256)
                 PROVE  /\ (l + 255) % 256 # 0 => j + 1 < d /\ (l + 255) % 256 = d - (j + 1)
                        /\ (l + 255) % 256 = 0 => j + 1 = d
      OBVIOUS
    <3>1. (l + 255) % 256 = IF l = 0 THEN 255 ELSE l - 1
      OBVIOUS
    <3> QED
      BY <1>4, <3>1
  <2>2. len \in Nat /\ len <= 255
    BY DEF SInv, UploadPlace, LoaderOK, Byte
  <2>3. DataCount(Now.text) \in Nat /\ DataCount(Now.text) <= 256
    <3>1. \A d \in 1 .. 256 : d \in Nat /\ d <= 256
      OBVIOUS
    <3> QED
      BY <1>2, <3>1
  <2>4. /\ j < DataCount(Now.text)
        /\ len = DataCount(Now.text) - j \/ (len = 0 /\ DataCount(Now.text) - j = 256)
    BY <1>3 DEF Remaining
  <2> QED
    BY <1>1, <2>1, <2>2, <2>3, <2>4
<1> SUFFICES Underway'
  BY <1>1, <1>2, <1>5 DEF Stage
<1>8. CASE len' # 0
  <2>1. pc' = "sone" /\ back' = <<>>
    BY <1>1, <1>2, <1>8
  <2>2. j + 1 \in 0 .. Len(Now.data)
    BY <1>2, <1>4
  <2>3. Remaining(j + 1)'
    BY <1>5, <1>7, <1>8 DEF Remaining
  <2>4. j + 1 < Len(Now.data) => addr' = Now.addr + (j + 1)
    <3> SUFFICES ASSUME j + 1 < Len(Now.data) PROVE addr' = Now.addr + (j + 1)
      OBVIOUS
    <3>1. Now.addr + (j + 2) - 1 \in Address
      <4>1. j + 2 \in 1 .. Len(Now.data)
        BY <1>2, <1>4
      <4> QED
        BY <1>2, <4>1
    <3>2. Now.addr + (j + 2) - 1 <= 65535
      BY <3>1, AddressRange DEF LastAddress
    <3> DEFINE x == Now.addr + j
    <3>3. x \in Nat /\ x + 1 <= 65535 /\ Now.addr + (j + 1) = x + 1
      BY <1>2, <1>4, <3>2
    <3>4. addr' = (x + 1) % 65536
      BY <1>1, <1>4
    <3> HIDE DEF x
    <3>5. (x + 1) % 65536 = x + 1
      BY <3>3
    <3> QED
      BY <3>3, <3>4, <3>5
  <2>5. y' = BUF + 7 + 2 * (j + 1)
    <3>1. BUF + 9 + 2 * j = BUF + 7 + 2 * (j + 1)
      BY <1>4
    <3> QED
      BY <1>1, <1>4, <3>1
  <2>6. \A c \in Targets : mem'[c] = Upto(c, j + 1)'
    BY <1>1, <1>6, UptoStays
  <2>7. Writing(j + 1)'
    BY <1>5, <2>1, <2>4, <2>5, <2>6 DEF Writing
  <2>8. Received'
    BY <1>1, <1>2, ReceivedStays DEF Loading
  <2>9. Loading'
    BY <1>2, <1>5, <2>2, <2>3, <2>7, <2>8 DEF Loading
  <2> QED
    BY <2>1, <2>9 DEF Underway
<1>9. CASE len' = 0
  <2>1. j + 1 = Len(Now.data) /\ Now.answer = "*"
    <3>1. \/ Now.answer = "*" /\ Len(Now.data) = DataCount(Now.text)
          \/ Len(Now.data) < DataCount(Now.text)
      BY <1>2 DEF Loading, DataSaid
    <3>2. j + 1 = DataCount(Now.text)
      BY <1>7, <1>9
    <3> QED
      BY <1>2, <1>4, <3>1, <3>2
  <2>2. pc' = "rxsrec" /\ back' = <<Now.answer>>
    BY <1>1, <1>2, <1>9, <2>1
  <2>3. NowSettled'
    <3>1. Len(shown) \in Nat
      BY <1>2, TheLine
    <3>2. NowSettled
      BY <1>6, <2>1, <3>1, UptoAll DEF NowSettled
    <3> QED
      BY <1>1, <3>2, SettledStays
  <2>4. Quiet'
    <3>1. Quiet
      BY <1>2, ReceivedIsQuiet DEF Loading
    <3> QED
      BY <1>1, <3>1 DEF Quiet
  <2> QED
    BY <1>5, <2>2, <2>3, <2>4 DEF Underway
<1> QED
  BY <1>8, <1>9

(* The EEPROM ends the byte that is polled.                                *)
LEMMA ProgrammedStage ==
  ASSUME SInv, FilesSay, Stage, EndProgramming
  PROVE  Stage'
<1>1. PICK w \in prog : mem' = [mem EXCEPT ![w.cell] = w.val]
  BY DEF EndProgramming, ProgrammedStep, Programmed
<1>2. UNCHANGED <<pc, y, a, len, addr, line, rdr, back, file, waiting, shown>>
  BY DEF EndProgramming, ProgrammedStep, Programmed
<1>3. pc = "datapoll" /\ addr \in Targets /\ w.cell = addr /\ mem \in [Buffer \cup Targets -> Byte]
  BY <1>1 DEF SInv, UploadPlace, MemoryOK
<1>4. /\ waiting = TRUE /\ AsShown /\ back = <<>> /\ Loading
  BY <1>3, LoadingLine
<1>5. \A c \in Buffer \cup Targets : c # addr => mem'[c] = mem[c]
  BY <1>1, <1>3
<1>6. addr \notin Buffer
  BY <1>3, MapAssumption
<1>7. Now' = Now /\ AsShown'
  BY <1>2, <1>4, LineStays
<1>8. PICK j \in 0 .. Len(Now.data) : Remaining(j) /\ Polling(j)
  BY <1>3, <1>4 DEF Loading, Writing
<1>9. Remaining(j)'
  BY <1>2, <1>7, <1>8 DEF Remaining
<1>10. Polling(j)'
  <2>1. \A c : Upto(c, j)' = Upto(c, j)
    BY <1>2, UptoStays
  <2> QED
    BY <1>2, <1>5, <1>7, <1>8, <2>1 DEF Polling
<1>11. Received'
  BY <1>2, <1>4, <1>5, <1>6, ReceivedStays DEF Loading
<1>12. Loading'
  BY <1>4, <1>7, <1>8, <1>9, <1>10, <1>11 DEF Loading
<1> QED
  BY <1>2, <1>4, <1>7, <1>12 DEF Stage, Underway

-----------------------------------------------------------------------------
(* upload_srec reads the answer, and the whole session.                    *)

LEMMA OneFurther ==
  \A k \in Nat : k # k + 1 /\ k + 1 \in 1 .. k + 1 /\ \A i \in 1 .. k : i \in 1 .. k + 1
OBVIOUS

LEMMA AppendKeeps ==
  \A T : \A s \in Seq(T) : \A d \in T : \A k \in 1 .. Len(s) : Append(s, d)[k] = s[k]
<1> SUFFICES ASSUME NEW T, NEW s \in Seq(T), NEW d \in T
             PROVE  \A k \in 1 .. Len(s) : Append(s, d)[k] = s[k]
  BY Zenon
<1> QED
  BY AppendProperties

LEMMA ShownOne ==
  ASSUME SInv, NEW c \in Characters \cup {""}, shown' = Append(shown, c)
  PROVE  /\ Len(shown) \in Nat /\ Len(shown') = Len(shown) + 1 /\ shown'[Len(shown) + 1] = c
         /\ \A i \in 1 .. Len(shown) : shown'[i] = shown[i]
         /\ DOMAIN shown' = 1 .. Len(shown) + 1 /\ DOMAIN shown = 1 .. Len(shown)
<1> DEFINE S == Characters \cup {""}
<1>1. shown \in Seq(S) /\ c \in S
  BY DEF SInv, UploadPlace, HostOK
<1> HIDE DEF S
<1>2. /\ Len(shown) \in Nat /\ Len(shown') = Len(shown) + 1
      /\ shown' \in Seq(S)
  BY <1>1, AppendProperties, LenProperties
<1>3. ASSUME NEW i \in 1 .. Len(shown)
      PROVE  shown'[i] = shown[i]
  BY <1>1, <1>2, AppendKeeps, Zenon
<1>4. shown'[Len(shown) + 1] = c
  BY <1>1, AppendProperties
<1>5. DOMAIN shown' = 1 .. Len(shown) + 1 /\ DOMAIN shown = 1 .. Len(shown)
  BY <1>1, <1>2, LenProperties
<1> QED
  BY <1>2, <1>3, <1>4, <1>5

LEMMA TakeAnswerStage ==
  ASSUME SInv, FilesSay, Stage, TakeAnswer
  PROVE  Stage'
<1>1. /\ waiting /\ back # <<>> /\ waiting' = FALSE
      /\ shown' = Append(shown, Head(back)) /\ back' = Tail(back)
      /\ UNCHANGED <<pc, mem, line, rdr, file>>
  BY DEF TakeAnswer, ReadAnswer, device
<1>2. /\ Underway /\ AsShown /\ back = <<Now.answer>>
      /\ pc \in {"rxsrec", "run"} /\ Quiet /\ NowSettled
  BY <1>1 DEF Stage, Underway
<1>3. shown' = Append(shown, Now.answer) /\ back' = <<>>
  <2>1. Head(<<Now.answer>>) = Now.answer /\ Tail(<<Now.answer>>) = <<>>
    OBVIOUS
  <2> QED
    BY <1>1, <1>2, <2>1
<1>4. Now.answer \in Characters \cup {""}
  BY <1>1, TheLine DEF Characters
<1>5. /\ Len(shown) \in Nat /\ Len(shown') = Len(shown) + 1
      /\ \A i \in 1 .. Len(shown) : shown'[i] = shown[i]
      /\ shown'[Len(shown) + 1] = Now.answer
      /\ DOMAIN shown' = 1 .. Len(shown) + 1 /\ DOMAIN shown = 1 .. Len(shown)
  BY <1>3, <1>4, ShownOne
<1>6. AsShown'
  <2> SUFFICES ASSUME NEW i \in 1 .. Len(shown) + 1 PROVE shown'[i] = file[i].answer
    BY <1>1, <1>5 DEF AsShown
  <2>1. CASE i = Len(shown) + 1
    BY <1>5, <2>1 DEF Now
  <2>2. CASE i # Len(shown) + 1
    <3>1. i \in 1 .. Len(shown)
      BY <1>5, <2>2
    <3> QED
      BY <1>2, <1>5, <3>1 DEF AsShown
  <2> QED
    BY <2>1, <2>2
<1>7. Settled'
  <2>1. \A c : \A k : ImageAt(c, k)' = ImageAt(c, k)
    BY <1>1 DEF ImageAt, Covers
  <2>2. PICK k \in Nat : k = Len(shown) + 1
    BY <1>5
  <2>3. \A c \in Targets : mem'[c] = ImageAt(c, k)'
    BY <1>1, <1>2, <2>1, <2>2 DEF NowSettled
  <2> QED
    BY <1>5, <2>2, <2>3 DEF Settled
<1>8. Quiet'
  BY <1>1, <1>2 DEF Quiet
<1> QED
  BY <1>1, <1>2, <1>3, <1>6, <1>7, <1>8 DEF Stage, Between

(* What does not touch the lines, the loader or its memory.                *)
LEMMA StageStays ==
  ASSUME Stage, UNCHANGED uploading
  PROVE  Stage'
<1>1. UNCHANGED <<pc, y, a, len, addr, mem, line, rdr, back, file, waiting, shown>>
  BY DEF uploading, device, serial
<1>2. /\ Now' = Now /\ Len(shown)' = Len(shown) /\ (AsShown => AsShown')
      /\ (Settled => Settled') /\ (NowSettled => NowSettled')
  BY <1>1, LineStays, SettledStays
<1>3. Quiet => Quiet'
  BY <1>1 DEF Quiet
<1>4. \A c, j : Upto(c, j)' = Upto(c, j)
  BY <1>1, UptoStays
<1>5. (Coming => Coming') /\ (Starting => Starting')
  BY <1>1, <1>2 DEF Coming, Starting, Behind, Unread
<1>6. (Receiving => Receiving') /\ (Received => Received')
  BY <1>1, <1>2 DEF Receiving, Received, Read, Buffered, Unread
<1>7. Loading => Loading'
  <2> SUFFICES ASSUME Loading PROVE Loading'
    OBVIOUS
  <2>1. PICK j \in 0 .. Len(Now.data) : Remaining(j) /\ (Writing(j) \/ Polling(j))
    BY DEF Loading
  <2>2. Remaining(j)'
    BY <1>1, <1>2, <2>1 DEF Remaining
  <2>3. Writing(j)' \/ Polling(j)'
    BY <1>1, <1>2, <1>4, <2>1 DEF Writing, Polling
  <2> QED
    BY <1>2, <1>6, <2>1, <2>2, <2>3 DEF Loading
<1>8. Underway => Underway'
  BY <1>1, <1>2, <1>3, <1>5, <1>6, <1>7 DEF Underway
<1> QED
  BY <1>1, <1>2, <1>3, <1>8 DEF Stage, Between

(* An answer that was late stays so.                                       *)
LEMMA OnTimeBefore ==
  ASSUME SInv, NEW c \in Characters \cup {""}, shown' = shown \/ shown' = Append(shown, c), OnTime'
  PROVE  OnTime /\ (shown' = Append(shown, c) => c # "")
<1>1. CASE shown' = shown
  <2>1. shown # Append(shown, c)
    <3>1. shown' = Append(shown, c) => Len(shown) \in Nat /\ Len(shown) = Len(shown) + 1
      BY <1>1, ShownOne
    <3> QED
      BY <1>1, <3>1, OneFurther, Zenon
  <2> QED
    BY <1>1, <2>1 DEF OnTime
<1>2. CASE shown' = Append(shown, c)
  <2>1. /\ Len(shown) \in Nat /\ shown'[Len(shown) + 1] = c
        /\ \A i \in 1 .. Len(shown) : shown'[i] = shown[i]
        /\ DOMAIN shown' = 1 .. Len(shown) + 1 /\ DOMAIN shown = 1 .. Len(shown)
    BY <1>2, ShownOne
  <2>2. \A i \in DOMAIN shown' : shown'[i] # ""
    BY DEF OnTime
  <2>3. \A i \in DOMAIN shown : shown[i] # ""
    BY <2>1, <2>2, OneFurther, Zenon
  <2> QED
    BY <2>1, <2>2, OneFurther, <2>3, Zenon DEF OnTime
<1> QED
  BY <1>1, <1>2

(* What the transfer of the loader may still do.                           *)
LEMMA BootDoesNotHeal ==
  ASSUME SInv, [SessionNext]_vars, faults' <= 1, complaints' = {}
  PROVE  faults <= 1 /\ complaints = {}
<1>1. CASE Boot!WriteSync
  <2>1. faults \in Int /\ complaints' = complaints /\ (faults' = faults \/ faults' = faults + 1)
    BY <1>1, Terms DEF Boot!WriteSync
  <2> QED
    BY <2>1
<1>2. CASE BootHost
  BY <1>1, <1>2 DEF BootHost, Boot!Host, Boot!WriteByte, Boot!ReadEcho, Boot!ReadTimeout, Boot!AllGood
<1>3. CASE BootFault
  <2>1. faults' = faults + 1 /\ complaints' = complaints
    BY <1>3 DEF BootFault, Boot!Fault
  <2>2. faults \in Int
    BY Terms
  <2> QED
    BY <2>1, <2>2
<1>4. CASE BootRom \/ RomTakesCharacter \/ UNCHANGED boot
  BY <1>4 DEF BootRom, Boot!Rom, Boot!RomSync, Boot!RomStore, Boot!RomAstray, RomTakesCharacter, boot
<1> QED
  BY <1>2, <1>3, <1>4
     DEF SessionNext, UploadPy, Rom, SendLine, TakeAnswer, GiveUp, NoAnswer, Load, Deliver,
         EndProgramming, Rest, vars, boot

LEMMA InStepNext ==
  ASSUME FilesSay, SInv, Clean, InStep, [SessionNext]_vars
  PROVE  InStep'
<1> SUFFICES ASSUME faults' <= 1, complaints' = {}, OnTime' PROVE Stage'
  BY DEF InStep
<1>1. faults <= 1 /\ complaints = {}
  BY BootDoesNotHeal
<1>2. good => LoaderRuns
  BY <1>1, CleanRuns DEF LoaderRuns
<1>3. ASSUME shown' = shown \/ \E c \in Characters \cup {""} : shown' = Append(shown, c)
      PROVE  Stage
  <2>1. OnTime
    <3>1. "" \in Characters \cup {""}
      OBVIOUS
    <3> QED
      BY <1>3, <3>1, OnTimeBefore
  <2> QED
    BY <1>1, <2>1 DEF InStep
<1>4. CASE BootHost \/ BootRom \/ BootFault \/ UNCHANGED vars
  <2>1. UNCHANGED uploading /\ shown' = shown
    BY <1>4 DEF BootHost, BootRom, BootFault, vars, uploading
  <2> QED
    BY <1>3, <2>1, StageStays
<1>5. CASE SendLine
  <2>1. shown' = shown
    BY <1>5 DEF SendLine, WriteLine
  <2> QED
    BY <1>3, <1>5, <2>1, SendLineStage
<1>6. CASE TakeAnswer
  <2>1. \E c \in Characters \cup {""} : shown' = Append(shown, c)
    <3>1. back \in Seq(Characters) /\ back # <<>> /\ shown' = Append(shown, Head(back))
      BY <1>6 DEF TakeAnswer, ReadAnswer, SInv, UploadPlace, LineOK
    <3>2. Head(back) \in Characters
      BY <3>1, HeadTailProperties
    <3> QED
      BY <3>1, <3>2
  <2> QED
    BY <1>3, <1>6, <2>1, TakeAnswerStage
<1>7. CASE GiveUp \/ NoAnswer
  <2>1. shown' = Append(shown, "")
    BY <1>7 DEF GiveUp, ReadTimeout, NoAnswer
  <2>2. "" \in Characters \cup {""}
    OBVIOUS
  <2> QED
    BY <2>1, <2>2, OnTimeBefore
<1>8. CASE RomTakesCharacter
  <2>1. good /\ Len(ram) # SIZE
    BY <1>8 DEF RomTakesCharacter, Boot!Left, Boot!Running
  <2>2. Len(program) = SIZE
    BY SessionAssumption DEF SInv, BootPlace
  <2> QED
    BY <1>2, <2>1, <2>2 DEF LoaderRuns
<1>9. CASE Load
  <2>1. shown' = shown /\ (Rxsrec \/ Rxdata \/ Exec \/ Sone \/ Datapoll)
    BY <1>9 DEF Load, LoaderStep, Loader
  <2> QED
    BY <1>3, <1>9, <2>1, RxsrecStage, RxdataStage, ExecStage, SoneStage, DatapollStage
<1>10. CASE Deliver
  <2>1. shown' = shown
    BY <1>10 DEF Deliver, ArriveStep
  <2> QED
    BY <1>3, <1>10, <2>1, DeliverStage
<1>11. CASE EndProgramming
  <2>1. shown' = shown
    BY <1>11 DEF EndProgramming, ProgrammedStep
  <2> QED
    BY <1>3, <1>11, <2>1, ProgrammedStage
<1> QED
  BY <1>4, <1>5, <1>6, <1>7, <1>8, <1>9, <1>10, <1>11 DEF SessionNext, UploadPy, Rom

LEMMA InStepInit ==
  ASSUME SessionInit
  PROVE  InStep
<1>1. /\ pc = "rxsrec" /\ mem = [c \in Buffer \cup Targets |-> Blank]
      /\ line = <<>> /\ rdr = None /\ back = <<>> /\ shown = <<>> /\ waiting = FALSE
  BY DEF SessionInit, Init, DeviceInit
<1>2. Len(shown) = 0 /\ DOMAIN shown = {} /\ Quiet
  <2>1. Len(<<>>) = 0 /\ DOMAIN <<>> = {} /\ 1 .. 0 = {}
    OBVIOUS
  <2> QED
    BY <1>1, <2>1, NoneIsNoCharacter DEF Quiet
<1>3. \A c : ImageAt(c, 0) = Blank
  <2>1. 1 .. 0 = {}
    OBVIOUS
  <2> QED
    BY <2>1 DEF ImageAt
<1>4. Settled
  BY <1>1, <1>2, <1>3 DEF Settled
<1> QED
  BY <1>1, <1>2, <1>4 DEF InStep, Stage, AsShown, Between

LEMMA InStepAlways ==
  ASSUME FilesSay
  PROVE  Spec => [](SInv /\ InStep)
<1>1. SessionInit => Clean /\ InStep
  BY CleanInit, InStepInit
<1>2. SInv /\ Clean /\ InStep /\ [SessionNext]_vars => Clean' /\ InStep'
  BY CleanNext, InStepNext
<1> QED
  BY <1>1, <1>2, SessionInvariant, PTL DEF Spec

(* What upload.py prints for a line is what the loader answers to that     *)
(* line, whichever lines the file has: lines with wrong digits, too long,  *)
(* of a kind that is not handled, for memory that is slow or not there.    *)
(* It rests on what is left of a line that was refused before its end: it  *)
(* is read before the next line, and starts none.                          *)
THEOREM AnswersAreTheLoaders ==
  ASSUME FilesSay
  PROVE  Spec => [](faults <= 1 => AnswersMatch)
<1>1. InStep => (faults <= 1 => AnswersMatch)
  BY DEF InStep, Stage, AsShown, AnswersMatch
<1> QED
  BY <1>1, InStepAlways, PTL

(* Between two lines the memory holds what the lines answered so far say,  *)
(* and nothing of a line that was refused but its bytes before the one     *)
(* that is wrong: '*' comes when the last byte can be read back.           *)
THEOREM LoadedIsShown ==
  ASSUME FilesSay
  PROVE  Spec => [](faults <= 1 => LoadedAsShown)
<1>1. SInv /\ InStep => (faults <= 1 => LoadedAsShown)
  <2> SUFFICES ASSUME SInv, Stage, waiting = FALSE PROVE Settled
    BY DEF InStep, LoadedAsShown, Settled, SInv, UploadPlace, HostOK
  <2> QED
    BY DEF Stage, Between
<1> QED
  BY <1>1, InStepAlways, PTL
=============================================================================
