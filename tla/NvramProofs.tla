---------------------------- MODULE NvramProofs -----------------------------
(***************************************************************************)
(* Theorems about Nvram: a file handed out has the right check bytes and     *)
(* holds what it was last told to keep.  They use of the check number only   *)
(* that it is a byte, and of the checksum nothing: both may agree by chance. *)
(***************************************************************************)
EXTENDS Nvram, TLAPS

-----------------------------------------------------------------------------
(* The check number *)

Weights == {1, 2, 4, 8, 16, 32, 64, 128}

\* The weighted bit of the exclusive or.
X(a, b, w) == w * ((Bit(a, w) + Bit(b, w)) % 2)

\* A bit is 0 or 1.
LEMMA BitRange ==
  ASSUME NEW a \in Byte, NEW w \in Weights
  PROVE  Bit(a, w) \in {0, 1}
BY DEF Byte, Bit, Weights

\* A weighted bit of the exclusive or is nothing or its weight.
LEMMA XRange ==
  ASSUME NEW a \in Byte, NEW b \in Byte, NEW w \in Weights
  PROVE  X(a, b, w) \in {0, w}
<1>1. Bit(a, w) \in {0, 1} /\ Bit(b, w) \in {0, 1}
  BY BitRange
<1>2. (Bit(a, w) + Bit(b, w)) % 2 \in {0, 1}
  BY <1>1
<1> QED
  BY <1>2 DEF X, Weights

\* The exclusive or of two bytes is one.
LEMMA XorRange ==
  ASSUME NEW a \in Byte, NEW b \in Byte
  PROVE  Xor(a, b) \in Byte
<1>1. Xor(a, b) = X(a, b, 1) + X(a, b, 2) + X(a, b, 4) + X(a, b, 8)
                  + X(a, b, 16) + X(a, b, 32) + X(a, b, 64) + X(a, b, 128)
  BY DEF Xor, X
<1>2. /\ X(a, b, 1) \in {0, 1} /\ X(a, b, 2) \in {0, 2} /\ X(a, b, 4) \in {0, 4}
      /\ X(a, b, 8) \in {0, 8} /\ X(a, b, 16) \in {0, 16} /\ X(a, b, 32) \in {0, 32}
      /\ X(a, b, 64) \in {0, 64} /\ X(a, b, 128) \in {0, 128}
  BY XRange DEF Weights
<1> QED
  BY <1>1, <1>2 DEF Byte

\* What is left of a number, or of a sum, in one byte.
LEMMA ModByte ==
  ASSUME NEW n \in Int, NEW m \in Int
  PROVE  n % 256 \in Byte /\ (n + m) % 256 \in Byte
BY DEF Byte

\* The check number is one byte.
LEMMA CheckNoRange ==
  ASSUME NEW f \in Seq(Byte), Len(f) >= Size
  PROVE  NVM_ComputeCheckNo(f) \in Byte
<1>1. f[1] \in Byte /\ f[2] \in Byte /\ f[3] \in Byte /\ f[4] \in Byte
  BY DEF Size, RecSize, RecNum
<1>. Byte \subseteq Int
  BY DEF Byte
<1>2. f[1] % 256 \in Byte
  BY <1>1, ModByte
<1>3. Xor(f[1] % 256, f[2]) \in Byte
  BY <1>1, <1>2, XorRange
<1>4. PICK x \in Byte : x = Xor(f[1] % 256, f[2])
  BY <1>3
<1>5. (x + f[3]) % 256 \in Byte
  <2>1. x \in Int /\ f[3] \in Int
    BY <1>1
  <2> QED
    BY <2>1, ModByte
<1>6. Xor((x + f[3]) % 256, f[4]) \in Byte
  BY <1>1, <1>5, XorRange
<1> QED
  BY <1>4, <1>6 DEF NVM_ComputeCheckNo

-----------------------------------------------------------------------------
(* Bytes *)

\* The length of a file after write().
EndOf(f, at, w) == IF at + Len(w) > Len(f) THEN at + Len(w) ELSE Len(f)

\* What write() leaves: the bytes written, and the others as they were.
LEMMA OverwriteOK ==
  ASSUME NEW f \in Seq(Byte), NEW at \in Nat, NEW w \in Seq(Byte)
  PROVE  /\ Overwrite(f, at, w) \in Seq(Byte)
         /\ Len(Overwrite(f, at, w)) = EndOf(f, at, w)
         /\ \A i \in 1 .. Len(w) : Overwrite(f, at, w)[at + i] = w[i]
         /\ \A i \in 1 .. Len(f) : i <= at => Overwrite(f, at, w)[i] = f[i]
         /\ \A i \in 1 .. Len(f) : i > at + Len(w) => Overwrite(f, at, w)[i] = f[i]
<1> DEFINE n == EndOf(f, at, w)
           e(i) == IF at < i /\ i <= at + Len(w) THEN w[i - at]
                   ELSE IF i <= Len(f) THEN f[i] ELSE 0
           g == Overwrite(f, at, w)
<1>1. Len(w) \in Nat /\ Len(f) \in Nat /\ n \in Nat /\ n >= Len(f) /\ n >= at + Len(w)
  BY DEF EndOf
<1>2. g = [i \in 1 .. n |-> e(i)]
  BY DEF Overwrite, EndOf
<1>3. \A i \in 1 .. n : e(i) \in Byte
  <2> TAKE i \in 1 .. n
  <2>1. CASE at < i /\ i <= at + Len(w)
    <3>1. i - at \in 1 .. Len(w)
      BY <2>1, <1>1
    <3> QED
      BY <2>1, <3>1
  <2>2. CASE ~(at < i /\ i <= at + Len(w)) /\ i <= Len(f)
    BY <2>2, <1>1
  <2>3. CASE ~(at < i /\ i <= at + Len(w)) /\ ~(i <= Len(f))
    BY <2>3 DEF Byte
  <2> QED
    BY <2>1, <2>2, <2>3
<1>4. /\ \A i \in 1 .. Len(w) : at + i \in 1 .. n /\ e(at + i) = w[i]
      /\ \A i \in 1 .. Len(f) : i \in 1 .. n /\ (i <= at \/ i > at + Len(w) => e(i) = f[i])
  BY <1>1
<1> HIDE DEF e, n, g
<1>5. g \in Seq(Byte) /\ Len(g) = n
  BY <1>1, <1>2, <1>3
<1>6. \A i \in 1 .. n : g[i] = e(i)
  BY <1>2
<1>7. \A i \in 1 .. Len(w) : g[at + i] = w[i]
  BY <1>4, <1>6
<1>8. \A i \in 1 .. Len(f) : i <= at \/ i > at + Len(w) => g[i] = f[i]
  BY <1>4, <1>6
<1> QED
  BY <1>5, <1>7, <1>8 DEF g, n

\* All of a sequence.
LEMMA WholeSub ==
  ASSUME NEW s \in Seq(Byte)
  PROVE  SubSeq(s, 1, Len(s)) = s
<1> DEFINE t == SubSeq(s, 1, Len(s))
<1>1. t \in Seq(Byte) /\ Len(t) = Len(s) /\ \A i \in 1 .. Len(s) : t[i] = s[i]
  OBVIOUS
<1> HIDE DEF t
<1>2. t = s
  BY <1>1
<1> QED
  BY <1>2 DEF t

\* The default is bytes, and so is the data of a file.
LEMMA DataOK ==
  /\ Default \in Seq(Byte) /\ Len(Default) = Size
  /\ <<>> \in Seq(Byte) /\ Len(<<>>) = 0 /\ DataOf(Default) = Default
  /\ \A f \in Seq(Byte) : Len(f) >= Size => DataOf(f) \in Seq(Byte)
<1>1. Default \in Seq(Byte) /\ Len(Default) = Size
  BY DEF Default, Byte, Size, RecSize, RecNum
<1>2. \A f \in Seq(Byte) : Len(f) >= Size => DataOf(f) \in Seq(Byte)
  BY DEF DataOf, Size, RecSize, RecNum
<1>3. DataOf(Default) = Default
  BY <1>1, WholeSub DEF DataOf
<1> QED
  BY <1>1, <1>2, <1>3

\* Sizes as the library tells them apart.
LEMMA SizeCases ==
  ASSUME NEW f \in Seq(Byte)
  PROVE  /\ NVM_CheckFileSize(f) \in {-1, 0, 1}
         /\ NVM_CheckFileSize(f) = 0 <=> Len(f) = Size
         /\ NVM_CheckFileSize(f) = 1 <=> Len(f) = Size + 2
         /\ Good(f) <=> Len(f) = Size + 2 /\ NVM_CheckFile(f)
<1>. Size = 4
  BY DEF Size, RecSize, RecNum
<1>1. CASE Len(f) = Size
  BY <1>1 DEF NVM_CheckFileSize, Good
<1>2. CASE Len(f) = Size + 2
  BY <1>2 DEF NVM_CheckFileSize, Good
<1>3. CASE Len(f) # Size /\ Len(f) # Size + 2
  BY <1>3 DEF NVM_CheckFileSize, Good
<1> QED
  BY <1>1, <1>2, <1>3

\* Two files with the same data have the same check number.
LEMMA SameData ==
  ASSUME NEW f \in Seq(Byte), NEW g \in Seq(Byte), Len(f) >= Size, Len(g) >= Size,
         \A i \in 1 .. Size : f[i] = g[i]
  PROVE  DataOf(f) = DataOf(g) /\ NVM_ComputeCheckNo(f) = NVM_ComputeCheckNo(g)
<1>. Size = 4
  BY DEF Size, RecSize, RecNum
<1>1. f[1] = g[1] /\ f[2] = g[2] /\ f[3] = g[3] /\ f[4] = g[4]
  OBVIOUS
<1>2. DataOf(f) = DataOf(g)
  BY <1>1 DEF DataOf
<1> QED
  BY <1>1, <1>2 DEF NVM_ComputeCheckNo

\* The mark, written where it belongs, leaves the data and a good file as they are.
LEMMA MarkKeeps ==
  ASSUME NEW f \in Seq(Byte), Len(f) = Size \/ Len(f) = Size + 2
  PROVE  LET g == Overwrite(f, Size, <<Mark>>)
         IN  /\ g \in Seq(Byte) /\ DataOf(g) = DataOf(f)
             /\ Len(g) = IF Len(f) = Size THEN Size + 1 ELSE Size + 2
             /\ g[Size + 1] = Mark
             /\ Good(f) => Good(g)
<1> DEFINE w == <<Mark>>
           g == Overwrite(f, Size, w)
<1>. Size = 4 /\ Size \in Nat /\ Size + 1 \in Nat
  BY DEF Size, RecSize, RecNum
<1>1. w \in Seq(Byte) /\ Len(w) = 1 /\ w[1] = Mark
  BY DEF Mark, Byte
<1> HIDE DEF w
<1>2. /\ g \in Seq(Byte) /\ Len(g) = EndOf(f, Size, w)
      /\ \A i \in 1 .. Len(w) : g[Size + i] = w[i]
      /\ \A i \in 1 .. Len(f) : i <= Size => g[i] = f[i]
      /\ \A i \in 1 .. Len(f) : i > Size + Len(w) => g[i] = f[i]
  BY <1>1, OverwriteOK
<1> HIDE DEF g
<1>3. Len(g) = IF Len(f) = Size THEN Size + 1 ELSE Size + 2
  <2>1. Len(f) \in Nat /\ Len(g) = IF Size + Len(w) > Len(f) THEN Size + Len(w) ELSE Len(f)
    <3>1. Len(f) \in Nat
      OBVIOUS
    <3>2. EndOf(f, Size, w) = IF Size + Len(w) > Len(f) THEN Size + Len(w) ELSE Len(f)
      BY DEF EndOf
    <3> QED
      BY <1>2, <3>1, <3>2
  <2>2. CASE Len(f) = Size
    BY <1>1, <2>1, <2>2
  <2>3. CASE Len(f) = Size + 2
    BY <1>1, <2>1, <2>3
  <2> QED
    BY <2>2, <2>3
<1>4. \A i \in 1 .. Size : g[i] = f[i]
  BY <1>1, <1>2, <1>3
<1>5. g[Size + 1] = Mark
  BY <1>1, <1>2, <1>3
<1>6. DataOf(g) = DataOf(f) /\ NVM_ComputeCheckNo(g) = NVM_ComputeCheckNo(f)
  BY <1>2, <1>3, <1>4, SameData
<1>7. ASSUME Good(f) PROVE Good(g)
  <2>1. Len(f) = Size + 2 /\ NVM_CheckFile(f)
    BY <1>7, SizeCases
  <2>2. g[Size + 2] = f[Size + 2]
    BY <2>1, <1>1, <1>2, <1>3
  <2>3. NVM_CheckFile(g)
    BY <2>1, <2>2, <1>5, <1>6 DEF NVM_CheckFile
  <2> QED
    BY <1>2, <1>3, <2>1, <2>3, SizeCases
<1> QED
  BY <1>2, <1>3, <1>5, <1>6, <1>7 DEF g, w

\* The check number, written after the mark, makes a good file of the same data.
LEMMA NumberMakesGood ==
  ASSUME NEW f \in Seq(Byte), Len(f) = Size + 1 \/ Len(f) = Size + 2, f[Size + 1] = Mark
  PROVE  LET g == Overwrite(f, Size + 1, <<NVM_ComputeCheckNo(f)>>)
         IN  g \in Seq(Byte) /\ Good(g) /\ DataOf(g) = DataOf(f)
<1> DEFINE w == <<NVM_ComputeCheckNo(f)>>
           g == Overwrite(f, Size + 1, w)
<1>. Size = 4 /\ Size \in Nat /\ Size + 1 \in Nat
  BY DEF Size, RecSize, RecNum
<1>1. w \in Seq(Byte) /\ Len(w) = 1 /\ w[1] = NVM_ComputeCheckNo(f)
  BY CheckNoRange
<1> HIDE DEF w
<1>2. /\ g \in Seq(Byte) /\ Len(g) = EndOf(f, Size + 1, w)
      /\ \A i \in 1 .. Len(w) : g[Size + 1 + i] = w[i]
      /\ \A i \in 1 .. Len(f) : i <= Size + 1 => g[i] = f[i]
  BY <1>1, OverwriteOK
<1> HIDE DEF g
<1>3. Len(g) = Size + 2
  <2>1. Len(f) \in Nat
    OBVIOUS
  <2>2. EndOf(f, Size + 1, w)
          = IF Size + 1 + Len(w) > Len(f) THEN Size + 1 + Len(w) ELSE Len(f)
    BY DEF EndOf
  <2>3. Len(g) = IF Size + 1 + 1 > Len(f) THEN Size + 1 + 1 ELSE Len(f)
    BY <1>1, <1>2, <2>2
  <2>4. CASE Len(f) = Size + 1
    BY <2>3, <2>4
  <2>5. CASE Len(f) = Size + 2
    BY <2>3, <2>5
  <2> QED
    BY <2>4, <2>5
<1>4. \A i \in 1 .. Size + 1 : g[i] = f[i]
  BY <1>1, <1>2, <1>3
<1>5. g[Size + 2] = NVM_ComputeCheckNo(f)
  <2>1. g[Size + 1 + 1] = w[1]
    BY <1>1, <1>2
  <2>2. Size + 1 + 1 = Size + 2
    OBVIOUS
  <2> QED
    BY <1>1, <2>1, <2>2
<1>6. DataOf(g) = DataOf(f) /\ NVM_ComputeCheckNo(g) = NVM_ComputeCheckNo(f)
  <2>1. Len(f) >= Size /\ Len(g) >= Size /\ \A i \in 1 .. Size : g[i] = f[i]
    BY <1>3, <1>4
  <2> QED
    BY <1>2, <2>1, SameData
<1>7. NVM_CheckFile(g)
  BY <1>4, <1>5, <1>6 DEF NVM_CheckFile
<1> QED
  BY <1>2, <1>3, <1>6, <1>7, SizeCases DEF g, w

-----------------------------------------------------------------------------
(* Types *)

Maps     == {NoMap} \cup {MapOf(f) : f \in Seq(Byte)}
Backups  == [map : Maps, bitmap : BOOLEAN, dat : Seq(Byte)]
AllFiles == [map : Maps, dat : Seq(Byte)]

\* The service runs once the daemon is done, and the shape of the file where the
\* library relies on it.
Shape ==
  /\ pc # "idle" => boot = "ready"
  /\ pc \in {"opened", "done"} => Good(file)
  /\ pc = "setno" => Len(file) = Size \/ Len(file) = Size + 2
  /\ pc = "setno2" => (Len(file) = Size + 1 \/ Len(file) = Size + 2) /\ file[Size + 1] = Mark
  /\ pc = "rewrite" => all.map.size = Size + 2 /\ Copy(all) # <<>>

\* TypeOK, that a map is the one of some file, and the shape of the file.
TypeInv == TypeOK /\ bin \in Backups /\ all \in AllFiles /\ Shape

\* What a request holds.
LEMMA RequestOK ==
  ASSUME NEW r \in Requests \cup {NoRequest}
  PROVE  r.at \in Int /\ r.bytes \in Seq(Byte)
<1>1. CASE r \in Requests
  <2>1. CASE \E o \in {"read", "reset", "backup", "backupAll", "backupOthers", "restoreAll"} : r = Plain(o)
    <3>1. r.at = 0 /\ r.bytes = <<>>
      BY <2>1 DEF Plain, NoRequest
    <3> QED
      BY <3>1
  <2>2. CASE \E para \in 0 .. RecNum + 2, p \in {q \in Payloads : Len(q) = RecSize} :
               r = [op |-> "write", at |-> (para - 1) * RecSize, times |-> 1, bytes |-> p]
    BY <2>2, NvramAssumption DEF RecNum, RecSize
  <2>3. CASE \E p \in Payloads : r = [op |-> "write", at |-> 0, times |-> RecNum, bytes |-> p]
    BY <2>3, NvramAssumption
  <2> QED
    BY <1>1, <2>1, <2>2, <2>3 DEF Requests
<1>2. CASE r = NoRequest
  <2>1. r.at = 0 /\ r.bytes = <<>>
    BY <1>2 DEF NoRequest
  <2> QED
    BY <2>1
<1> QED
  BY <1>1, <1>2

\* A file without bytes, and the default.
LEMMA EmptyFacts ==
  /\ ~Good(<<>>) /\ Len(<<>>) # Size /\ Len(<<>>) # Size + 2 /\ Taken(<<>>) = {}
  /\ ~Good(Default) /\ Len(Default) = Size /\ DataOf(Default) = Default
<1>. Size = 4 /\ Len(<<>>) = 0
  BY DEF Size, RecSize, RecNum
<1>1. \A f \in Seq(Byte) : Good(f) => Len(f) = Size + 2
  BY SizeCases
<1>2. <<>> \in Seq(Byte) /\ Default \in Seq(Byte) /\ Len(Default) = Size /\ DataOf(Default) = Default
  BY DataOK
<1>3. Good(<<>>) => Len(<<>>) = Size + 2
  BY <1>1, <1>2, Zenon
<1>4. Good(Default) => Len(Default) = Size + 2
  BY <1>1, <1>2, Zenon
<1>5. ~Good(<<>>) /\ ~Good(Default)
  BY <1>2, <1>3, <1>4
<1> QED
  BY <1>2, <1>5 DEF Taken

\* What an open or a close takes of a file.
LEMMA TakenOK ==
  ASSUME NEW f \in Seq(Byte)
  PROVE  /\ Taken(f) \subseteq Seq(Byte) /\ Kept(f) \subseteq Seq(Byte)
         /\ Good(f) => Taken(f) = {DataOf(f)} /\ Kept(f) = {DataOf(f)} /\ Len(f) = Size + 2
         /\ Len(f) = Size => Taken(f) = {DataOf(f)} /\ ~Good(f)
         /\ ~Good(f) /\ Len(f) # Size => Taken(f) = {}
         /\ Len(f) = Size + 2 => Kept(f) = {DataOf(f)}
         /\ Good(f) => DataOf(f) \in Seq(Byte)
<1>. Size = 4
  BY DEF Size, RecSize, RecNum
<1>1. Len(f) = Size \/ Len(f) = Size + 2 => DataOf(f) \in Seq(Byte)
  BY DataOK
<1>2. Good(f) => Len(f) = Size + 2
  BY SizeCases
<1>3. CASE Good(f)
  <2>1. Len(f) = Size + 2 /\ Len(f) # Size /\ DataOf(f) \in Seq(Byte)
    <3>1. Len(f) = Size + 2
      BY <1>2, <1>3, Zenon
    <3> QED
      BY <1>1, <3>1
  <2>2. Taken(f) = {DataOf(f)}
    BY <1>3 DEF Taken
  <2>3. Kept(f) = {DataOf(f)}
    BY <2>1 DEF Kept
  <2> QED
    BY <1>3, <2>1, <2>2, <2>3
<1>4. CASE ~Good(f) /\ Len(f) = Size
  BY <1>1, <1>4 DEF Taken, Kept
<1>5. CASE ~Good(f) /\ Len(f) # Size
  <2>1. Taken(f) = {}
    BY <1>5 DEF Taken
  <2>2. Kept(f) = IF Len(f) = Size + 2 THEN {DataOf(f)} ELSE {}
    BY DEF Kept
  <2> QED
    BY <1>1, <1>5, <2>1, <2>2
<1> QED
  BY <1>3, <1>4, <1>5

\* What a restore reads.
LEMMA CopyOK ==
  ASSUME NEW b, b.dat \in Seq(Byte), b.map.size \in Int
  PROVE  /\ Copy(b) \in Seq(Byte)
         /\ Copy(b) # <<>> => Len(Copy(b)) = b.map.size
<1>1. CASE b.map.size \in 1 .. Len(b.dat)
  BY <1>1 DEF Copy
<1>2. CASE b.map.size \notin 1 .. Len(b.dat)
  BY <1>2, DataOK DEF Copy
<1> QED
  BY <1>1, <1>2

\* A map is there, and has a size.
LEMMA MapsOK ==
  /\ \A m \in Maps : m.size \in Int
  /\ \A f \in Seq(Byte) : MapOf(f) \in Maps /\ MapOf(f) # NoMap /\ MapOf(f).size = Len(f)
  /\ NoMap \in Maps /\ NoAll \in AllFiles /\ Erased \in Backups
<1>1. \A f \in Seq(Byte) : MapOf(f).size = Len(f) /\ Len(f) \in Nat
  BY DEF MapOf
<1>2. NoMap.size = -1
  BY DEF NoMap
<1>3. \A f \in Seq(Byte) : MapOf(f) \in Maps /\ MapOf(f) # NoMap
  BY <1>1, <1>2 DEF Maps
<1>4. \A m \in Maps : m.size \in Int
  BY <1>1, <1>2 DEF Maps
<1>5. NoMap \in Maps
  BY DEF Maps
<1>6. NoAll \in AllFiles /\ Erased \in Backups
  BY <1>5, DataOK DEF NoAll, Erased, AllFiles, Backups
<1> QED
  BY <1>1, <1>3, <1>4, <1>5, <1>6

\* The copies of the file, part by part.
LEMMA CopiesOK ==
  ASSUME TypeInv
  PROVE  /\ all.dat \in Seq(Byte) /\ all.map \in Maps /\ all.map.size \in Int
         /\ bin.dat \in Seq(Byte) /\ bin.map \in Maps /\ bin.map.size \in Int /\ bin.bitmap \in BOOLEAN
         /\ Copy(all) \in Seq(Byte) /\ Copy(bin) \in Seq(Byte)
<1>1. /\ all.dat \in Seq(Byte) /\ all.map \in Maps
      /\ bin.dat \in Seq(Byte) /\ bin.map \in Maps /\ bin.bitmap \in BOOLEAN
  BY DEF TypeInv, AllFiles, Backups
<1>2. all.map.size \in Int /\ bin.map.size \in Int
  BY <1>1, MapsOK
<1> QED
  BY <1>1, <1>2, CopyOK

\* Where the decisions of the library may lead.
LEMMA Branches ==
  ASSUME file \in Seq(Byte)
  PROVE  /\ NVM_ProtectDataFile =>
              \/ pc' = "setno" /\ Len(file) = Size
              \/ pc' = "opened" /\ Good(file)
              \/ pc' = "restore" /\ inList /\ ~Good(file)
              \/ pc' = "reset" /\ ~inList /\ ~Good(file)
         /\ NVM_CloseFileDesc =>
              \/ pc' = "setno" /\ (Len(file) = Size \/ Len(file) = Size + 2)
              \/ pc' = "restore" /\ inList /\ ~Good(file) /\ Len(file) # Size + 2
              \/ pc' = "reset" /\ ~inList /\ ~Good(file) /\ Len(file) # Size + 2
<1>. /\ NVM_CheckFileSize(file) \in {-1, 0, 1}
     /\ NVM_CheckFileSize(file) = 0 <=> Len(file) = Size
     /\ NVM_CheckFileSize(file) = 1 <=> Len(file) = Size + 2
     /\ Good(file) => NVM_CheckFileSize(file) = 1
  BY SizeCases DEF Good
<1>1. CASE NVM_CheckFileSize(file) = 0
  BY <1>1 DEF NVM_ProtectDataFile, NVM_CloseFileDesc, Goto
<1>2. CASE NVM_CheckFileSize(file) # 0 /\ Good(file)
  BY <1>2 DEF NVM_ProtectDataFile, NVM_CloseFileDesc, Goto
<1>3. CASE NVM_CheckFileSize(file) # 0 /\ ~Good(file)
  BY <1>3 DEF NVM_ProtectDataFile, NVM_CloseFileDesc, Goto
<1> QED
  BY <1>1, <1>2, <1>3

\* The parts of the copies of the file that TypeOK speaks of.
CopyParts ==
  /\ bin.dat \in Seq(Byte) /\ bin.bitmap \in BOOLEAN /\ bin.map.size \in Int
  /\ all.dat \in Seq(Byte) /\ all.map.size \in Int

\* What may become of a file under way.
LEMMA OutcomeOK ==
  ASSUME TypeOK
  PROVE  Outcome \subseteq Seq(Byte)
<1>1. Default \in Seq(Byte)
  BY DataOK
<1>2. want \in Seq(Byte) /\ saved \subseteq Seq(Byte)
  BY DEF TypeOK
<1>3. Len(want) = Size + 2 => DataOf(want) \in Seq(Byte)
  BY <1>2, TakenOK
<1>4. Outcome = {Default} \/ (Len(want) = Size + 2 /\ Outcome = {DataOf(want)}) \/ Outcome = saved
  BY DEF Outcome
<1> QED
  BY <1>1, <1>2, <1>3, <1>4

\* nvram_daemon keeps the types.
LEMMA DaemonTypes ==
  ASSUME TypeInv, Daemon
  PROVE  TypeInv'
<1>. TypeOK /\ bin \in Backups /\ all \in AllFiles /\ Shape
  BY DEF TypeInv
<1>. <<>> \in Seq(Byte) /\ NoAll \in AllFiles /\ Copy(all) \in Seq(Byte)
  BY DataOK, MapsOK, CopiesOK
<1>1. CASE BootChecksFlag \/ BootLoads
  <2>1. /\ boot # "ready" /\ boot' \in {"ready", "load", "check"}
        /\ all' = all \/ all' = NoAll \/ all' = [map |-> bin.map, dat |-> bin.dat]
    BY <1>1 DEF BootChecksFlag, BootLoads
  <2>2. all' \in AllFiles
    BY <2>1 DEF Backups, AllFiles
  <2>3. UNCHANGED <<present, file, flag, bin, pc, ret, req, want, expect, saved>>
    BY <1>1 DEF BootChecksFlag, BootLoads, disk, history
  <2>4. CopyParts'
    BY <2>2, <2>3, MapsOK DEF CopyParts, Backups, AllFiles
  <2>5. pc = "idle"
    BY <2>1 DEF Shape
  <2> QED
    BY <2>1, <2>2, <2>3, <2>4, <2>5 DEF TypeInv, TypeOK, CopyParts, Shape
<1>2. CASE BootTruncates \/ BootRefills
  <2>1. /\ boot # "ready" /\ boot' \in {"ready", "refill", "flag"}
        /\ file' = file \/ file' = <<>> \/ file' = Copy(all)
        /\ present' = present \/ present' = TRUE
        /\ expect' = expect \/ expect' = InDoubt \/ expect' = saved
    BY <1>2 DEF BootTruncates, BootRefills, disk
  <2>2. UNCHANGED <<flag, bin, all, pc, ret, req, want, saved>>
    BY <1>2 DEF BootTruncates, BootRefills
  <2>3. pc = "idle"
    BY <2>1 DEF Shape
  <2>4. file' \in Seq(Byte) /\ present' \in BOOLEAN
    BY <2>1 DEF TypeOK
  <2>5. expect' \subseteq Seq(Byte)
    BY <2>1 DEF TypeOK, InDoubt
  <2> QED
    BY <2>1, <2>2, <2>3, <2>4, <2>5 DEF TypeInv, TypeOK, Shape
<1>3. CASE BootOpensFlag \/ BootSetsFlag
  <2>1. /\ boot # "ready" /\ boot' \in {"ready", "setflag"} /\ flag' \in {"empty", "set"}
        /\ UNCHANGED <<present, file, bin, all, pc, ret, req, want, expect, saved>>
    BY <1>3 DEF BootOpensFlag, BootSetsFlag, disk, history
  <2>2. pc = "idle"
    BY <2>1 DEF Shape
  <2> QED
    BY <2>1, <2>2 DEF TypeInv, TypeOK, Shape
<1> QED
  BY <1>1, <1>2, <1>3 DEF Daemon

\* Opening, restoring and resetting the file keeps the types.
LEMMA OpenTypes ==
  ASSUME TypeInv, OpenFile
  PROVE  TypeInv'
<1>. TypeOK /\ bin \in Backups /\ all \in AllFiles /\ Shape
  BY DEF TypeInv
<1>. /\ <<>> \in Seq(Byte) /\ NoAll \in AllFiles /\ Copy(all) \in Seq(Byte) /\ all.map.size \in Int
     /\ Default \in Seq(Byte) /\ Len(Default) = Size
  BY DataOK, MapsOK, CopiesOK
<1>1. CASE NVM_GetFileDesc
  <2>1. /\ pc = "open" /\ pc' \in {"protect", "restore", "reset"} /\ ret' \in {ret, "protect"}
        /\ file' = file \/ file' = <<>>
        /\ present' = present \/ present' = TRUE
    BY <1>1 DEF NVM_GetFileDesc, Goto, disk
  <2>2. UNCHANGED <<flag, bin, all, boot, req, want, expect, saved>>
    BY <1>1 DEF NVM_GetFileDesc, history
  <2>3. file' \in Seq(Byte) /\ present' \in BOOLEAN
    BY <2>1 DEF TypeOK
  <2> QED
    BY <2>1, <2>2, <2>3 DEF TypeInv, TypeOK, Shape
<1>2. CASE NVM_ProtectDataFile
  <2>1. /\ pc = "protect" /\ ret' = "opened"
        /\ UNCHANGED <<present, file, flag, bin, all, boot, req, want, expect, saved>>
    BY <1>2 DEF NVM_ProtectDataFile, storage, disk, history
  <2>2. file \in Seq(Byte)
    BY DEF TypeOK
  <2>3. \/ pc' = "setno" /\ Len(file) = Size
        \/ pc' = "opened" /\ Good(file)
        \/ pc' = "restore" \/ pc' = "reset"
    BY <1>2, <2>2, Branches
  <2> QED
    BY <2>1, <2>3 DEF TypeInv, TypeOK, Shape
<1>3. CASE Restore \/ RestoreLoads
  <2>1. /\ pc # "idle" /\ pc' \in {"load", "reset", "check"}
        /\ all' = all \/ all' = NoAll \/ all' = [map |-> bin.map, dat |-> bin.dat]
    BY <1>3 DEF Restore, RestoreLoads, Goto
  <2>2. all' \in AllFiles
    BY <2>1 DEF Backups, AllFiles
  <2>3. UNCHANGED <<present, file, flag, bin, boot, ret, req, want, expect, saved>>
    BY <1>3 DEF Restore, RestoreLoads, disk, history
  <2>4. CopyParts'
    BY <2>2, <2>3, MapsOK DEF CopyParts, Backups, AllFiles
  <2> QED
    BY <2>1, <2>2, <2>3, <2>4 DEF TypeInv, TypeOK, CopyParts, Shape
<1>4. CASE RestoreTruncates
  <2>1. /\ pc = "check"
        /\ \/ /\ pc' = "rewrite" /\ present' = TRUE /\ file' = <<>>
              /\ all.map.size = Size + 2 /\ Copy(all) # <<>>
           \/ pc' = "reset" /\ UNCHANGED <<present, file>>
    BY <1>4 DEF RestoreTruncates, Goto, disk
  <2>2. UNCHANGED <<flag, bin, all, boot, ret, req, want, expect, saved>>
    BY <1>4 DEF RestoreTruncates, history
  <2> QED
    BY <2>1, <2>2 DEF TypeInv, TypeOK, Shape
<1>5. CASE RestoreWrites
  <2>1. /\ pc = "rewrite" /\ file' = Copy(all)
        /\ UNCHANGED <<present, flag, bin, all, boot, ret, req, want, expect, saved>>
    BY <1>5 DEF RestoreWrites, history
  <2>2. Len(Copy(all)) = Size + 2
    BY <2>1, CopyOK, CopiesOK DEF Shape
  <2>3. (NVM_CheckFile(Copy(all)) /\ pc' = ret) \/ pc' = "reset"
    BY <1>5 DEF RestoreWrites, Goto
  <2>4. (Good(file') /\ pc' \in {"protect", "opened", "done"}) \/ pc' = "reset"
    BY <2>1, <2>2, <2>3, SizeCases DEF TypeOK
  <2> QED
    BY <2>1, <2>4 DEF TypeInv, TypeOK, Shape
<1>6. CASE Reset \/ WriteDefault
  <2>1. /\ UNCHANGED <<flag, bin, all, boot, ret, req, want, expect, saved>>
        /\ pc # "idle"
        /\ \/ pc' = "default" /\ file' = <<>> /\ present' = TRUE
           \/ pc' = "setno" /\ file' = Default /\ present' = present
    BY <1>6 DEF Reset, WriteDefault, Goto, history
  <2> QED
    BY <2>1 DEF TypeInv, TypeOK, Shape
<1>7. CASE SetCheckFlag
  <2>1. /\ UNCHANGED <<present, flag, bin, all, boot, ret, req, want, expect, saved>>
        /\ pc = "setno" /\ pc' = "setno2" /\ file' = Overwrite(file, Size, <<Mark>>)
    BY <1>7 DEF SetCheckFlag, Goto, history
  <2>2. file \in Seq(Byte) /\ (Len(file) = Size \/ Len(file) = Size + 2)
    BY <2>1 DEF TypeOK, Shape
  <2>3. /\ file' \in Seq(Byte) /\ file'[Size + 1] = Mark
        /\ Len(file') = IF Len(file) = Size THEN Size + 1 ELSE Size + 2
    BY <2>1, <2>2, MarkKeeps
  <2>4. Len(file') = Size + 1 \/ Len(file') = Size + 2
    BY <2>3
  <2> QED
    BY <2>1, <2>3, <2>4 DEF TypeInv, TypeOK, Shape
<1>8. CASE SetCheckNo
  <2>1. /\ UNCHANGED <<present, flag, bin, all, boot, ret, req, want, expect, saved>>
        /\ pc = "setno2" /\ pc' = ret
        /\ file' = Overwrite(file, Size + 1, <<NVM_ComputeCheckNo(file)>>)
    BY <1>8 DEF SetCheckNo, Goto, history
  <2>2. /\ file \in Seq(Byte) /\ (Len(file) = Size + 1 \/ Len(file) = Size + 2)
        /\ file[Size + 1] = Mark
    BY <2>1 DEF TypeOK, Shape
  <2>3. file' \in Seq(Byte) /\ Good(file')
    BY <2>1, <2>2, NumberMakesGood
  <2> QED
    BY <2>1, <2>3 DEF TypeInv, TypeOK, Shape
<1> QED
  BY <1>1, <1>2, <1>3, <1>4, <1>5, <1>6, <1>7, <1>8 DEF OpenFile

\* The service with the file open keeps the types.
LEMMA UseTypes ==
  ASSUME TypeInv, UseFile
  PROVE  TypeInv'
<1>. TypeOK /\ bin \in Backups /\ all \in AllFiles /\ Shape
  BY DEF TypeInv
<1>. file \in Seq(Byte) /\ want \in Seq(Byte) /\ expect \subseteq Seq(Byte) /\ saved \subseteq Seq(Byte)
  BY DEF TypeOK
<1>. req.at \in Int /\ req.bytes \in Seq(Byte) /\ Len(req.bytes) \in Nat
  <2>1. req.at \in Int /\ req.bytes \in Seq(Byte)
    BY RequestOK DEF TypeOK
  <2> QED
    BY <2>1
<1>1. CASE Read \/ Done
  <2>1. /\ pc \in {"opened", "done"} /\ pc' = "idle" /\ (expect' = {DataOf(file)} \/ expect' = Outcome)
        /\ UNCHANGED <<present, file, flag, bin, all, boot, ret, req, want, saved>>
    BY <1>1 DEF Read, Done, Goto, storage, disk
  <2>2. Good(file)
    BY <2>1 DEF Shape
  <2>3. DataOf(file) \in Seq(Byte)
    BY <2>2, TakenOK
  <2>4. expect' \subseteq Seq(Byte)
    BY <2>1, <2>3, OutcomeOK
  <2> QED
    BY <2>1, <2>4 DEF TypeInv, TypeOK, Shape
<1>2. CASE WriteFirst
  <2>1. /\ pc = "opened" /\ req.at >= 0 /\ pc' \in {"close", "writing"}
        /\ file' = First /\ want' = Last /\ expect' = InDoubt \cup Kept(Last) \cup Taken(First)
        /\ UNCHANGED <<present, flag, bin, all, boot, ret, req, saved>>
    BY <1>2 DEF WriteFirst, Goto
  <2>2. req.at \in Nat
    BY <2>1
  <2>3. First \in Seq(Byte)
    BY <2>2, OverwriteOK DEF First
  <2>4. Last \in Seq(Byte)
    BY <2>3, OverwriteOK DEF Last
  <2>5. Kept(Last) \subseteq Seq(Byte) /\ Taken(First) \subseteq Seq(Byte)
    BY <2>3, <2>4, TakenOK
  <2>6. expect' \subseteq Seq(Byte)
    BY <2>1, <2>5 DEF InDoubt
  <2> QED
    BY <2>1, <2>3, <2>4, <2>6 DEF TypeInv, TypeOK, Shape
<1>3. CASE WriteNext
  <2> DEFINE g == Overwrite(file, Len(req.bytes), req.bytes)
  <2>1. /\ pc = "writing" /\ pc' = "close" /\ file' = g /\ expect' = expect \cup Taken(g)
        /\ UNCHANGED <<present, flag, bin, all, boot, ret, req, want, saved>>
    BY <1>3 DEF WriteNext, Goto
  <2>2. g \in Seq(Byte)
    BY OverwriteOK
  <2> HIDE DEF g
  <2>3. Taken(g) \subseteq Seq(Byte)
    BY <2>2, TakenOK
  <2>4. expect' \subseteq Seq(Byte)
    BY <2>1, <2>3
  <2> QED
    BY <2>1, <2>2, <2>4 DEF TypeInv, TypeOK, Shape
<1>4. CASE SeekFails \/ WriteFails
  <2>1. /\ pc \in {"opened", "writing"} /\ pc' = "close" /\ want' = file
        /\ expect' = expect \/ expect' = expect \cup Kept(file)
        /\ UNCHANGED <<present, file, flag, bin, all, boot, ret, req, saved>>
    BY <1>4 DEF SeekFails, WriteFails, Goto, storage, disk
  <2>2. expect' \subseteq Seq(Byte)
    BY <2>1, TakenOK
  <2> QED
    BY <2>1, <2>2 DEF TypeInv, TypeOK, Shape
<1>5. CASE NVM_CloseFileDesc
  <2>1. /\ pc = "close" /\ ret' = "done"
        /\ UNCHANGED <<present, file, flag, bin, all, boot, req, want, expect, saved>>
    BY <1>5 DEF NVM_CloseFileDesc, storage, disk, history
  <2>2. \/ pc' = "setno" /\ (Len(file) = Size \/ Len(file) = Size + 2)
        \/ pc' = "restore" \/ pc' = "reset"
    BY <1>5, Branches
  <2> QED
    BY <2>1, <2>2 DEF TypeInv, TypeOK, Shape
<1> QED
  BY <1>1, <1>2, <1>3, <1>4, <1>5 DEF UseFile

\* Backups and RestoreAll_NvRam keep the types.
LEMMA BackupTypes ==
  ASSUME TypeInv, Backup \/ RestoreAll
  PROVE  TypeInv'
<1>. TypeOK /\ bin \in Backups /\ all \in AllFiles /\ Shape
  BY DEF TypeInv
<1>. file \in Seq(Byte) /\ expect \subseteq Seq(Byte) /\ saved \subseteq Seq(Byte)
  BY DEF TypeOK
<1>. /\ <<>> \in Seq(Byte) /\ NoAll \in AllFiles /\ Erased \in Backups /\ Default \in Seq(Byte)
     /\ Copy(all) \in Seq(Byte) /\ all.dat \in Seq(Byte) /\ all.map \in Maps
  BY DataOK, MapsOK, CopiesOK
<1>1. CASE BackupTruncates \/ BackupCopies
  <2>1. /\ pc # "idle" /\ pc' \in {"copy", "idle", "erase"}
        /\ all' = NoAll \/ all' = [map |-> MapOf(Copied), dat |-> Copied]
        /\ UNCHANGED <<present, file, flag, bin, boot, ret, req, want>>
    BY <1>1 DEF BackupTruncates, BackupCopies, Goto, disk, history
  <2>2. Copied \in Seq(Byte)
    BY DEF Copied
  <2>3. all' \in AllFiles
    BY <2>1, <2>2, MapsOK DEF AllFiles
  <2>4. \/ UNCHANGED <<expect, saved>>
        \/ /\ saved' = saved \cup ({Default} \cup Taken(Copied))
           /\ expect' = expect \/ expect' = expect \cup ({Default} \cup Taken(Copied))
    BY <1>1 DEF BackupTruncates, BackupCopies, Grow, history
  <2>5. expect' \subseteq Seq(Byte) /\ saved' \subseteq Seq(Byte)
    BY <2>2, <2>4, TakenOK
  <2>6. CopyParts'
    BY <2>1, <2>3, MapsOK DEF CopyParts, Backups, AllFiles
  <2> QED
    BY <2>1, <2>3, <2>5, <2>6 DEF TypeInv, TypeOK, CopyParts, Shape
<1>2. CASE BackupErases \/ BackupWritesMap \/ BackupWritesBitmap \/ BackupWritesData
  <2>1. /\ pc # "idle" /\ pc' \in {"map", "bitmap", "dat", "idle"}
        /\ UNCHANGED <<present, file, flag, all, boot, ret, req, want>>
    BY <1>2 DEF BackupErases, BackupWritesMap, BackupWritesBitmap, BackupWritesData, Goto, disk, history
  <2>2. \/ bin' = Erased \/ bin' = bin \/ bin' = [bin EXCEPT !.map = all.map]
        \/ bin' = [bin EXCEPT !.bitmap = TRUE] \/ bin' = [bin EXCEPT !.dat = all.dat]
    BY <1>2 DEF BackupErases, BackupWritesMap, BackupWritesBitmap, BackupWritesData
  <2>3. bin' \in Backups
    BY <2>2 DEF Backups
  <2>4. CopyParts'
    BY <2>1, <2>3, MapsOK DEF CopyParts, Backups, AllFiles
  <2>5. Taken(all.dat) \subseteq Seq(Byte) /\ Confused(bin') \subseteq Seq(Byte)
    <3>1. Copy(bin') \in Seq(Byte)
      BY <2>4, CopyOK DEF CopyParts
    <3> QED
      BY <3>1, TakenOK DEF Confused
  <2>6. \/ UNCHANGED <<expect, saved>>
        \/ /\ saved' = saved \cup Confused(bin')
           /\ expect' = expect \/ expect' = expect \cup Confused(bin')
        \/ /\ expect' = expect
           /\ saved' = Taken(all.dat) \cup {} \/ saved' = Taken(all.dat) \cup {Default}
    BY <1>2 DEF BackupErases, BackupWritesMap, BackupWritesBitmap, BackupWritesData, Grow, history
  <2>7. expect' \subseteq Seq(Byte) /\ saved' \subseteq Seq(Byte)
    BY <2>5, <2>6
  <2> QED
    BY <2>1, <2>3, <2>4, <2>7 DEF TypeInv, TypeOK, CopyParts, Shape
<1>3. CASE RestoreAllTruncates \/ RestoreAllRefills
  <2>1. /\ pc # "idle" /\ pc' \in {"refill", "idle"}
        /\ file' = file \/ file' = <<>> \/ file' = Copy(all)
        /\ present' = present \/ present' = TRUE
        /\ \/ expect' = expect \/ expect' = InDoubt
           \/ expect' = Taken(Copy(all)) \cup {} \/ expect' = Taken(Copy(all)) \cup saved
    BY <1>3 DEF RestoreAllTruncates, RestoreAllRefills, Goto, disk
  <2>2. UNCHANGED <<flag, bin, all, boot, ret, req, want, saved>>
    BY <1>3 DEF RestoreAllTruncates, RestoreAllRefills
  <2>3. file' \in Seq(Byte) /\ present' \in BOOLEAN
    BY <2>1 DEF TypeOK
  <2>4. expect' \subseteq Seq(Byte)
    BY <2>1, TakenOK DEF InDoubt
  <2> QED
    BY <2>1, <2>2, <2>3, <2>4 DEF TypeInv, TypeOK, Shape
<1> QED
  BY <1>1, <1>2, <1>3 DEF Backup, RestoreAll

\* Every step keeps the types.
LEMMA TypeStep ==
  ASSUME TypeInv, [Next]_vars
  PROVE  TypeInv'
<1>. TypeOK /\ bin \in Backups /\ all \in AllFiles /\ Shape
  BY DEF TypeInv
<1>. <<>> \in Seq(Byte) /\ NoAll \in AllFiles /\ Default \in Seq(Byte)
  BY DataOK, MapsOK
<1>1. ASSUME NEW r \in Requests, Serve(r) PROVE TypeInv'
  <2>1. /\ boot = "ready" /\ req' = r /\ pc' \in {"backup", "reset", "open", "restoreAll"}
        /\ ret' \in {ret, "done"}
        /\ expect' = expect \/ expect' = InDoubt \cup {Default}
    BY <1>1 DEF Serve, Goto
  <2>2. UNCHANGED <<present, file, flag, bin, all, boot, want, saved>>
    BY <1>1 DEF Serve, storage, disk
  <2>3. expect' \subseteq Seq(Byte)
    BY <2>1 DEF InDoubt, TypeOK
  <2> QED
    BY <2>1, <2>2, <2>3 DEF TypeInv, TypeOK, Shape
<1>2. ASSUME NEW formatted \in BOOLEAN, PowerLoss(formatted) PROVE TypeInv'
  <2>1. /\ boot' = "start" /\ pc' = "idle"
        /\ \/ present' = FALSE /\ file' = <<>> /\ flag' = "none" /\ all' = NoAll /\ expect' = saved
           \/ UNCHANGED <<present, file, flag, all, expect>>
        /\ UNCHANGED <<bin, ret, req, want, saved>>
    BY <1>2 DEF PowerLoss, disk
  <2>2. all' \in AllFiles /\ file' \in Seq(Byte) /\ present' \in BOOLEAN /\ expect' \subseteq Seq(Byte)
    BY <2>1 DEF TypeOK
  <2>3. CopyParts'
    BY <2>1, <2>2, MapsOK DEF CopyParts, Backups, AllFiles
  <2> QED
    BY <2>1, <2>2, <2>3 DEF TypeInv, TypeOK, CopyParts, Shape
<1>3. CASE ServiceDies \/ UNCHANGED vars
  <2>1. /\ UNCHANGED <<present, file, flag, bin, all, boot, ret, req, want, expect, saved>>
        /\ pc' = pc \/ pc' = "idle"
    BY <1>3 DEF ServiceDies, vars, storage, disk, history
  <2> QED
    BY <2>1 DEF TypeInv, TypeOK, Shape
<1> QED
  BY <1>1, <1>2, <1>3, DaemonTypes, OpenTypes, UseTypes, BackupTypes DEF Next

\* TypeInv is an invariant.
LEMMA TypeAlways == Spec => []TypeInv
<1>1. Init => TypeInv
  <2> SUFFICES ASSUME Init PROVE TypeInv
    OBVIOUS
  <2>1. bin \in Backups /\ all \in AllFiles
    BY MapsOK DEF Init
  <2>2. CopyParts
    BY <2>1, MapsOK DEF CopyParts, Backups, AllFiles
  <2>3. <<>> \in Seq(Byte) /\ Default \in Seq(Byte)
    BY DataOK
  <2> QED
    BY <2>1, <2>2, <2>3 DEF Init, TypeInv, TypeOK, CopyParts, Shape
<1> QED
  BY <1>1, TypeStep, PTL DEF Spec

\* Whatever a client sends, the file and its copies stay sequences of bytes: the
\* check number that NVM_SetCheckNo appends is one byte.
THEOREM TypeCorrect == Spec => []TypeOK
BY TypeAlways, PTL DEF TypeInv

\* NVM_GetFileDesc hands out a file only if it has the right size and its check number
\* agrees, whatever the bytes are and wherever a write, a restore, a reset or a
\* backup was cut off.  That a cut makes the number disagree is not claimed.
THEOREM OnlyCheckedFiles == Spec => []HandsOutChecked
<1>1. TypeInv => HandsOutChecked
  BY DEF TypeInv, Shape, HandsOutChecked
<1> QED
  BY <1>1, TypeAlways, PTL

\* A backup that a restore accepts and that holds a file with right check bytes.
Sound(b) == HasMap(b) /\ Matches(b) /\ b.map.size = Size + 2 /\ Good(Copy(b))

\* AllMap and AllFile are what the partition holds.
Same(a, b) == a.map = b.map /\ a.dat = b.dat

-----------------------------------------------------------------------------
(* What the file holds *)

\* A sound file holds what it may hold; one in doubt may become what was saved.
FileInv ==
  /\ Good(file) => DataOf(file) \in expect
  /\ ~Good(file) => saved \subseteq expect
  /\ Len(file) = Size => DataOf(file) \in expect
  /\ ~present => file = <<>>

\* A restore ends with what was saved: with the copy in the partition if it is sound
\* and can be read, otherwise with the default.
BackupInv ==
  /\ Confused(bin) \subseteq saved
  /\ Default \in saved \/ Sound(bin)
  /\ ~inList => Default \in saved
  /\ boot = "ready" /\ flag = "none" /\ ~present => Default \in saved

\* What is known at each place of the daemon.
DaemonInv ==
  /\ boot = "load" => HasMap(bin)
  /\ boot \in {"check", "refill"} => HasMap(bin) /\ Same(all, bin)
  /\ boot = "refill" => Matches(bin) /\ present /\ file = <<>>

\* What is known while the file is opened, restored, reset or closed.
OpenInv ==
  /\ pc \in {"default", "rewrite", "setno", "setno2"} => present
  /\ pc \in {"restore", "load", "check", "rewrite"} =>
       ~Good(file) /\ inList /\ (ret = "done" => Outcome = saved)
  /\ pc \in {"load", "check", "rewrite"} => HasMap(bin)
  /\ pc \in {"check", "rewrite"} => Same(all, bin)
  /\ pc = "rewrite" => Matches(bin)
  /\ pc \in {"reset", "default"} =>
       saved \subseteq expect /\ Default \in expect /\ (ret = "done" => Default \in Outcome)
  /\ pc \in {"setno", "setno2"} =>
       DataOf(file) \in expect /\ (ret = "done" => DataOf(file) \in Outcome)
  /\ pc = "done" => DataOf(file) \in Outcome

\* What is known while the file is written.
WriteInv ==
  /\ pc \in {"writing", "close"} => req.op = "write" /\ Len(file) >= Size + 2 /\ Kept(want) \subseteq expect
  /\ pc = "writing" => saved \subseteq expect /\ want = Overwrite(file, Len(req.bytes), req.bytes)
  /\ pc = "close" => file = want

\* What is known while the backup is written, and while RestoreAll_NvRam runs.
BackingUp ==
  /\ pc \in {"erase", "map", "bitmap", "dat"} =>
       /\ Default \in saved /\ Taken(all.dat) \subseteq saved /\ all.map = MapOf(all.dat)
       /\ ~inList \/ ~present => all.dat = <<>>
  /\ pc \in {"bitmap", "dat"} => bin.map = all.map
  /\ pc = "dat" => bin.bitmap
  /\ pc = "refill" => present /\ file = <<>>

RecordInv == FileInv /\ BackupInv /\ DaemonInv /\ OpenInv /\ WriteInv /\ BackingUp

\* Two places with the same map and data read the same.
LEMMA SameFacts ==
  ASSUME NEW a, NEW b, Same(a, b)
  PROVE  Copy(a) = Copy(b) /\ (Matches(a) <=> Matches(b)) /\ a.map.size = b.map.size
BY DEF Same, Copy, Matches

\* What a restore from a sound copy, and from one it accepts, ends with.
LEMMA RestoreFacts ==
  ASSUME TypeInv, BackupInv
  PROVE  /\ HasMap(bin) /\ Matches(bin) => Taken(Copy(bin)) \subseteq saved
         /\ Default \in saved \/ Sound(bin)
         /\ Sound(bin) => HasMap(bin) /\ Matches(bin) /\ bin.map.size = Size + 2 /\ Copy(bin) # <<>>
         /\ Sound(bin) => NVM_CheckFile(Copy(bin))
<1>1. HasMap(bin) /\ Matches(bin) => Taken(Copy(bin)) \subseteq saved
  BY DEF BackupInv, Confused
<1>2. Sound(bin) => Copy(bin) # <<>> /\ NVM_CheckFile(Copy(bin))
  BY EmptyFacts DEF Sound, Good
<1> QED
  BY <1>1, <1>2 DEF BackupInv, Sound

\* nvram_daemon at boot.
LEMMA DaemonKeeps ==
  ASSUME TypeInv, RecordInv, Daemon
  PROVE  RecordInv'
<1>. TypeOK /\ Shape /\ FileInv /\ BackupInv /\ DaemonInv /\ OpenInv /\ WriteInv /\ BackingUp
  BY DEF TypeInv, RecordInv
<1>. /\ HasMap(bin) /\ Matches(bin) => Taken(Copy(bin)) \subseteq saved
     /\ Default \in saved \/ Sound(bin)
     /\ Sound(bin) => HasMap(bin) /\ Matches(bin)
  BY RestoreFacts
<1>0. boot # "ready" /\ pc = "idle" /\ pc' = pc
  <2>1. boot # "ready" /\ pc' = pc
    BY DEF Daemon, BootChecksFlag, BootLoads, BootTruncates, BootRefills, BootOpensFlag, BootSetsFlag
  <2> QED
    BY <2>1 DEF Shape
<1>. /\ OpenInv' /\ WriteInv' /\ BackingUp'
  BY <1>0 DEF OpenInv, WriteInv, BackingUp
<1>1. CASE BootChecksFlag \/ BootLoads
  <2>1. UNCHANGED <<present, file, flag, bin, inList, expect, saved>>
    BY <1>1 DEF BootChecksFlag, BootLoads, disk, kind, history
  <2>2. \/ boot' = "ready" /\ (flag = "set" \/ ~HasMap(bin))
        \/ boot' = "load" /\ HasMap(bin)
        \/ boot' = "check" /\ boot = "load" /\ all' = [map |-> bin.map, dat |-> bin.dat]
    BY <1>1 DEF BootChecksFlag, BootLoads
  <2>3. FileInv'
    BY <2>1 DEF FileInv
  <2>4. BackupInv'
    BY <2>1, <2>2 DEF BackupInv
  <2>5. DaemonInv'
    BY <2>1, <2>2 DEF DaemonInv, Same
  <2> QED
    BY <2>3, <2>4, <2>5 DEF RecordInv
<1>2. CASE BootTruncates
  <2>1. /\ boot = "check" /\ UNCHANGED <<flag, bin, all, inList, saved>>
        /\ \/ /\ boot' = "refill" /\ Matches(all) /\ present' = TRUE /\ file' = <<>>
              /\ expect' = InDoubt
           \/ /\ boot' = "flag" /\ UNCHANGED <<present, file, expect>>
           \/ /\ boot' = "ready" /\ ~Matches(all) /\ UNCHANGED <<present, file, expect>>
    BY <1>2 DEF BootTruncates, disk, kind
  <2>2. HasMap(bin) /\ Same(all, bin)
    BY <2>1 DEF DaemonInv
  <2>3. Matches(all) <=> Matches(bin)
    BY <2>2, SameFacts
  <2>4. FileInv'
    BY <2>1, EmptyFacts DEF FileInv, InDoubt
  <2>5. BackupInv'
    BY <2>1, <2>3 DEF BackupInv
  <2>6. DaemonInv'
    BY <2>1, <2>2, <2>3 DEF DaemonInv
  <2> QED
    BY <2>4, <2>5, <2>6 DEF RecordInv
<1>3. CASE BootRefills
  <2>1. /\ boot = "refill" /\ boot' \in {"ready", "flag"} /\ file' = Copy(all) /\ expect' = saved
        /\ UNCHANGED <<present, flag, bin, inList, saved>>
    BY <1>3 DEF BootRefills, kind
  <2>2. HasMap(bin) /\ Same(all, bin) /\ Matches(bin) /\ present
    BY <2>1 DEF DaemonInv
  <2>3. Copy(all) = Copy(bin) /\ Copy(bin) \in Seq(Byte) /\ Taken(Copy(bin)) \subseteq saved
    BY <2>2, SameFacts, CopiesOK
  <2>4. FileInv'
    BY <2>1, <2>2, <2>3, TakenOK DEF FileInv
  <2>5. BackupInv'
    BY <2>1, <2>2 DEF BackupInv
  <2>6. DaemonInv'
    BY <2>1 DEF DaemonInv
  <2> QED
    BY <2>4, <2>5, <2>6 DEF RecordInv
<1>4. CASE BootOpensFlag \/ BootSetsFlag
  <2>1. /\ boot' \in {"ready", "setflag"} /\ flag' \in {"empty", "set"}
        /\ UNCHANGED <<present, file, bin, inList, expect, saved>>
    BY <1>4 DEF BootOpensFlag, BootSetsFlag, disk, kind, history
  <2> QED
    BY <2>1 DEF RecordInv, FileInv, BackupInv, DaemonInv
<1> QED
  BY <1>1, <1>2, <1>3, <1>4 DEF Daemon

\* Opening the file: checks, restores and resets.
LEMMA OpenKeeps ==
  ASSUME TypeInv, RecordInv, OpenFile
  PROVE  RecordInv'
<1>. TypeOK /\ Shape /\ FileInv /\ BackupInv /\ DaemonInv /\ OpenInv /\ WriteInv /\ BackingUp
  BY DEF TypeInv, RecordInv
<1>. /\ HasMap(bin) /\ Matches(bin) => Taken(Copy(bin)) \subseteq saved
     /\ Default \in saved \/ Sound(bin)
     /\ Sound(bin) => HasMap(bin) /\ Matches(bin) /\ bin.map.size = Size + 2 /\ Copy(bin) # <<>>
     /\ Sound(bin) => NVM_CheckFile(Copy(bin))
  BY RestoreFacts
<1>. file \in Seq(Byte)
  BY DEF TypeOK
<1>0. /\ boot = "ready" /\ UNCHANGED <<flag, bin, boot, inList, req, want, expect, saved>>
      /\ pc' \in {"protect", "restore", "reset", "setno", "opened", "load", "check", "rewrite",
                  "default", "setno2", "done"}
  <2>1. pc # "idle" /\ UNCHANGED <<flag, bin, boot, inList, req, want, expect, saved>>
    BY DEF OpenFile, NVM_GetFileDesc, NVM_ProtectDataFile, Restore, RestoreLoads, RestoreTruncates,
           RestoreWrites, Reset, WriteDefault, SetCheckFlag, SetCheckNo, storage, kind, history
  <2>2. NVM_ProtectDataFile => pc' \in {"setno", "opened", "restore", "reset"}
    BY Branches
  <2>3. pc' \in {"protect", "restore", "reset", "setno", "opened", "load", "check", "rewrite",
                 "default", "setno2", "done"}
    BY <2>2 DEF OpenFile, NVM_GetFileDesc, Restore, RestoreLoads, RestoreTruncates,
           RestoreWrites, Reset, WriteDefault, SetCheckFlag, SetCheckNo, Goto, TypeOK
  <2> QED
    BY <2>1, <2>3 DEF Shape
<1>. DaemonInv' /\ WriteInv' /\ BackingUp' /\ Outcome' = Outcome
  BY <1>0 DEF DaemonInv, WriteInv, BackingUp, Outcome
<1>1. CASE NVM_GetFileDesc
  <2>1. /\ \/ pc' = "protect" /\ UNCHANGED <<present, file>>
           \/ /\ pc' = "restore" /\ UNCHANGED <<present, file>> /\ ret' = "protect" /\ inList
              /\ ~present
           \/ /\ pc' = "reset" /\ present' = TRUE /\ file' = <<>> /\ ret' = "protect"
              /\ ~present /\ (flag = "none" \/ ~inList)
    BY <1>1 DEF NVM_GetFileDesc, Goto, disk, TypeOK
  <2>2. ~present => ~Good(file) /\ saved \subseteq expect
    BY EmptyFacts DEF FileInv
  <2>3. FileInv'
    BY <1>0, <2>1, <2>2, EmptyFacts DEF FileInv
  <2>4. BackupInv'
    BY <1>0, <2>1 DEF BackupInv
  <2>5. pc' = "reset" => Default \in saved
    BY <1>0, <2>1 DEF BackupInv
  <2>6. OpenInv'
    BY <1>0, <2>1, <2>2, <2>5 DEF OpenInv
  <2> QED
    BY <2>3, <2>4, <2>6 DEF RecordInv
<1>2. CASE NVM_ProtectDataFile
  <2>1. ret' = "opened" /\ UNCHANGED <<present, file>>
    BY <1>2 DEF NVM_ProtectDataFile, storage, disk
  <2>2. \/ pc' = "setno" /\ Len(file) = Size
        \/ pc' = "opened"
        \/ pc' = "restore" /\ inList /\ ~Good(file)
        \/ pc' = "reset" /\ ~inList /\ ~Good(file)
    BY <1>2, Branches
  <2>3. FileInv' /\ BackupInv'
    BY <1>0, <2>1 DEF FileInv, BackupInv
  <2>4. Len(file) = Size => present
    BY EmptyFacts DEF FileInv
  <2>5. OpenInv'
    BY <1>0, <2>1, <2>2, <2>4 DEF OpenInv, FileInv, BackupInv, TypeOK
  <2> QED
    BY <2>3, <2>5 DEF RecordInv
<1>3. CASE Restore \/ RestoreLoads
  <2>1. UNCHANGED <<present, file, ret>>
    BY <1>3 DEF Restore, RestoreLoads, disk
  <2>2. /\ pc \in {"restore", "load"}
        /\ \/ pc' = "load" /\ HasMap(bin)
           \/ pc' = "reset" /\ ~HasMap(bin)
           \/ pc' = "check" /\ pc = "load" /\ all' = [map |-> bin.map, dat |-> bin.dat]
    BY <1>3 DEF Restore, RestoreLoads, Goto
  <2>3. FileInv' /\ BackupInv'
    BY <1>0, <2>1 DEF FileInv, BackupInv
  <2>4. OpenInv'
    BY <1>0, <2>1, <2>2 DEF OpenInv, FileInv, Same
  <2> QED
    BY <2>3, <2>4 DEF RecordInv
<1>4. CASE RestoreTruncates
  <2>1. /\ pc = "check" /\ UNCHANGED <<all, ret>>
        /\ \/ pc' = "rewrite" /\ present' = TRUE /\ file' = <<>> /\ Matches(all)
           \/ /\ pc' = "reset" /\ UNCHANGED <<present, file>>
              /\ ~(Matches(all) /\ all.map.size = Size + 2 /\ Copy(all) # <<>>)
    BY <1>4 DEF RestoreTruncates, Goto, disk
  <2>2. /\ ~Good(file) /\ inList /\ (ret = "done" => Outcome = saved) /\ HasMap(bin) /\ Same(all, bin)
        /\ saved \subseteq expect
    BY <2>1 DEF OpenInv, FileInv
  <2>3. Copy(all) = Copy(bin) /\ (Matches(all) <=> Matches(bin)) /\ all.map.size = bin.map.size
    BY <2>2, SameFacts
  <2>4. FileInv'
    BY <1>0, <2>1, <2>2, EmptyFacts DEF FileInv
  <2>5. BackupInv'
    BY <1>0, <2>1 DEF BackupInv
  <2>6. pc' = "reset" => Default \in saved
    BY <2>1, <2>3
  <2>7. OpenInv'
    BY <1>0, <2>1, <2>2, <2>3, <2>6, EmptyFacts DEF OpenInv
  <2> QED
    BY <2>4, <2>5, <2>7 DEF RecordInv
<1>5. CASE RestoreWrites
  <2>1. /\ pc = "rewrite" /\ file' = Copy(all) /\ UNCHANGED <<present, all, ret>>
        /\ \/ pc' = ret /\ NVM_CheckFile(Copy(all))
           \/ pc' = "reset" /\ ~NVM_CheckFile(Copy(all))
    BY <1>5 DEF RestoreWrites, Goto
  <2>2. /\ ~Good(file) /\ inList /\ (ret = "done" => Outcome = saved) /\ HasMap(bin) /\ Same(all, bin)
        /\ saved \subseteq expect /\ Matches(bin)
    BY <2>1 DEF OpenInv, FileInv
  <2>3. Copy(all) = Copy(bin) /\ Copy(all) \in Seq(Byte) /\ Len(Copy(all)) = Size + 2
    BY <2>1, <2>2, SameFacts, CopiesOK, CopyOK DEF Shape
  <2>4. Taken(file') \subseteq saved /\ file' \in Seq(Byte) /\ Len(file') = Size + 2 /\ Len(file') # Size
    BY <2>1, <2>2, <2>3 DEF Size, RecSize, RecNum
  <2>5. Good(file') <=> NVM_CheckFile(file')
    BY <2>4, SizeCases
  <2>6. Good(file') => DataOf(file') \in saved
    BY <2>4, TakenOK
  <2>7. pc' = "reset" => Default \in saved
    BY <2>1, <2>3 DEF TypeOK
  <2>8. FileInv'
    <3>1. present
      BY <2>1 DEF OpenInv
    <3> QED
      BY <1>0, <2>1, <2>2, <2>4, <2>6, <3>1 DEF FileInv
  <2>9. BackupInv'
    BY <1>0, <2>1 DEF BackupInv
  <2>10. OpenInv'
    BY <1>0, <2>1, <2>2, <2>5, <2>6, <2>7 DEF OpenInv, TypeOK
  <2> QED
    BY <2>8, <2>9, <2>10 DEF RecordInv
<1>6. CASE Reset \/ WriteDefault
  <2>1. /\ pc \in {"reset", "default"} /\ ret' = ret
        /\ \/ pc' = "default" /\ file' = <<>> /\ present' = TRUE
           \/ pc' = "setno" /\ file' = Default /\ present' = present /\ pc = "default"
    BY <1>6 DEF Reset, WriteDefault, Goto
  <2>2. saved \subseteq expect /\ Default \in expect /\ (ret = "done" => Default \in Outcome)
    BY <2>1 DEF OpenInv
  <2>3. FileInv'
    BY <1>0, <2>1, <2>2, EmptyFacts DEF FileInv, OpenInv
  <2>4. BackupInv'
    BY <1>0, <2>1 DEF BackupInv
  <2>5. OpenInv'
    BY <1>0, <2>1, <2>2, EmptyFacts DEF OpenInv
  <2> QED
    BY <2>3, <2>4, <2>5 DEF RecordInv
<1>7. CASE SetCheckFlag
  <2>1. /\ pc = "setno" /\ pc' = "setno2" /\ file' = Overwrite(file, Size, <<Mark>>)
        /\ UNCHANGED <<present, ret>>
    BY <1>7 DEF SetCheckFlag, Goto
  <2>2. Len(file) = Size \/ Len(file) = Size + 2
    BY <2>1 DEF Shape
  <2>3. /\ DataOf(file') = DataOf(file) /\ (Good(file) => Good(file'))
        /\ Len(file') = IF Len(file) = Size THEN Size + 1 ELSE Size + 2
    BY <2>1, <2>2, MarkKeeps
  <2>4. Len(file') # Size
    BY <2>3 DEF Size, RecSize, RecNum
  <2>5. FileInv'
    <3>1. present /\ DataOf(file) \in expect
      BY <2>1 DEF OpenInv
    <3> QED
      BY <1>0, <2>1, <2>3, <2>4, <3>1 DEF FileInv
  <2>6. BackupInv'
    BY <1>0, <2>1 DEF BackupInv
  <2>7. OpenInv'
    BY <1>0, <2>1, <2>3 DEF OpenInv
  <2> QED
    BY <2>5, <2>6, <2>7 DEF RecordInv
<1>8. CASE SetCheckNo
  <2>1. /\ pc = "setno2" /\ pc' = ret /\ UNCHANGED <<present, ret>>
        /\ file' = Overwrite(file, Size + 1, <<NVM_ComputeCheckNo(file)>>)
    BY <1>8 DEF SetCheckNo, Goto
  <2>2. (Len(file) = Size + 1 \/ Len(file) = Size + 2) /\ file[Size + 1] = Mark
    BY <2>1 DEF Shape
  <2>3. file' \in Seq(Byte) /\ Good(file') /\ DataOf(file') = DataOf(file)
    BY <2>1, <2>2, NumberMakesGood
  <2>4. Len(file') # Size
    BY <2>3, TakenOK DEF Size, RecSize, RecNum
  <2>5. /\ present /\ DataOf(file) \in expect /\ (ret = "done" => DataOf(file) \in Outcome)
    BY <2>1 DEF OpenInv
  <2>6. FileInv'
    BY <1>0, <2>1, <2>3, <2>4, <2>5 DEF FileInv
  <2>7. BackupInv'
    BY <1>0, <2>1 DEF BackupInv
  <2>8. OpenInv'
    BY <1>0, <2>1, <2>3, <2>5 DEF OpenInv, TypeOK
  <2> QED
    BY <2>6, <2>7, <2>8 DEF RecordInv
<1> QED
  BY <1>1, <1>2, <1>3, <1>4, <1>5, <1>6, <1>7, <1>8 DEF OpenFile

\* The service with the file open.
LEMMA UseKeeps ==
  ASSUME TypeInv, RecordInv, UseFile
  PROVE  RecordInv'
<1>. TypeOK /\ Shape /\ FileInv /\ BackupInv /\ DaemonInv /\ OpenInv /\ WriteInv /\ BackingUp
  BY DEF TypeInv, RecordInv
<1>. /\ file \in Seq(Byte) /\ want \in Seq(Byte)
     /\ Size = 4
  BY DEF TypeOK, Size, RecSize, RecNum
<1>. req.at \in Int /\ req.bytes \in Seq(Byte) /\ Len(req.bytes) \in Nat
  <2>1. req.at \in Int /\ req.bytes \in Seq(Byte)
    BY RequestOK DEF TypeOK
  <2> QED
    BY <2>1
<1>0. /\ boot = "ready" /\ UNCHANGED <<present, flag, bin, boot, inList, saved>>
      /\ pc' \in {"idle", "close", "writing", "setno", "restore", "reset"}
  <2>1. pc # "idle" /\ UNCHANGED <<present, flag, bin, boot, inList, saved>>
    BY DEF UseFile, Read, WriteFirst, WriteNext, SeekFails, WriteFails, NVM_CloseFileDesc, Done,
           storage, disk, kind, history
  <2>2. NVM_CloseFileDesc => pc' \in {"setno", "restore", "reset"}
    BY Branches
  <2>3. pc' \in {"idle", "close", "writing", "setno", "restore", "reset"}
    BY <2>2 DEF UseFile, Read, WriteFirst, WriteNext, SeekFails, WriteFails, Done, Goto
  <2> QED
    BY <2>1, <2>3 DEF Shape
<1>. DaemonInv' /\ BackingUp' /\ BackupInv'
  BY <1>0 DEF DaemonInv, BackingUp, BackupInv
<1>1. CASE Read \/ Done
  <2>1. /\ pc \in {"opened", "done"} /\ pc' = "idle" /\ file' = file
        /\ expect' = {DataOf(file)} \/ (pc = "done" /\ expect' = Outcome)
    BY <1>1 DEF Read, Done, Goto, storage, disk
  <2>2. Good(file) /\ Len(file) # Size
    <3>1. Good(file)
      BY <2>1 DEF Shape
    <3> QED
      BY <3>1, TakenOK
  <2>3. FileInv'
    BY <1>0, <2>1, <2>2 DEF FileInv, OpenInv
  <2>4. OpenInv' /\ WriteInv'
    BY <2>1 DEF OpenInv, WriteInv
  <2> QED
    BY <2>3, <2>4 DEF RecordInv
<1>2. CASE WriteFirst
  <2>1. /\ pc = "opened" /\ req.at >= 0 /\ req.op = "write" /\ req' = req
        /\ (pc' = "close" /\ req.times = 1) \/ (pc' = "writing" /\ req.times # 1)
        /\ file' = First /\ want' = Last /\ expect' = InDoubt \cup Kept(Last) \cup Taken(First)
    BY <1>2 DEF WriteFirst, Goto
  <2>2. req.at \in Nat /\ Good(file)
    BY <2>1 DEF Shape
  <2>3. Len(file) = Size + 2 /\ present
    BY <2>2, TakenOK, EmptyFacts DEF FileInv
  <2>4. First \in Seq(Byte) /\ Len(First) >= Size + 2
    <3> DEFINE w == req.bytes
               at == req.at
    <3>1. w \in Seq(Byte) /\ Len(w) \in Nat /\ at \in Nat /\ First = Overwrite(file, at, w)
      BY <2>2 DEF First
    <3> HIDE DEF w, at
    <3>2. First \in Seq(Byte) /\ Len(First) = EndOf(file, at, w)
      BY <3>1, OverwriteOK
    <3>3. EndOf(file, at, w) = IF at + Len(w) > Len(file) THEN at + Len(w) ELSE Len(file)
      BY DEF EndOf
    <3> QED
      BY <2>3, <3>1, <3>2, <3>3
  <2>5. Last = IF req.times = 1 THEN First ELSE Overwrite(First, Len(req.bytes), req.bytes)
    BY DEF Last
  <2>6. FileInv'
    BY <1>0, <2>1, <2>3, <2>4, TakenOK DEF FileInv, InDoubt
  <2>7. OpenInv'
    BY <2>1 DEF OpenInv
  <2>8. WriteInv'
    BY <1>0, <2>1, <2>4, <2>5 DEF WriteInv, InDoubt
  <2> QED
    BY <2>6, <2>7, <2>8 DEF RecordInv
<1>3. CASE WriteNext
  <2> DEFINE g == Overwrite(file, Len(req.bytes), req.bytes)
  <2>1. /\ pc = "writing" /\ pc' = "close" /\ file' = g /\ expect' = expect \cup Taken(g)
        /\ UNCHANGED <<req, want>>
    BY <1>3 DEF WriteNext, Goto
  <2>2. /\ req.op = "write" /\ Len(file) >= Size + 2 /\ Kept(want) \subseteq expect
        /\ saved \subseteq expect /\ want = g
    BY <2>1 DEF WriteInv
  <2>3. g \in Seq(Byte) /\ Len(g) >= Size + 2
    <3> DEFINE w == req.bytes
    <3>1. w \in Seq(Byte) /\ Len(w) \in Nat /\ g = Overwrite(file, Len(w), w)
      OBVIOUS
    <3> HIDE DEF w, g
    <3>2. g \in Seq(Byte) /\ Len(g) = EndOf(file, Len(w), w)
      BY <3>1, OverwriteOK
    <3>3. EndOf(file, Len(w), w) = IF Len(w) + Len(w) > Len(file) THEN Len(w) + Len(w) ELSE Len(file)
      BY DEF EndOf
    <3>4. Len(file) \in Nat
      OBVIOUS
    <3> QED
      BY <2>2, <3>1, <3>2, <3>3, <3>4
  <2> HIDE DEF g
  <2>4. present
    <3>1. file # <<>>
      BY <2>2, DataOK
    <3> QED
      BY <3>1 DEF FileInv
  <2>5. FileInv'
    BY <1>0, <2>1, <2>2, <2>3, <2>4, TakenOK DEF FileInv
  <2>6. OpenInv'
    BY <2>1 DEF OpenInv
  <2>7. WriteInv'
    BY <1>0, <2>1, <2>2, <2>3 DEF WriteInv
  <2> QED
    BY <2>5, <2>6, <2>7 DEF RecordInv
<1>4. CASE SeekFails \/ WriteFails
  <2>1. /\ pc \in {"opened", "writing"} /\ pc' = "close" /\ want' = file /\ file' = file
        /\ req.op = "write" /\ req' = req
        /\ (pc = "opened" /\ expect' = expect) \/ expect' = expect \cup Kept(file)
    BY <1>4 DEF SeekFails, WriteFails, Goto, storage, disk
  <2>2. Len(file) >= Size + 2 /\ Kept(file) \subseteq expect'
    <3>1. CASE pc = "opened"
      <4>1. Good(file)
        BY <3>1 DEF Shape
      <4>2. Len(file) = Size + 2 /\ Kept(file) = {DataOf(file)}
        BY <4>1, TakenOK
      <4> QED
        BY <2>1, <4>1, <4>2 DEF FileInv
    <3>2. CASE pc = "writing"
      BY <2>1, <3>2 DEF WriteInv
    <3> QED
      BY <2>1, <3>1, <3>2
  <2>3. FileInv'
    BY <1>0, <2>1 DEF FileInv
  <2>4. OpenInv'
    BY <2>1 DEF OpenInv
  <2>5. WriteInv'
    BY <1>0, <2>1, <2>2 DEF WriteInv
  <2> QED
    BY <2>3, <2>4, <2>5 DEF RecordInv
<1>5. CASE NVM_CloseFileDesc
  <2>1. pc = "close" /\ ret' = "done" /\ UNCHANGED <<file, req, want, expect>>
    BY <1>5 DEF NVM_CloseFileDesc, storage, disk, history
  <2>2. req.op = "write" /\ Len(file) >= Size + 2 /\ Kept(want) \subseteq expect /\ file = want
    BY <2>1 DEF WriteInv
  <2>3. /\ Len(want) = Size + 2 => Outcome = {DataOf(file)} /\ DataOf(file) \in expect
        /\ Len(want) # Size + 2 => Outcome = saved
    <3>1. Len(want) = Size + 2 => Kept(want) = {DataOf(want)}
      BY DEF Kept
    <3> QED
      BY <2>2, <3>1 DEF Outcome
  <2>4. Outcome' = Outcome
    BY <1>0, <2>1 DEF Outcome
  <2>5. \/ pc' = "setno" /\ Len(file) = Size + 2
        \/ pc' = "restore" /\ inList /\ ~Good(file) /\ Len(file) # Size + 2
        \/ pc' = "reset" /\ ~inList /\ ~Good(file) /\ Len(file) # Size + 2
    <3>1. Len(file) \in Nat /\ Len(file) # Size
      <4>1. PICK n \in Nat : n = Len(file)
        OBVIOUS
      <4>2. n >= 6
        BY <2>2, <4>1
      <4>3. n # 4
        BY ONLY <4>2
      <4> QED
        BY <4>1, <4>3
    <3> QED
      BY <1>5, <3>1, Branches
  <2>6. present
    <3>1. file # <<>>
      BY <2>2, DataOK
    <3> QED
      BY <3>1 DEF FileInv
  <2>7. FileInv'
    BY <1>0, <2>1 DEF FileInv
  <2>8. OpenInv'
    BY <1>0, <2>1, <2>2, <2>3, <2>4, <2>5, <2>6 DEF OpenInv, FileInv, BackupInv
  <2>9. WriteInv'
    BY <2>5 DEF WriteInv
  <2> QED
    BY <2>7, <2>8, <2>9 DEF RecordInv
<1> QED
  BY <1>1, <1>2, <1>3, <1>4, <1>5 DEF UseFile

\* A complete backup reads back as it was written.
LEMMA WrittenBack ==
  ASSUME NEW b, b.dat \in Seq(Byte), b.map = MapOf(b.dat), b.bitmap = TRUE
  PROVE  /\ Confused(b) \subseteq Taken(b.dat)
         /\ Good(b.dat) => Sound(b)
<1>1. MapOf(b.dat) # NoMap /\ b.map.size = Len(b.dat) /\ b.map.sum = FileOp_ComputeCheckSum(b.dat)
  BY MapsOK DEF MapOf
<1>2. HasMap(b) /\ Matches(b)
  BY <1>1 DEF HasMap, Matches
<1>3. Copy(b) = b.dat
  <2>1. CASE Len(b.dat) = 0
    <3>1. b.dat = <<>>
      BY <2>1
    <3> QED
      BY <1>1, <2>1, <3>1 DEF Copy
  <2>2. CASE Len(b.dat) # 0
    <3>1. b.map.size \in 1 .. Len(b.dat)
      BY <1>1, <2>2
    <3> QED
      BY <1>1, <3>1, WholeSub DEF Copy
  <2> QED
    BY <2>1, <2>2
<1>4. Good(b.dat) => Len(b.dat) = Size + 2
  BY TakenOK
<1> QED
  BY <1>1, <1>2, <1>3, <1>4 DEF Confused, Sound

\* The backup: what is in the partition can be restored, or the default may come.
LEMMA BackupKeeps ==
  ASSUME TypeInv, RecordInv, Backup
  PROVE  RecordInv'
<1>. TypeOK /\ Shape /\ FileInv /\ BackupInv /\ DaemonInv /\ OpenInv /\ WriteInv /\ BackingUp
  BY DEF TypeInv, RecordInv
<1>. bin \in Backups /\ all.dat \in Seq(Byte) /\ file \in Seq(Byte)
  BY CopiesOK DEF TypeInv, TypeOK
<1>0. /\ boot = "ready" /\ UNCHANGED <<present, file, flag, boot, inList>>
      /\ pc' \in {"copy", "idle", "erase", "map", "bitmap", "dat"}
  <2>1. /\ pc # "idle" /\ UNCHANGED <<present, file, flag, boot, inList>>
        /\ pc' \in {"copy", "idle", "erase", "map", "bitmap", "dat"}
    BY DEF Backup, BackupTruncates, BackupCopies, BackupErases, BackupWritesMap,
           BackupWritesBitmap, BackupWritesData, disk, kind, Goto
  <2> QED
    BY <2>1 DEF Shape
<1>. DaemonInv' /\ OpenInv' /\ WriteInv'
  BY <1>0 DEF DaemonInv, OpenInv, WriteInv
<1>1. CASE BackupTruncates
  <2>1. pc' = "copy" /\ UNCHANGED <<bin, expect, saved>>
    BY <1>1 DEF BackupTruncates, Goto, history
  <2> QED
    BY <1>0, <2>1 DEF RecordInv, FileInv, BackupInv, BackingUp
<1>2. CASE BackupCopies
  <2>1. bin' = bin /\ all' = [map |-> MapOf(Copied), dat |-> Copied]
    BY <1>2 DEF BackupCopies
  <2>2. \/ pc' = "idle" /\ UNCHANGED <<expect, saved>>
        \/ /\ pc' = "erase" /\ req.op = "backup"
           /\ saved' = saved \cup ({Default} \cup Taken(Copied))
           /\ \/ Good(file) /\ expect' = expect
              \/ ~Good(file) /\ expect' = expect \cup ({Default} \cup Taken(Copied))
    BY <1>2 DEF BackupCopies, Grow, Goto
  <2>3. req.op = "backup" /\ (~inList \/ ~present) => Copied = <<>>
    BY DEF Copied, FileInv
  <2>4. all'.dat = Copied /\ all'.map = MapOf(Copied)
    BY <2>1
  <2>5. FileInv'
    BY <1>0, <2>2 DEF FileInv
  <2>6. BackupInv'
    BY <1>0, <2>1, <2>2 DEF BackupInv
  <2>7. BackingUp'
    BY <1>0, <2>2, <2>3, <2>4 DEF BackingUp
  <2> QED
    BY <2>5, <2>6, <2>7 DEF RecordInv
<1>3. CASE BackupErases
  <2>1. /\ pc = "erase" /\ pc' = "map" /\ (bin' = Erased \/ bin' = bin)
        /\ UNCHANGED <<all, expect, saved>>
    BY <1>3 DEF BackupErases, Goto, history
  <2>2. Confused(Erased) = {}
    BY DEF Confused, HasMap, Erased
  <2>3. Default \in saved
    BY <2>1 DEF BackingUp
  <2>4. BackupInv'
    BY <1>0, <2>1, <2>2, <2>3 DEF BackupInv
  <2>5. FileInv' /\ BackingUp'
    BY <1>0, <2>1 DEF FileInv, BackingUp
  <2> QED
    BY <2>4, <2>5 DEF RecordInv
<1>4. CASE BackupWritesMap \/ BackupWritesBitmap
  <2>1. /\ all' = all /\ saved' = saved \cup Confused(bin')
        /\ \/ Good(file) /\ expect' = expect
           \/ ~Good(file) /\ expect' = expect \cup Confused(bin')
    BY <1>4 DEF BackupWritesMap, BackupWritesBitmap, Grow
  <2>2. \/ pc = "map" /\ pc' = "bitmap" /\ bin'.map = all.map
        \/ pc = "bitmap" /\ pc' = "dat" /\ bin'.map = bin.map /\ bin'.bitmap
    BY <1>4 DEF BackupWritesMap, BackupWritesBitmap, Backups, Goto
  <2>3. /\ Default \in saved /\ Taken(all.dat) \subseteq saved /\ all.map = MapOf(all.dat)
        /\ ~inList \/ ~present => all.dat = <<>>
        /\ pc = "bitmap" => bin.map = all.map
    BY <2>2 DEF BackingUp
  <2>4. FileInv'
    BY <1>0, <2>1 DEF FileInv
  <2>5. BackupInv'
    BY <1>0, <2>1, <2>3 DEF BackupInv
  <2>6. BackingUp'
    BY <1>0, <2>1, <2>2, <2>3 DEF BackingUp
  <2> QED
    BY <2>4, <2>5, <2>6 DEF RecordInv
<1>5. CASE BackupWritesData
  <2>1. /\ pc = "dat" /\ pc' = "idle" /\ UNCHANGED <<all, expect>>
        /\ bin'.dat = all.dat /\ bin'.map = bin.map /\ bin'.bitmap = bin.bitmap
    BY <1>5 DEF BackupWritesData, Backups, Goto
  <2>2. /\ Default \in saved /\ Taken(all.dat) \subseteq saved /\ all.map = MapOf(all.dat)
        /\ ~inList \/ ~present => all.dat = <<>>
        /\ bin.map = all.map /\ bin.bitmap = TRUE
    BY <2>1, CopiesOK DEF BackingUp
  <2>3. Confused(bin') \subseteq Taken(bin'.dat) /\ (Good(bin'.dat) => Sound(bin'))
    BY <2>1, <2>2, WrittenBack
  <2>4. \/ Good(all.dat) /\ saved' = Taken(all.dat) \cup {}
        \/ ~Good(all.dat) /\ saved' = Taken(all.dat) \cup {Default}
    BY <1>5 DEF BackupWritesData
  <2>5. saved' \subseteq saved
    BY <2>2, <2>4
  <2>6. FileInv'
    BY <1>0, <2>1, <2>5 DEF FileInv
  <2>7. BackupInv'
    BY <1>0, <2>1, <2>2, <2>3, <2>4, EmptyFacts DEF BackupInv
  <2>8. BackingUp'
    BY <2>1 DEF BackingUp
  <2> QED
    BY <2>6, <2>7, <2>8 DEF RecordInv
<1> QED
  BY <1>1, <1>2, <1>3, <1>4, <1>5 DEF Backup

\* RestoreAll_NvRam.
LEMMA RestoreAllKeeps ==
  ASSUME TypeInv, RecordInv, RestoreAll
  PROVE  RecordInv'
<1>. TypeOK /\ Shape /\ FileInv /\ BackupInv /\ DaemonInv /\ OpenInv /\ WriteInv /\ BackingUp
  BY DEF TypeInv, RecordInv
<1>0. /\ boot = "ready" /\ UNCHANGED <<flag, bin, boot, inList, saved>> /\ pc' \in {"refill", "idle"}
  <2>1. /\ pc # "idle" /\ UNCHANGED <<flag, bin, boot, inList, saved>> /\ pc' \in {"refill", "idle"}
    BY DEF RestoreAll, RestoreAllTruncates, RestoreAllRefills, kind, Goto
  <2> QED
    BY <2>1 DEF Shape
<1>. DaemonInv' /\ OpenInv' /\ WriteInv'
  BY <1>0 DEF DaemonInv, OpenInv, WriteInv
<1>1. CASE RestoreAllTruncates
  <2>1. \/ pc' = "refill" /\ present' = TRUE /\ file' = <<>> /\ expect' = InDoubt
        \/ pc' = "idle" /\ UNCHANGED <<present, file, expect>>
    BY <1>1 DEF RestoreAllTruncates, Goto, disk
  <2>2. FileInv'
    BY <1>0, <2>1, EmptyFacts DEF FileInv, InDoubt
  <2>3. BackupInv' /\ BackingUp'
    BY <1>0, <2>1 DEF BackupInv, BackingUp
  <2> QED
    BY <2>2, <2>3 DEF RecordInv
<1>2. CASE RestoreAllRefills
  <2>1. /\ pc = "refill" /\ pc' = "idle" /\ file' = Copy(all) /\ present' = present
        /\ \/ Good(Copy(all)) /\ expect' = Taken(Copy(all)) \cup {}
           \/ ~Good(Copy(all)) /\ expect' = Taken(Copy(all)) \cup saved
    BY <1>2 DEF RestoreAllRefills, Goto
  <2>2. present /\ Copy(all) \in Seq(Byte)
    BY <2>1, CopiesOK DEF BackingUp
  <2>3. FileInv'
    BY <1>0, <2>1, <2>2, TakenOK DEF FileInv
  <2>4. BackupInv' /\ BackingUp'
    BY <1>0, <2>1 DEF BackupInv, BackingUp
  <2> QED
    BY <2>3, <2>4 DEF RecordInv
<1> QED
  BY <1>1, <1>2 DEF RestoreAll

\* A request, and a failure at any point.
LEMMA OtherKeeps ==
  ASSUME TypeInv, RecordInv,
         \/ \E r \in Requests : Serve(r)
         \/ \E formatted \in BOOLEAN : PowerLoss(formatted)
         \/ ServiceDies \/ UNCHANGED vars
  PROVE  RecordInv'
<1>. TypeOK /\ Shape /\ FileInv /\ BackupInv /\ DaemonInv /\ OpenInv /\ WriteInv /\ BackingUp
  BY DEF TypeInv, RecordInv
<1>1. ASSUME NEW r \in Requests, Serve(r) PROVE RecordInv'
  <2>1. /\ pc = "idle" /\ boot = "ready" /\ req' = r
        /\ UNCHANGED <<present, file, flag, bin, boot, inList, saved>>
    BY <1>1 DEF Serve, storage, disk, kind
  <2>2. \/ pc' \in {"backup", "open", "restoreAll"} /\ expect' = expect
        \/ /\ pc' = "reset" /\ r.op = "reset" /\ ret' = "done"
           /\ expect' = InDoubt \cup {Default}
    BY <1>1 DEF Serve, Goto
  <2>3. r.op = "reset" => Outcome' = {Default}
    BY <2>1 DEF Outcome
  <2>4. FileInv' /\ BackupInv' /\ DaemonInv'
    BY <2>1, <2>2 DEF FileInv, BackupInv, DaemonInv, InDoubt
  <2>5. OpenInv'
    BY <2>1, <2>2, <2>3 DEF OpenInv, InDoubt
  <2>6. WriteInv' /\ BackingUp'
    BY <2>1, <2>2 DEF WriteInv, BackingUp
  <2> QED
    BY <2>4, <2>5, <2>6 DEF RecordInv
<1>2. ASSUME NEW formatted \in BOOLEAN, PowerLoss(formatted) PROVE RecordInv'
  <2>1. /\ pc' = "idle" /\ boot' = "start" /\ UNCHANGED <<bin, inList, saved>>
        /\ \/ file' = <<>> /\ expect' = saved
           \/ UNCHANGED <<present, file, expect>>
    BY <1>2 DEF PowerLoss, disk, kind
  <2>2. FileInv'
    BY <2>1, EmptyFacts DEF FileInv
  <2> QED
    BY <2>1, <2>2 DEF RecordInv, BackupInv, DaemonInv, OpenInv, WriteInv, BackingUp
<1>3. CASE ServiceDies
  <2>1. pc' = "idle" /\ UNCHANGED <<present, file, flag, bin, all, boot, inList, expect, saved>>
    BY <1>3 DEF ServiceDies, storage, disk, kind, history
  <2> QED
    BY <2>1 DEF RecordInv, FileInv, BackupInv, DaemonInv, OpenInv, WriteInv, BackingUp
<1>4. CASE UNCHANGED vars
  <2>1. UNCHANGED <<present, file, flag, bin, all, boot, pc, ret, req, inList, want, expect, saved>>
    BY <1>4 DEF vars, storage, disk, kind, history
  <2>2. Outcome' = Outcome
    BY <2>1 DEF Outcome
  <2> QED
    BY <2>1, <2>2 DEF RecordInv, FileInv, BackupInv, DaemonInv, OpenInv, WriteInv, BackingUp
<1> QED
  BY <1>1, <1>2, <1>3, <1>4

\* RecordInv is an invariant.
LEMMA RecordAlways == Spec => []RecordInv
<1>1. Init => RecordInv
  <2> SUFFICES ASSUME Init PROVE RecordInv
    OBVIOUS
  <2>1. /\ ~present /\ file = <<>> /\ bin = Erased /\ boot = "start" /\ pc = "idle"
        /\ expect = {Default} /\ saved = {Default}
    BY DEF Init
  <2>2. Confused(Erased) = {}
    BY DEF Confused, HasMap, Erased
  <2> QED
    BY <2>1, <2>2, EmptyFacts
       DEF RecordInv, FileInv, BackupInv, DaemonInv, OpenInv, WriteInv, BackingUp
<1>2. TypeInv /\ RecordInv /\ [Next]_vars => RecordInv'
  BY DaemonKeeps, OpenKeeps, UseKeeps, BackupKeeps, RestoreAllKeeps, OtherKeeps DEF Next
<1> QED
  BY <1>1, <1>2, TypeAlways, PTL DEF Spec

\* For all requests, cuts and bytes, an open hands out what the last complete write or
\* reset left, or one of the values that KeepsWhatWasSaved admits after a cut, a
\* write that does not fit, formatting or RestoreAll_NvRam: the old or the new data,
\* what the last backup can restore, and data whose check number or checksum
\* agrees by chance.
THEOREM RecordsAreKept == Spec => []KeepsWhatWasSaved
<1>1. TypeInv /\ RecordInv => KeepsWhatWasSaved
  BY DEF TypeInv, Shape, RecordInv, FileInv, KeepsWhatWasSaved
<1> QED
  BY <1>1, TypeAlways, RecordAlways, PTL
=============================================================================
