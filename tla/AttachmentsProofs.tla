------------------------- MODULE AttachmentsProofs -------------------------
(* Theorems about Attachments, for any mails, with any number of           *)
(* attachments.                                                            *)
EXTENDS Attachments, SequenceTheorems, TLAPS

Gives(m) == {kept[m][i] : i \in 1..Len(kept[m])}

\* The attachments that the intake of m has kept are different ones, in both
\* slices at the same place, and in the end those that can be read.
KeptInv(m) ==
    /\ data[m] = kept[m]
    /\ \A i \in 1..Len(kept[m]) : kept[m][i] \in 1..Len(names[m])
    /\ \A i, j \in 1..Len(kept[m]) : kept[m][i] = kept[m][j] => i = j
    /\ m \in RestMails => kept[m] = All(m) /\ step[m] # "parse"
    /\ step[m] = "parse" =>
           /\ paths[m] = <<>>
           /\ next[m] <= Len(names[m]) + 1
           /\ Gives(m) = readable[m] \cap 1..(next[m] - 1)
    /\ m \notin RestMails /\ step[m] \in {"save", "create", "publish",
                                          "accepted"} =>
           Gives(m) = readable[m]

\* The i-th attachment lies in the file its name leads to, with its own content
\* if no other attachment, of this mail or another, leads there.
Stored(m, i) ==
    /\ paths[m][i] = StoragePath(m, i)
    /\ files[StoragePath(m, i)] # NoFile
    /\ Undisturbed(m) => files[StoragePath(m, i)] = <<m, kept[m][i]>>

\* The paths of m as far as the loop that saves has come.
PathInv(m) ==
    /\ Len(paths[m]) <= Len(kept[m])
    /\ step[m] = "save" => Len(paths[m]) = next[m] - 1
    /\ step[m] \in {"create", "publish", "accepted"} =>
           Len(paths[m]) = Len(kept[m])
    /\ m \in RestMails => 1..Len(paths[m]) \subseteq readable[m]
    /\ \A i \in 1..Len(paths[m]) : paths[m][i] # NoPath => Stored(m, i)

\* Rows and jobs list what was saved, and only once everything was.
ListInv(m) ==
    /\ rows[m] # NoList =>
           /\ rows[m] = Listed(m)
           /\ Len(paths[m]) = Len(kept[m])
           /\ step[m] \notin {"parse", "save", "create"}
    /\ job[m] # NoList => job[m] = Listed(m) /\ step[m] = "accepted"

SentInv(m) ==
    sent[m] # NoList =>
        /\ job[m] # NoList
        /\ Len(sent[m]) = Len(kept[m])
        /\ \A i \in 1..Len(sent[m]) :
              /\ sent[m][i].given = kept[m][i]
              /\ Undisturbed(m) => sent[m][i].content = <<m, kept[m][i]>>

MailInv(m) == KeptInv(m) /\ PathInv(m) /\ ListInv(m) /\ SentInv(m)

Inv == TypeOK /\ \A m \in Mails : MailInv(m)

-----------------------------------------------------------------------------
\* A list of attachments is a sequence of entries.
LEMMA ListedType ==
  ASSUME TypeOK, NEW m \in Mails, Len(paths[m]) = Len(kept[m])
  PROVE  /\ Listed(m) \in Seq(Entry)
         /\ Len(Listed(m)) = Len(kept[m])
         /\ \A i \in 1..Len(kept[m]) : /\ Listed(m)[i].given = kept[m][i]
                                       /\ Listed(m)[i].path = paths[m][i]
<1>1. kept[m] \in Seq(Slots) /\ paths[m] \in Seq(Path \cup {NoPath})
  BY DEF TypeOK
<1>2. \A i \in 1..Len(kept[m]) :
         [given |-> kept[m][i], path |-> paths[m][i]] \in Entry
  BY <1>1, ElementOfSeq DEF Entry
<1>3. Len(kept[m]) \in Nat
  BY <1>1, LenProperties
<1>4. Listed(m) \in [1..Len(kept[m]) -> Entry]
  BY <1>2 DEF Listed
<1>5. Listed(m) \in Seq(Entry)
  BY <1>3, <1>4, SeqDef
<1> QED
  BY <1>3, <1>4, <1>5, LenProperties DEF Listed

LEMMA InvInit == Init => Inv
<1> SUFFICES ASSUME Init PROVE Inv
  OBVIOUS
<1>1. ASSUME NEW m \in Mails
      PROVE  /\ names[m] \in Seq(Path)
             /\ Len(names[m]) \in Nat
             /\ Len(names[m]) <= MaxAttachments
             /\ readable[m] \subseteq 1..Len(names[m])
  <2> DEFINE S == UNION {[1..n -> Path] : n \in 0..MaxAttachments}
  <2>0. names \in [Mails -> S]
    BY DEF Init
  <2>10. names[m] \in S
    BY <1>1, <2>0
  <2>1. PICK n \in 0..MaxAttachments : names[m] \in [1..n -> Path]
    BY <2>10
  <2>2. n \in Nat /\ n <= MaxAttachments
    BY AttachmentAssumption
  <2>3. names[m] \in Seq(Path)
    BY <2>1, <2>2, SeqDef
  <2>4. Len(names[m]) = n
    BY <2>1, <2>2, <2>3, LenProperties
  <2> QED
    BY <1>1, <2>2, <2>3, <2>4 DEF Init
<1>2. ASSUME NEW m \in Mails
      PROVE  /\ kept[m] = IF m \in RestMails THEN All(m) ELSE <<>>
             /\ data[m] = kept[m] /\ paths[m] = <<>> /\ next[m] = 1
             /\ step[m] = IF m \in RestMails THEN "save" ELSE "parse"
             /\ rows[m] = NoList /\ job[m] = NoList /\ sent[m] = NoList
  BY <1>2 DEF Init
<1>3. ASSUME NEW m \in Mails
      PROVE  /\ All(m) \in Seq(Slots) /\ Len(All(m)) = Len(names[m])
             /\ \A i \in 1..Len(names[m]) : All(m)[i] = i
  <2>1. Len(names[m]) \in Nat /\ Len(names[m]) <= MaxAttachments
    BY <1>1, <1>3
  <2>2. All(m) \in [1..Len(names[m]) -> Slots]
    BY <2>1, AttachmentAssumption DEF All, Slots
  <2>3. All(m) \in Seq(Slots)
    BY <2>1, <2>2, SeqDef
  <2> QED
    BY <2>1, <2>2, <2>3, LenProperties DEF All
<1>4. ASSUME NEW m \in Mails
      PROVE  kept[m] \in Seq(Slots) /\ data[m] \in Seq(Slots)
  <2>1. CASE m \in RestMails
    BY <1>2, <1>3, <1>4, <2>1
  <2>2. CASE m \notin RestMails
    BY <1>2, <1>4, <2>2, EmptySeq
  <2> QED
    BY <2>1, <2>2
<1>5. TypeOK
  <2>1. /\ names \in [Mails -> Seq(Path)]
        /\ readable \in [Mails -> SUBSET Slots]
    BY <1>1 DEF Init
  <2>2. kept \in [Mails -> Seq(Slots)] /\ data \in [Mails -> Seq(Slots)]
    BY <1>4 DEF Init
  <2>3. paths \in [Mails -> Seq(Path \cup {NoPath})]
    BY EmptySeq DEF Init
  <2>4. \A m \in Mails : step[m] \notin {"create", "publish"}
    BY <1>2
  <2>5. /\ step \in [Mails -> Steps] /\ next \in [Mails -> Nat \ {0}]
        /\ files \in [Path -> Content \cup {NoFile, Damaged}]
        /\ rows \in [Mails -> Seq(Entry) \cup {NoList}]
        /\ job \in [Mails -> Seq(Entry) \cup {NoList}]
        /\ queue = {}
        /\ sent \in [Mails -> Seq(Part) \cup {NoList}]
    BY DEF Init, Steps
  <2> QED
    BY <1>1, <1>2, <2>1, <2>2, <2>3, <2>4, <2>5 DEF TypeOK
<1>6. ASSUME NEW m \in Mails PROVE MailInv(m)
  <2>1. Len(<<>>) = 0
    BY EmptySeq
  <2>2. KeptInv(m)
    <3>1. CASE m \in RestMails
      BY <1>1, <1>2, <1>3, <1>6, <3>1 DEF KeptInv
    <3>2. CASE m \notin RestMails
      <4>1. kept[m] = <<>> /\ 1..Len(kept[m]) = {}
        BY <1>2, <1>6, <2>1, <3>2
      <4>2. Gives(m) = {} /\ next[m] - 1 = 0 /\ 1..0 = {}
        BY <1>2, <1>6, <4>1 DEF Gives
      <4> QED
        BY <1>1, <1>2, <1>6, <3>2, <4>1, <4>2 DEF KeptInv
    <3> QED
      BY <3>1, <3>2
  <2>3. PathInv(m)
    <3>1. Len(kept[m]) \in Nat
      BY <1>4, <1>6, LenProperties
    <3> QED
      BY <1>2, <1>6, <2>1, <3>1 DEF PathInv
  <2>4. ListInv(m) /\ SentInv(m)
    BY <1>2, <1>6 DEF ListInv, SentInv
  <2> QED
    BY <2>2, <2>3, <2>4 DEF MailInv
<1> QED
  BY <1>5, <1>6 DEF Inv

\* The lengths and entries of the slices are numbers that arithmetic can use.
LEMMA SliceTypes ==
  ASSUME TypeOK, NEW m \in Mails
  PROVE  /\ names[m] \in Seq(Path) /\ Len(names[m]) \in Nat
         /\ kept[m] \in Seq(Slots) /\ Len(kept[m]) \in Nat
         /\ data[m] \in Seq(Slots)
         /\ paths[m] \in Seq(Path \cup {NoPath}) /\ Len(paths[m]) \in Nat
         /\ next[m] \in Nat /\ next[m] >= 1
  BY LenProperties DEF TypeOK

\* A kept attachment has a place on the volume, under its own base name, and if
\* its mail is undisturbed in the mail's own directory.
LEMMA StoragePathType ==
  ASSUME TypeOK, NEW m \in Mails, KeptInv(m), NEW i \in 1..Len(kept[m])
  PROVE  /\ StoragePath(m, i) \in Path
         /\ StoragePath(m, i)[2] = names[m][kept[m][i]][2]
         /\ Undisturbed(m) => StoragePath(m, i)[1] = m
<1>1. kept[m][i] \in 1..Len(names[m])
  BY DEF KeptInv
<1> DEFINE name == names[m][kept[m][i]]
<1>2. name \in Path
  BY <1>1, SliceTypes, ElementOfSeq
<1>3. name[1] \in Dirs /\ name[2] \in Names
  BY <1>2 DEF Path
<1>4. Undisturbed(m) /\ m \in RestMails => name[1] = m
  BY <1>1, <1>3 DEF Undisturbed, LeadsTo
<1> HIDE DEF name
<1>5. StoragePath(m, i) = IF m \in RestMails THEN name ELSE <<m, name[2]>>
  BY DEF StoragePath, name
<1>6. <<m, name[2]>> \in Path
  BY <1>3, AttachmentAssumption DEF Path
<1> QED
  BY <1>2, <1>4, <1>5, <1>6 DEF name

\* In an undisturbed mail no two attachments have the same place.
LEMMA PlacesDiffer ==
  ASSUME TypeOK, NEW m \in Mails, KeptInv(m), Undisturbed(m),
         NEW i \in 1..Len(kept[m]), NEW j \in 1..Len(kept[m]), i # j
  PROVE  StoragePath(m, i) # StoragePath(m, j)
<1>1. /\ kept[m][i] \in 1..Len(names[m]) /\ kept[m][j] \in 1..Len(names[m])
      /\ kept[m][i] # kept[m][j]
  BY DEF KeptInv
<1>2. names[m][kept[m][i]][2] # names[m][kept[m][j]][2]
  BY <1>1 DEF Undisturbed, DistinctNames
<1> QED
  BY <1>2, StoragePathType

\* And no attachment of another mail has the place of one of them.
LEMMA OthersElsewhere ==
  ASSUME TypeOK, NEW m \in Mails, NEW n \in Mails, n # m,
         KeptInv(m), KeptInv(n), Undisturbed(n),
         NEW i \in 1..Len(kept[m]), NEW j \in 1..Len(kept[n])
  PROVE  StoragePath(m, i) # StoragePath(n, j)
<1>1. StoragePath(n, j)[1] = n
  BY StoragePathType
<1>2. kept[m][i] \in 1..Len(names[m])
  BY DEF KeptInv
<1>3. m \in RestMails => names[m][kept[m][i]][1] # n
  BY <1>2 DEF Undisturbed, LeadsTo
<1>4. StoragePath(m, i)[1] # n
  BY <1>3 DEF StoragePath
<1> QED
  BY <1>1, <1>4

\* Where the names lead is an input.
LEMMA SameNames ==
  ASSUME names' = names
  PROVE  \A m : Undisturbed(m)' <=> Undisturbed(m)
BY DEF Undisturbed, DistinctNames, LeadsTo

\* A mail of which nothing changes keeps its invariant if no file disappears
\* and, if it is undisturbed, its own files stay as they are.
LEMMA Untouched ==
  ASSUME Inv, NEW m \in Mails,
         names' = names, readable' = readable,
         step'[m] = step[m], next'[m] = next[m], kept'[m] = kept[m],
         data'[m] = data[m], paths'[m] = paths[m],
         \A p \in Path : files[p] # NoFile => files'[p] # NoFile,
         \A i \in 1..Len(kept[m]) : Undisturbed(m) =>
             files'[StoragePath(m, i)] = files[StoragePath(m, i)],
         rows'[m] = rows[m], job'[m] = job[m], sent'[m] = sent[m]
  PROVE  MailInv(m)'
<1>0. TypeOK /\ KeptInv(m) /\ PathInv(m) /\ ListInv(m) /\ SentInv(m)
  BY DEF Inv, MailInv
<1>1. KeptInv(m)'
  BY <1>0 DEF KeptInv, Gives, All
<1>2. ASSUME NEW i \in 1..Len(paths[m]), Stored(m, i) PROVE Stored(m, i)'
  <2>1. i \in 1..Len(kept[m])
    BY <1>0, SliceTypes DEF PathInv
  <2>2. StoragePath(m, i) \in Path
    BY <1>0, <2>1, StoragePathType
  <2>3. StoragePath(m, i)' = StoragePath(m, i)
    BY DEF StoragePath
  <2> QED
    BY <1>2, <2>1, <2>2, <2>3, SameNames DEF Stored
<1>3. PathInv(m)'
  BY <1>0, <1>2 DEF PathInv
<1>4. ListInv(m)'
  BY <1>0 DEF ListInv, Listed
<1>5. SentInv(m)'
  BY <1>0, SameNames DEF SentInv
<1> QED
  BY <1>1, <1>3, <1>4, <1>5 DEF MailInv

\* Every action keeps the invariant of the mail it is about.
LEMMA ParsePartStep ==
  ASSUME Inv, NEW m \in Mails, ParsePart(m)
  PROVE  MailInv(m)' /\ TypeOK'
<1> USE AttachmentAssumption
<1>1. TypeOK /\ KeptInv(m) /\ PathInv(m) /\ ListInv(m) /\ SentInv(m)
  BY DEF Inv, MailInv
<1>2. /\ step[m] = "parse" /\ step'[m] = "parse" /\ next[m] <= Len(names[m])
      /\ next'[m] = next[m] + 1
      /\ UNCHANGED <<input, paths, files, rows, job, queue, sent>>
  BY <1>1 DEF ParsePart, StepTo, Advance, TypeOK
<1>3. /\ m \notin RestMails /\ paths[m] = <<>> /\ Len(paths[m]) = 0
      /\ Gives(m) = readable[m] \cap 1..(next[m] - 1)
      /\ rows[m] = NoList /\ job[m] = NoList /\ sent[m] = NoList
  BY <1>1, <1>2, EmptySeq DEF KeptInv, ListInv, SentInv
<1>4. next[m] \in Slots
  BY <1>1, <1>2, SliceTypes DEF TypeOK, Slots
<1>41. step' \in [Mails -> Steps] /\ next' \in [Mails -> Nat \ {0}]
  <2>1. step' = [step EXCEPT ![m] = "parse"] /\ "parse" \in Steps
    BY DEF ParsePart, StepTo, Steps
  <2>2. next' = [next EXCEPT ![m] = next[m] + 1] /\ next[m] + 1 \in Nat \ {0}
    BY <1>1, SliceTypes DEF ParsePart, Advance
  <2> QED
    BY <1>1, <2>1, <2>2 DEF TypeOK
<1>42. \A n \in Mails : step'[n] \in {"create", "publish"} =>
          step[n] \in {"create", "publish"}
  BY <1>1 DEF ParsePart, StepTo, TypeOK
<1>5. CASE next[m] \in readable[m]
  <2> DEFINE k == Append(kept[m], next[m])
  <2>1. kept' = [kept EXCEPT ![m] = k] /\ data' = [data EXCEPT ![m] = k]
    BY <1>1, <1>5 DEF ParsePart, KeptInv
  <2>2. /\ k \in Seq(Slots) /\ Len(k) = Len(kept[m]) + 1
        /\ \A i \in 1..Len(kept[m]) : k[i] = kept[m][i]
        /\ k[Len(kept[m]) + 1] = next[m]
    BY <1>1, <1>4, SliceTypes, AppendProperties
  <2> HIDE DEF k
  <2>3. kept'[m] = k /\ data'[m] = k
    BY <1>1, <2>1 DEF TypeOK
  <2>4. \A i \in 1..Len(kept[m]) :
           kept[m][i] \in readable[m] /\ kept[m][i] < next[m]
    <3>1. ASSUME NEW i \in 1..Len(kept[m])
          PROVE  kept[m][i] \in readable[m] \cap 1..(next[m] - 1)
      BY <1>3 DEF Gives
    <3> QED
      BY <1>1, <3>1, SliceTypes
  <2>5. \A i \in 1..Len(k) : i \in 1..Len(kept[m]) \/ i = Len(kept[m]) + 1
    BY <1>1, <2>2, SliceTypes
  <2>6. /\ \A i \in 1..Len(k) : k[i] \in 1..Len(names[m])
        /\ \A i, j \in 1..Len(k) : k[i] = k[j] => i = j
    <3>1. next[m] \in 1..Len(names[m]) /\ next[m] \in Int
      BY <1>1, <1>2, SliceTypes
    <3>2. \A i \in 1..Len(kept[m]) : k[i] # next[m]
      BY <2>2, <2>4, <3>1
    <3>3. \A i \in 1..Len(k) : k[i] \in 1..Len(names[m])
      BY <1>1, <2>2, <2>5, <3>1 DEF KeptInv
    <3>4. ASSUME NEW i \in 1..Len(k), NEW j \in 1..Len(k), k[i] = k[j]
          PROVE  i = j
      <4>1. CASE i = Len(kept[m]) + 1 /\ j = Len(kept[m]) + 1
        BY <4>1
      <4>2. CASE i \in 1..Len(kept[m]) /\ j \in 1..Len(kept[m])
        BY <1>1, <2>2, <3>4, <4>2 DEF KeptInv
      <4> QED
        BY <2>2, <2>5, <3>2, <3>4, <4>1, <4>2
    <3> QED
      BY <3>3, <3>4
  <2>7. {k[i] : i \in 1..Len(k)} = readable[m] \cap 1..next[m]
    <3>1. ASSUME NEW x \in readable[m] \cap 1..next[m]
          PROVE  \E i \in 1..Len(k) : k[i] = x
      <4>1. CASE x = next[m]
        BY <1>1, <2>2, <4>1, SliceTypes
      <4>2. CASE x # next[m]
        <5>1. x \in Gives(m)
          BY <1>1, <1>3, <3>1, <4>2, SliceTypes
        <5>2. PICK i \in 1..Len(kept[m]) : kept[m][i] = x
          BY <5>1 DEF Gives
        <5>3. k[i] = x
          BY <2>2, <5>2
        <5>4. i \in 1..Len(k)
          <6>1. Len(kept[m]) \in Nat
            BY <1>1, SliceTypes
          <6> QED
            BY <2>2, <5>2, <6>1
        <5> QED
          BY <5>3, <5>4
      <4> QED
        BY <4>1, <4>2
    <3>2. ASSUME NEW i \in 1..Len(k)
          PROVE  k[i] \in readable[m] \cap 1..next[m]
      <4>1. CASE i \in 1..Len(kept[m])
        <5>1. kept[m][i] \in 1..Len(names[m])
          BY <1>1, <4>1 DEF KeptInv
        <5> QED
          BY <1>1, <2>2, <2>4, <4>1, <5>1, SliceTypes
      <4>2. CASE i = Len(kept[m]) + 1
        BY <1>1, <1>5, <2>2, <4>2, SliceTypes
      <4> QED
        BY <2>5, <4>1, <4>2
    <3> QED
      BY <3>1, <3>2
  <2>8. KeptInv(m)'
    BY <1>1, <1>2, <1>3, <2>3, <2>6, <2>7, SliceTypes
       DEF KeptInv, Gives, input
  <2>9. TypeOK'
    <3>1. /\ kept' \in [Mails -> Seq(Slots)] /\ data' \in [Mails -> Seq(Slots)]
          /\ \A n \in Mails : Len(data'[n]) = Len(kept'[n])
      BY <1>1, <2>1, <2>2 DEF TypeOK
    <3>2. \A n \in Mails : step'[n] \in {"create", "publish"} =>
             Len(paths'[n]) = Len(kept'[n])
      BY <1>1, <1>2, <1>42, <2>1 DEF TypeOK
    <3> QED
      BY <1>1, <1>2, <1>41, <3>1, <3>2 DEF TypeOK, input
  <2> QED
    BY <1>1, <1>2, <1>3, <2>2, <2>3, <2>8, <2>9, SliceTypes
       DEF MailInv, PathInv, ListInv, SentInv, input
<1>6. CASE next[m] \notin readable[m]
  <2>1. UNCHANGED <<kept, data>>
    BY <1>6 DEF ParsePart
  <2>2. readable[m] \cap 1..next[m] = readable[m] \cap 1..(next[m] - 1)
    BY <1>1, <1>6, SliceTypes
  <2>3. KeptInv(m)'
    <3>1. Gives(m)' = readable[m] \cap 1..(next'[m] - 1)
      <4>1. next'[m] - 1 = next[m]
        BY <1>2, SliceTypes, <1>1
      <4>2. Gives(m)' = Gives(m)
        BY <2>1 DEF Gives
      <4> QED
        BY <1>3, <2>2, <4>1, <4>2
    <3>2. next'[m] <= Len(names[m]) + 1
      BY <1>1, <1>2, SliceTypes
    <3> QED
      BY <1>1, <1>2, <1>3, <2>1, <3>1, <3>2 DEF KeptInv, input
  <2>4. TypeOK'
    BY <1>1, <1>2, <1>41, <1>42, <2>1 DEF TypeOK, input
  <2> QED
    BY <1>1, <1>2, <1>3, <2>1, <2>3, <2>4 DEF MailInv, PathInv, ListInv,
       SentInv, input
<1> QED
  BY <1>5, <1>6

LEMMA ParseEndStep ==
  ASSUME Inv, NEW m \in Mails, ParseEnd(m)
  PROVE  MailInv(m)' /\ TypeOK'
<1> USE AttachmentAssumption
<1>1. TypeOK /\ KeptInv(m) /\ PathInv(m) /\ ListInv(m) /\ SentInv(m)
  BY DEF Inv, MailInv
<1>2. /\ step[m] = "parse" /\ step' = [step EXCEPT ![m] = "save"]
      /\ next[m] > Len(names[m]) /\ next' = [next EXCEPT ![m] = 1]
      /\ UNCHANGED <<names, readable, kept, data, paths, files, rows, job,
                     queue, sent>>
  BY DEF ParseEnd, StepTo, input
<1>3. /\ m \notin RestMails /\ paths[m] = <<>> /\ Len(paths[m]) = 0
      /\ Gives(m) = readable[m] \cap 1..(next[m] - 1)
      /\ rows[m] = NoList /\ job[m] = NoList /\ sent[m] = NoList
  BY <1>1, <1>2, EmptySeq DEF KeptInv, ListInv, SentInv
<1>4. step'[m] = "save" /\ next'[m] = 1
  BY <1>1, <1>2 DEF TypeOK
<1>5. readable[m] \subseteq 1..(next[m] - 1)
  BY <1>1, <1>2, SliceTypes DEF TypeOK
<1>6. KeptInv(m)'
  BY <1>1, <1>2, <1>3, <1>4, <1>5 DEF KeptInv, Gives, All
<1>7. PathInv(m)' /\ ListInv(m)' /\ SentInv(m)'
  BY <1>1, <1>2, <1>3, <1>4, SliceTypes DEF PathInv, ListInv, SentInv
<1>8. TypeOK'
  <2>1. step' \in [Mails -> Steps] /\ next' \in [Mails -> Nat \ {0}]
    BY <1>1, <1>2 DEF TypeOK, Steps
  <2>2. \A n \in Mails : step'[n] \in {"create", "publish"} =>
           step[n] \in {"create", "publish"}
    BY <1>1, <1>2 DEF TypeOK
  <2> QED
    BY <1>1, <1>2, <2>1, <2>2 DEF TypeOK
<1> QED
  BY <1>6, <1>7, <1>8 DEF MailInv

\* One more path: what was stored before stays stored.
LEMMA PathsGrow ==
  ASSUME Inv, NEW m \in Mails, NEW p \in Path \cup {NoPath},
         step[m] = "save", next[m] <= Len(kept[m]),
         step' = [step EXCEPT ![m] = "save"],
         next' = [next EXCEPT ![m] = next[m] + 1],
         paths' = [paths EXCEPT ![m] = Append(paths[m], p)],
         files' \in [Path -> Content \cup {NoFile, Damaged}],
         \A x \in Path : x # StoragePath(m, next[m]) => files'[x] = files[x],
         files'[StoragePath(m, next[m])] # NoFile
             \/ files'[StoragePath(m, next[m])]
                    = files[StoragePath(m, next[m])],
         p # NoPath => /\ p = StoragePath(m, next[m])
                       /\ files'[p] = <<m, kept[m][next[m]]>>,
         m \in RestMails => next[m] \in readable[m],
         UNCHANGED <<names, readable, kept, data, rows, job, queue, sent>>
  PROVE  MailInv(m)' /\ TypeOK'
<1> USE AttachmentAssumption
<1>1. TypeOK /\ KeptInv(m) /\ PathInv(m) /\ ListInv(m) /\ SentInv(m)
  BY DEF Inv, MailInv
<1> DEFINE i == next[m]
           q == Append(paths[m], p)
<1>2. /\ Len(paths[m]) = i - 1 /\ i \in Nat /\ i >= 1 /\ i \in 1..Len(kept[m])
      /\ Len(kept[m]) \in Nat
  BY <1>1, SliceTypes DEF PathInv
<1>3. /\ q \in Seq(Path \cup {NoPath}) /\ Len(q) = i
      /\ \A j \in 1..(i - 1) : q[j] = paths[m][j]
      /\ q[i] = p
  <2>1. paths[m] \in Seq(Path \cup {NoPath})
    BY <1>1 DEF TypeOK
  <2> QED
    BY <1>2, <2>1, AppendProperties
<1>4. paths'[m] = q /\ step'[m] = "save" /\ next'[m] = i + 1
  BY <1>1 DEF TypeOK
<1> HIDE DEF q
<1>5. \A j \in 1..i : j \in 1..(i - 1) \/ j = i
  BY <1>2
<1>6. rows[m] = NoList /\ job[m] = NoList /\ sent[m] = NoList
  BY <1>1 DEF ListInv, SentInv
<1>7. KeptInv(m)'
  BY <1>1, <1>4 DEF KeptInv, Gives, All
<1>8. ASSUME NEW j \in 1..i, q[j] # NoPath PROVE Stored(m, j)'
  <2>1. CASE j = i
    <3>1. q[i] = StoragePath(m, i)
          /\ files'[StoragePath(m, i)] = <<m, kept[m][i]>>
      BY <1>3, <1>8, <2>1
    <3>2. <<m, kept[m][i]>> \in Content
      BY <1>1, <1>2, SliceTypes, ElementOfSeq DEF Content
    <3> QED
      BY <1>4, <2>1, <3>1, <3>2 DEF Stored, StoragePath
  <2>2. CASE j \in 1..(i - 1)
    <3>1. Stored(m, j) /\ j \in 1..Len(kept[m]) /\ j # i
      <4>1. j \in 1..Len(paths[m]) /\ j \in 1..Len(kept[m]) /\ j # i
        BY <1>2, <2>2
      <4>2. paths[m][j] # NoPath
        BY <1>3, <1>8, <2>2
      <4> QED
        BY <1>1, <4>1, <4>2 DEF PathInv
    <3>2. StoragePath(m, j) \in Path
      BY <1>1, <3>1, StoragePathType
    <3>3. files'[StoragePath(m, j)] # NoFile
      BY <3>1, <3>2 DEF Stored
    <3>4. Undisturbed(m) => StoragePath(m, j) # StoragePath(m, i)
      BY <1>1, <1>2, <3>1, PlacesDiffer
    <3>5. /\ StoragePath(m, j)' = StoragePath(m, j)
          /\ paths'[m][j] = paths[m][j]
      BY <1>3, <1>4, <2>2 DEF StoragePath
    <3>6. Undisturbed(m) => files'[StoragePath(m, j)] = <<m, kept[m][j]>>
      BY <3>1, <3>2, <3>4 DEF Stored
    <3> QED
      BY <3>1, <3>3, <3>5, <3>6, SameNames DEF Stored
  <2> QED
    BY <1>5, <2>1, <2>2
<1>9. PathInv(m)'
  <2>1. m \in RestMails => 1..i \subseteq readable[m]
    BY <1>1, <1>2, <1>5 DEF PathInv
  <2>2. Len(q) <= Len(kept[m]) /\ Len(q) = (i + 1) - 1
    BY <1>2, <1>3
  <2> QED
    BY <1>3, <1>4, <1>8, <2>1, <2>2 DEF PathInv
<1>10. ListInv(m)' /\ SentInv(m)'
  BY <1>6 DEF ListInv, SentInv
<1>11. TypeOK'
  <2>1. paths' \in [Mails -> Seq(Path \cup {NoPath})]
    BY <1>1, <1>3 DEF TypeOK, q
  <2>2. step' \in [Mails -> Steps] /\ next' \in [Mails -> Nat \ {0}]
    BY <1>1, <1>2 DEF TypeOK, Steps
  <2>3. \A n \in Mails : step'[n] \in {"create", "publish"} =>
           Len(paths'[n]) = Len(kept'[n])
    BY <1>1, <1>4 DEF TypeOK
  <2> QED
    BY <1>1, <2>1, <2>2, <2>3 DEF TypeOK
<1> QED
  BY <1>7, <1>9, <1>10, <1>11 DEF MailInv

LEMMA SaveStep ==
  ASSUME Inv, NEW m \in Mails, Save(m)
  PROVE  MailInv(m)' /\ TypeOK'
<1>1. TypeOK /\ KeptInv(m)
  BY DEF Inv, MailInv
<1> DEFINE i == next[m]
           p == StoragePath(m, i)
<1>2. i \in 1..Len(kept[m])
  BY <1>1, SliceTypes DEF Save
<1>3. p \in Path
  BY <1>1, <1>2, StoragePathType
<1>4. data[m][i] = kept[m][i] /\ kept[m][i] \in Slots
  BY <1>1, <1>2, SliceTypes, ElementOfSeq DEF KeptInv
<1>5. /\ files' \in [Path -> Content \cup {NoFile, Damaged}]
      /\ files'[p] = <<m, kept[m][i]>>
      /\ \A x \in Path : x # p => files'[x] = files[x]
  BY <1>1, <1>3, <1>4 DEF Save, TypeOK, Content
<1>6. <<m, kept[m][i]>> # NoFile
  BY <1>4, AttachmentAssumption DEF Content
<1> QED
  BY <1>3, <1>5, <1>6, PathsGrow DEF Save, StepTo, Advance, input

LEMMA SaveFailsStep ==
  ASSUME Inv, NEW m \in Mails, SaveFails(m)
  PROVE  MailInv(m)' /\ TypeOK'
<1>1. TypeOK /\ KeptInv(m)
  BY DEF Inv, MailInv
<1> DEFINE p == StoragePath(m, next[m])
<1>2. next[m] \in 1..Len(kept[m])
  BY <1>1, SliceTypes DEF SaveFails
<1>3. p \in Path
  BY <1>1, <1>2, StoragePathType
<1>4. /\ files' \in [Path -> Content \cup {NoFile, Damaged}]
      /\ files'[p] # NoFile \/ files'[p] = files[p]
      /\ \A x \in Path : x # p => files'[x] = files[x]
  BY <1>1, <1>3, AttachmentAssumption DEF SaveFails, WriteFails, TypeOK
<1> QED
  BY <1>4, PathsGrow, AttachmentAssumption
     DEF SaveFails, StepTo, Advance, input

\* The intake goes on, or ends, without a change of what it has kept.
LEMMA StepOnly ==
  ASSUME Inv, NEW m \in Mails, NEW a \in Steps \ {"parse", "save"},
         step' = [step EXCEPT ![m] = a],
         step[m] \notin {"accepted", "refused", "crashed"},
         a \in {"create", "publish", "accepted"} =>
             /\ Len(paths[m]) = Len(kept[m])
             /\ m \notin RestMails => Gives(m) = readable[m],
         UNCHANGED <<names, readable, next, kept, data, paths, sent>>,
         files' \in [Path -> Content \cup {NoFile, Damaged}],
         \A j \in 1..Len(paths[m]) : Stored(m, j) => Stored(m, j)',
         rows' \in [Mails -> Seq(Entry) \cup {NoList}],
         rows'[m] = rows[m] \/ (rows'[m] = Listed(m) /\ a = "publish"),
         rows[m] # NoList => a # "create",
         job' \in [Mails -> Seq(Entry) \cup {NoList}],
         job'[m] = job[m] \/ (job'[m] = Listed(m) /\ a = "accepted"),
         queue' \subseteq {n \in Mails : job'[n] # NoList}
  PROVE  MailInv(m)' /\ TypeOK'
<1> USE AttachmentAssumption
<1>1. TypeOK /\ KeptInv(m) /\ PathInv(m) /\ ListInv(m) /\ SentInv(m)
  BY DEF Inv, MailInv
<1>2. step'[m] = a
  BY <1>1 DEF TypeOK
<1>3. KeptInv(m)'
  BY <1>1, <1>2 DEF KeptInv, Gives, All
<1>4. PathInv(m)'
  BY <1>1, <1>2 DEF PathInv
<1>5. Listed(m)' = Listed(m)
  BY DEF Listed
<1>6. job[m] = NoList /\ sent[m] = NoList
  BY <1>1 DEF ListInv, SentInv
<1>7. ListInv(m)'
  <2>1. rows'[m] # NoList =>
            rows'[m] = Listed(m) /\ Len(paths[m]) = Len(kept[m])
                             /\ a # "create"
    BY <1>1 DEF ListInv
  <2>2. job'[m] # NoList => job'[m] = Listed(m) /\ a = "accepted"
    BY <1>6
  <2> QED
    BY <1>2, <1>5, <2>1, <2>2 DEF ListInv
<1>8. SentInv(m)'
  BY <1>6 DEF SentInv
<1>9. TypeOK'
  <2>1. step' \in [Mails -> Steps]
    BY <1>1 DEF TypeOK
  <2>2. \A n \in Mails : step'[n] \in {"create", "publish"} =>
           Len(paths'[n]) = Len(kept'[n])
    BY <1>1, <1>2 DEF TypeOK
  <2> QED
    BY <1>1, <2>1, <2>2 DEF TypeOK
<1> QED
  BY <1>3, <1>4, <1>7, <1>8, <1>9 DEF MailInv

LEMMA SaveRefusedStep ==
  ASSUME Inv, NEW m \in Mails, SaveRefused(m)
  PROVE  MailInv(m)' /\ TypeOK'
<1>1. TypeOK /\ KeptInv(m) /\ PathInv(m)
  BY DEF Inv, MailInv
<1> DEFINE p == StoragePath(m, next[m])
<1>2. next[m] \in 1..Len(kept[m])
  BY <1>1, SliceTypes DEF SaveRefused
<1>3. p \in Path
  BY <1>1, <1>2, StoragePathType
<1>4. step[m] = "save" /\ Len(paths[m]) = next[m] - 1
  BY <1>1 DEF SaveRefused, StepTo, PathInv
<1>5. /\ files' \in [Path -> Content \cup {NoFile, Damaged}]
      /\ files'[p] # NoFile \/ files'[p] = files[p]
      /\ \A x \in Path : x # p => files'[x] = files[x]
  BY <1>1, <1>3, AttachmentAssumption DEF SaveRefused, WriteFails, TypeOK
<1>6. ASSUME NEW j \in 1..Len(paths[m]), Stored(m, j) PROVE Stored(m, j)'
  <2>1. j \in 1..Len(kept[m]) /\ j # next[m]
    BY <1>1, <1>2, <1>4, <1>6, SliceTypes
  <2>2. StoragePath(m, j) \in Path
    BY <1>1, <2>1, StoragePathType
  <2>3. UNCHANGED <<names, kept, paths>>
    BY DEF SaveRefused, input
  <2>4. files'[StoragePath(m, j)] # NoFile
    BY <1>5, <1>6, <2>2 DEF Stored
  <2>5. Undisturbed(m) => StoragePath(m, j) # p
    BY <1>1, <1>2, <2>1, PlacesDiffer
  <2>6. StoragePath(m, j)' = StoragePath(m, j)
    BY <2>3 DEF StoragePath
  <2> QED
    BY <1>5, <1>6, <2>2, <2>3, <2>4, <2>5, <2>6, SameNames DEF Stored
<1>7. /\ step' = [step EXCEPT ![m] = "refused"]
      /\ UNCHANGED <<names, readable, next, kept, data, paths, rows, job,
                     queue, sent>>
  BY DEF SaveRefused, StepTo, input
<1>8. "refused" \in Steps \ {"parse", "save"}
  BY DEF Steps
<1>9. /\ rows' \in [Mails -> Seq(Entry) \cup {NoList}]
      /\ job' \in [Mails -> Seq(Entry) \cup {NoList}]
      /\ queue' \subseteq {n \in Mails : job'[n] # NoList}
  BY <1>1, <1>7 DEF TypeOK
<1> QED
  BY <1>4, <1>5, <1>6, <1>7, <1>8, <1>9, StepOnly

LEMMA SaveEndStep ==
  ASSUME Inv, NEW m \in Mails, SaveEnd(m)
  PROVE  MailInv(m)' /\ TypeOK'
<1>1. TypeOK /\ KeptInv(m) /\ PathInv(m) /\ ListInv(m)
  BY DEF Inv, MailInv
<1>2. /\ step[m] = "save" /\ step' = [step EXCEPT ![m] = "create"]
      /\ next[m] > Len(kept[m])
      /\ UNCHANGED <<names, readable, next, kept, data, paths, files, rows,
                     job, queue, sent>>
  BY DEF SaveEnd, StepTo, input
<1>3. Len(paths[m]) = Len(kept[m])
  BY <1>1, <1>2, SliceTypes DEF PathInv
<1>4. m \notin RestMails => Gives(m) = readable[m]
  BY <1>1, <1>2 DEF KeptInv
<1>5. rows[m] = NoList
  BY <1>1, <1>2 DEF ListInv
<1>6. "create" \in Steps \ {"parse", "save"}
  BY DEF Steps
<1>7. \A j : Stored(m, j) => Stored(m, j)'
  BY <1>2, SameNames DEF Stored, StoragePath
<1>8. /\ files' \in [Path -> Content \cup {NoFile, Damaged}]
      /\ rows' \in [Mails -> Seq(Entry) \cup {NoList}]
      /\ job' \in [Mails -> Seq(Entry) \cup {NoList}]
      /\ queue' \subseteq {n \in Mails : job'[n] # NoList}
  BY <1>1, <1>2 DEF TypeOK
<1> QED
  BY <1>2, <1>3, <1>4, <1>5, <1>6, <1>7, <1>8, StepOnly

LEMMA CreateRowStep ==
  ASSUME Inv, NEW m \in Mails, CreateRow(m)
  PROVE  MailInv(m)' /\ TypeOK'
<1>1. TypeOK /\ KeptInv(m) /\ PathInv(m) /\ ListInv(m)
  BY DEF Inv, MailInv
<1>2. /\ step[m] = "create"
      /\ UNCHANGED <<names, readable, next, kept, data, paths, files, job,
                     queue, sent>>
  BY DEF CreateRow, StepTo, input
<1>3. Len(paths[m]) = Len(kept[m])
  BY <1>1, <1>2 DEF PathInv
<1>4. m \notin RestMails => Gives(m) = readable[m]
  BY <1>1, <1>2 DEF KeptInv
<1>5. {"publish", "refused"} \subseteq Steps \ {"parse", "save"}
  BY DEF Steps
<1>6. \A j : Stored(m, j) => Stored(m, j)'
  BY <1>2, SameNames DEF Stored, StoragePath
<1>7. /\ files' \in [Path -> Content \cup {NoFile, Damaged}]
      /\ job' \in [Mails -> Seq(Entry) \cup {NoList}]
      /\ queue' \subseteq {n \in Mails : job'[n] # NoList}
  BY <1>1, <1>2 DEF TypeOK
<1>8. CASE /\ StepTo(m, "create", "publish")
           /\ rows' = [rows EXCEPT ![m] = Listed(m)]
  <2>1. rows' \in [Mails -> Seq(Entry) \cup {NoList}] /\ rows'[m] = Listed(m)
    BY <1>1, <1>3, <1>8, ListedType DEF TypeOK
  <2>2. step' = [step EXCEPT ![m] = "publish"]
    BY <1>8 DEF StepTo
  <2> QED
    BY <1>2, <1>3, <1>4, <1>5, <1>6, <1>7, <2>1, <2>2, StepOnly
<1>9. CASE StepTo(m, "create", "refused") /\ UNCHANGED rows
  <2>1. rows' \in [Mails -> Seq(Entry) \cup {NoList}]
    BY <1>1, <1>9 DEF TypeOK
  <2>2. step' = [step EXCEPT ![m] = "refused"]
    BY <1>9 DEF StepTo
  <2> QED
    BY <1>2, <1>5, <1>6, <1>7, <1>9, <2>1, <2>2, StepOnly
<1> QED
  BY <1>8, <1>9 DEF CreateRow

LEMMA PublishMailStep ==
  ASSUME Inv, NEW m \in Mails, PublishMail(m)
  PROVE  MailInv(m)' /\ TypeOK'
<1>1. TypeOK /\ KeptInv(m) /\ PathInv(m) /\ ListInv(m)
  BY DEF Inv, MailInv
<1>2. /\ step[m] = "publish"
      /\ UNCHANGED <<names, readable, next, kept, data, paths, files, rows,
                     sent>>
  BY DEF PublishMail, StepTo, input
<1>3. Len(paths[m]) = Len(kept[m])
  BY <1>1, <1>2 DEF PathInv
<1>4. m \notin RestMails => Gives(m) = readable[m]
  BY <1>1, <1>2 DEF KeptInv
<1>5. {"accepted", "refused"} \subseteq Steps \ {"parse", "save"}
  BY DEF Steps
<1>6. \A j : Stored(m, j) => Stored(m, j)'
  BY <1>2, SameNames DEF Stored, StoragePath
<1>7. /\ files' \in [Path -> Content \cup {NoFile, Damaged}]
      /\ rows' \in [Mails -> Seq(Entry) \cup {NoList}]
  BY <1>1, <1>2 DEF TypeOK
<1>8. CASE StepTo(m, "publish", "accepted")
           /\ job' = [job EXCEPT ![m] = Listed(m)] /\ queue' = queue \cup {m}
  <2>1. job' \in [Mails -> Seq(Entry) \cup {NoList}] /\ job'[m] = Listed(m)
    BY <1>1, <1>3, <1>8, ListedType DEF TypeOK
  <2>2. Listed(m) # NoList
    BY <1>1, <1>3, ListedType, AttachmentAssumption
  <2>3. queue' \subseteq {n \in Mails : job'[n] # NoList}
    BY <1>1, <1>8, <2>1, <2>2 DEF TypeOK
  <2>4. step' = [step EXCEPT ![m] = "accepted"]
    BY <1>8 DEF StepTo
  <2> QED
    BY <1>2, <1>3, <1>4, <1>5, <1>6, <1>7, <2>1, <2>3, <2>4, StepOnly
<1>9. CASE StepTo(m, "publish", "refused") /\ UNCHANGED <<job, queue>>
  <2>1. /\ job' \in [Mails -> Seq(Entry) \cup {NoList}]
        /\ queue' \subseteq {n \in Mails : job'[n] # NoList}
    BY <1>1, <1>9 DEF TypeOK
  <2>2. step' = [step EXCEPT ![m] = "refused"]
    BY <1>9 DEF StepTo
  <2> QED
    BY <1>2, <1>5, <1>6, <1>7, <1>9, <2>1, <2>2, StepOnly
<1> QED
  BY <1>8, <1>9 DEF PublishMail

LEMMA CrashStep ==
  ASSUME Inv, NEW m \in Mails, Crash(m)
  PROVE  MailInv(m)' /\ TypeOK'
<1>1. TypeOK
  BY DEF Inv
<1>2. /\ step' = [step EXCEPT ![m] = "crashed"]
      /\ UNCHANGED <<names, readable, next, kept, data, paths, files, rows,
                     job, queue, sent>>
      /\ step[m] \notin {"accepted", "refused", "crashed"}
  BY DEF Crash, input
<1>3. "crashed" \in Steps \ {"parse", "save"}
  BY DEF Steps
<1>4. \A j : Stored(m, j) => Stored(m, j)'
  BY <1>2, SameNames DEF Stored, StoragePath
<1>5. /\ files' \in [Path -> Content \cup {NoFile, Damaged}]
      /\ rows' \in [Mails -> Seq(Entry) \cup {NoList}]
      /\ job' \in [Mails -> Seq(Entry) \cup {NoList}]
      /\ queue' \subseteq {n \in Mails : job'[n] # NoList}
  BY <1>1, <1>2 DEF TypeOK
<1> QED
  BY <1>2, <1>3, <1>4, <1>5, StepOnly

\* The worker reads what was stored, for every attachment.
LEMMA SendMailStep ==
  ASSUME Inv, NEW m \in Mails, SendMail(m)
  PROVE  MailInv(m)' /\ TypeOK'
<1> USE AttachmentAssumption
<1>1. TypeOK /\ KeptInv(m) /\ PathInv(m) /\ ListInv(m) /\ SentInv(m)
  BY DEF Inv, MailInv
<1> DEFINE q == [i \in 1..Len(job[m]) |-> [given   |-> job[m][i].given,
                                           content |-> files[job[m][i].path]]]
<1>2. /\ sent' = [sent EXCEPT ![m] = q]
      /\ UNCHANGED <<names, readable, step, next, kept, data, paths, files,
                     rows, job, queue>>
  BY DEF SendMail, input
<1>3. job[m] = Listed(m) /\ job[m] # NoList /\ Len(paths[m]) = Len(kept[m])
  BY <1>1 DEF SendMail, TypeOK, ListInv, PathInv
<1>4. /\ Len(job[m]) = Len(kept[m]) /\ Len(kept[m]) \in Nat
      /\ \A i \in 1..Len(kept[m]) : /\ job[m][i].given = kept[m][i]
                                    /\ job[m][i].path = paths[m][i]
  BY <1>1, <1>3, ListedType, SliceTypes
<1>5. ASSUME NEW i \in 1..Len(kept[m])
      PROVE  /\ kept[m][i] \in Slots
             /\ files[paths[m][i]] \in Content \cup {Damaged}
             /\ Undisturbed(m) => files[paths[m][i]] = <<m, kept[m][i]>>
  <2>1. paths[m][i] # NoPath /\ files[paths[m][i]] # NoFile
    BY <1>4 DEF SendMail, Loads, Found
  <2>2. Stored(m, i)
    BY <1>1, <1>3, <2>1 DEF PathInv
  <2>3. StoragePath(m, i) \in Path
    BY <1>1, StoragePathType
  <2>4. kept[m][i] \in Slots
    BY <1>1, SliceTypes, ElementOfSeq
  <2> QED
    BY <1>1, <2>1, <2>2, <2>3, <2>4 DEF Stored, TypeOK
<1>6. /\ q \in [1..Len(kept[m]) -> Part]
      /\ \A i \in 1..Len(kept[m]) : /\ q[i].given = kept[m][i]
                                    /\ q[i].content = files[paths[m][i]]
  BY <1>4, <1>5 DEF Part
<1> HIDE DEF q
<1>7. q \in Seq(Part) /\ Len(q) = Len(kept[m])
  <2>1. Len(kept[m]) \in Nat
    BY <1>4
  <2>2. q \in [1..Len(kept[m]) -> Part]
    BY <1>6
  <2>3. q \in Seq(Part)
    BY <2>1, <2>2, SeqDef
  <2> QED
    BY <2>1, <2>2, <2>3, LenProperties
<1>8. sent' \in [Mails -> Seq(Part) \cup {NoList}] /\ sent'[m] = q
  BY <1>1, <1>2, <1>7 DEF TypeOK
<1>9. SentInv(m)'
  BY <1>2, <1>3, <1>5, <1>6, <1>7, <1>8, SameNames DEF SentInv
<1>10. KeptInv(m)' /\ PathInv(m)' /\ ListInv(m)'
  <2>1. KeptInv(m)'
    <3>1. All(m)' = All(m) /\ Gives(m)' = Gives(m)
      BY <1>2 DEF All, Gives
    <3> QED
      BY <1>1, <1>2, <3>1 DEF KeptInv
  <2>2. \A j : Stored(m, j) => Stored(m, j)'
    BY <1>2, SameNames DEF Stored, StoragePath
  <2>3. PathInv(m)'
    BY <1>1, <1>2, <2>2 DEF PathInv
  <2>4. ListInv(m)'
    BY <1>1, <1>2 DEF ListInv, Listed
  <2> QED
    BY <2>1, <2>3, <2>4
<1>11. TypeOK'
  BY <1>1, <1>2, <1>8 DEF TypeOK
<1> QED
  BY <1>9, <1>10, <1>11 DEF MailInv

LEMMA FinishStep ==
  ASSUME Inv, NEW m \in Mails, Finish(m)
  PROVE  TypeOK'
BY DEF Inv, Finish, input, TypeOK

\* What one mail does leaves the files and the lists of the others alone.
LEMMA OthersUntouched ==
  ASSUME Inv, NEW m \in Mails, NEW n \in Mails, n # m,
         \/ ParsePart(m) \/ ParseEnd(m)
         \/ Save(m) \/ SaveFails(m) \/ SaveRefused(m) \/ SaveEnd(m)
         \/ CreateRow(m) \/ PublishMail(m) \/ Crash(m)
         \/ SendMail(m) \/ Finish(m)
  PROVE  MailInv(n)'
<1>1. TypeOK
  BY DEF Inv
<1>2. names' = names /\ readable' = readable
  BY DEF ParsePart, ParseEnd, Save, SaveFails, SaveRefused, SaveEnd, CreateRow,
         PublishMail, Crash, SendMail, Finish, input
<1>3. /\ step'[n] = step[n] /\ next'[n] = next[n]
      /\ kept'[n] = kept[n] /\ data'[n] = data[n] /\ paths'[n] = paths[n]
      /\ rows'[n] = rows[n] /\ job'[n] = job[n] /\ sent'[n] = sent[n]
  BY <1>1 DEF TypeOK, ParsePart, ParseEnd, Save, SaveFails, SaveRefused,
              SaveEnd, CreateRow, PublishMail, Crash, SendMail, Finish,
              StepTo, Advance, input
<1>4. CASE files' = files
  BY <1>2, <1>3, <1>4, Untouched
<1>5. CASE Save(m) \/ SaveFails(m) \/ SaveRefused(m)
  <2> DEFINE p == StoragePath(m, next[m])
  <2>1. KeptInv(m) /\ KeptInv(n)
    BY DEF Inv, MailInv
  <2>2. next[m] \in 1..Len(kept[m])
    BY <1>1, <1>5, SliceTypes DEF Save, SaveFails, SaveRefused
  <2>3. p \in Path
    BY <1>1, <2>1, <2>2, StoragePathType
  <2>4. Save(m) => <<m, data[m][next[m]]>> \in Content
    BY <1>1, <2>1, <2>2, SliceTypes, ElementOfSeq DEF KeptInv, Content
  <2>5. \/ files' = files
        \/ \E v \in Content \cup {Damaged} : files' = [files EXCEPT ![p] = v]
    BY <1>5, <2>4 DEF Save, SaveFails, SaveRefused, WriteFails
  <2> HIDE DEF p
  <2>6. \A x \in Path : files[x] # NoFile => files'[x] # NoFile
    BY <1>1, <2>5, AttachmentAssumption DEF TypeOK
  <2>7. ASSUME NEW i \in 1..Len(kept[n]), Undisturbed(n)
        PROVE  files'[StoragePath(n, i)] = files[StoragePath(n, i)]
    <3>1. StoragePath(n, i) \in Path
      BY <1>1, <2>1, <2>7, StoragePathType
    <3>2. p # StoragePath(n, i)
      BY <1>1, <2>1, <2>2, <2>7, OthersElsewhere DEF p
    <3> QED
      BY <1>1, <2>5, <3>1, <3>2 DEF TypeOK
  <2> QED
    BY <1>2, <1>3, <2>6, <2>7, Untouched
<1> QED
  BY <1>4, <1>5 DEF ParsePart, ParseEnd, SaveEnd, CreateRow, PublishMail,
                    Crash, SendMail, Finish

LEMMA InvStep == Inv /\ [Next]_vars => Inv'
<1> SUFFICES ASSUME Inv, [Next]_vars PROVE Inv'
  OBVIOUS
<1>1. ASSUME NEW m \in Mails,
             \/ ParsePart(m) \/ ParseEnd(m)
             \/ Save(m) \/ SaveFails(m) \/ SaveRefused(m) \/ SaveEnd(m)
             \/ CreateRow(m) \/ PublishMail(m) \/ Crash(m)
             \/ SendMail(m) \/ Finish(m)
      PROVE  Inv'
  <2>1. CASE Finish(m)
    <3>1. names' = names /\ readable' = readable
      BY <2>1 DEF Finish, input
    <3>2. \A n \in Mails : MailInv(n)'
      BY <2>1, <3>1, Untouched DEF Finish, input
    <3> QED
      BY <2>1, <3>2, FinishStep DEF Inv
  <2>2. CASE ~Finish(m)
    <3>1. MailInv(m)' /\ TypeOK'
      BY <1>1, <2>2, ParsePartStep, ParseEndStep, SaveStep, SaveFailsStep,
         SaveRefusedStep, SaveEndStep, CreateRowStep, PublishMailStep,
         CrashStep, SendMailStep
    <3>2. \A n \in Mails : n # m => MailInv(n)'
      BY <1>1, OthersUntouched
    <3> QED
      BY <3>1, <3>2 DEF Inv
  <2> QED
    BY <2>1, <2>2
<1>2. CASE UNCHANGED vars
  <2>1. TypeOK'
    BY <1>2 DEF Inv, vars, TypeOK
  <2>2. \A n \in Mails : MailInv(n)'
    BY <1>2, Untouched DEF vars
  <2> QED
    BY <2>1, <2>2 DEF Inv
<1> QED
  BY <1>1, <1>2 DEF Next

LEMMA InvHolds == Spec => []Inv
BY InvInit, InvStep, PTL DEF Spec

-----------------------------------------------------------------------------
\* The slices that the intake fills side by side keep step, and rows, jobs and
\* requests are lists of attachments with paths and contents.
THEOREM TypeCorrect == Spec => []TypeOK
BY InvHolds, PTL DEF Inv

\* Whatever the intakes of other mails do, a job that names a path is published
\* only after the file was written, and the file is still there.
THEOREM FilesArePresent == Spec => []FilesPresent
<1>1. Inv => FilesPresent
  <2> SUFFICES ASSUME Inv, NEW m \in Mails,
                      NEW list \in {rows[m], job[m]} \ {NoList},
                      NEW i \in 1..Len(list), list[i].path # NoPath
               PROVE  files[list[i].path] # NoFile
    BY DEF FilesPresent
  <2>1. TypeOK /\ KeptInv(m) /\ PathInv(m) /\ ListInv(m)
    BY DEF Inv, MailInv
  <2>2. list = Listed(m) /\ Len(paths[m]) = Len(kept[m])
    BY <2>1 DEF ListInv, PathInv
  <2>3. i \in 1..Len(kept[m]) /\ list[i].path = paths[m][i]
    BY <2>1, <2>2, ListedType
  <2> QED
    BY <2>1, <2>2, <2>3 DEF PathInv, Stored
<1> QED
  BY <1>1, InvHolds, PTL

\* A mail is sent with every attachment it was given, whichever parts, files or
\* writes failed; and each has its own content if no two have the same name and
\* no name of a REST request leads from one mail's directory to another's.
THEOREM SentIsGiven == Spec => []SentAsGiven
<1>1. ASSUME Inv, NEW m \in Mails, sent[m] # NoList
      PROVE  /\ {sent[m][i].given : i \in 1..Len(sent[m])} = readable[m]
             /\ m \in RestMails => readable[m] = 1..Len(names[m])
  <2>1. TypeOK /\ KeptInv(m) /\ PathInv(m) /\ ListInv(m) /\ SentInv(m)
    BY <1>1 DEF Inv, MailInv
  <2>2. /\ Len(sent[m]) = Len(kept[m]) /\ job[m] # NoList
        /\ \A i \in 1..Len(sent[m]) : sent[m][i].given = kept[m][i]
    BY <1>1, <2>1 DEF SentInv
  <2>3. {sent[m][i].given : i \in 1..Len(sent[m])} = Gives(m)
    BY <2>2 DEF Gives
  <2>4. step[m] = "accepted" /\ Len(paths[m]) = Len(kept[m])
    BY <2>1, <2>2 DEF ListInv, PathInv
  <2>5. CASE m \in RestMails
    <3>1. /\ Len(kept[m]) = Len(names[m])
          /\ \A i \in 1..Len(names[m]) : kept[m][i] = i
      <4>1. kept[m] = All(m) /\ Len(names[m]) \in Nat
        BY <1>1, <2>1, <2>5 DEF KeptInv, TypeOK
      <4>2. Len(All(m)) = Len(names[m])
        BY <1>1, <2>1, <4>1, SliceTypes, LenProperties DEF All
      <4> QED
        BY <4>1, <4>2 DEF All
    <3>2. Gives(m) = 1..Len(names[m])
      BY <3>1 DEF Gives
    <3>3. readable[m] = 1..Len(names[m])
      BY <1>1, <2>1, <2>4, <2>5, <3>1 DEF PathInv, TypeOK
    <3> QED
      BY <2>3, <3>2, <3>3
  <2>6. CASE m \notin RestMails
    BY <2>1, <2>3, <2>4, <2>6 DEF KeptInv
  <2> QED
    BY <2>5, <2>6
<1>2. ASSUME Inv, NEW m \in Mails, sent[m] # NoList, Undisturbed(m),
             NEW i \in 1..Len(sent[m])
      PROVE  sent[m][i].content = <<m, sent[m][i].given>>
  BY <1>2 DEF Inv, MailInv, SentInv
<1>3. Inv => SentAsGiven
  BY <1>1, <1>2 DEF SentAsGiven
<1> QED
  BY <1>3, InvHolds, PTL

=============================================================================
