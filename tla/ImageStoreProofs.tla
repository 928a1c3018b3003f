-------------------------- MODULE ImageStoreProofs --------------------------
(***************************************************************************)
(* Proofs about the image store: for any number of callers, images, sizes, *)
(* failures and restarts, what is linked can be served and an image keeps  *)
(* one id.                                                                 *)
(***************************************************************************)
EXTENDS ImageStore, TLAPS

\* The store begins empty and nobody calls it.
LEMMA InitStore == Init => StoreInv
<1> SUFFICES ASSUME Init PROVE StoreInv
  OBVIOUS
<1>1. TypeOK
  BY DEF Init, TypeOK, Labels
<1>2. LinksCanBeServed /\ OneIdPerImage
  BY DEF Init, LinksCanBeServed, OneIdPerImage
<1>3. \A c \in Caller : CallIsSound(c)
  BY DEF Init, CallIsSound
<1> QED BY <1>1, <1>2, <1>3 DEF StoreInv

\* Callers that return are idle, and the others are where they were.
LEMMA ReturnFrees ==
  ASSUME TypeOK, NEW S \in SUBSET Caller, Return(S)
  PROVE  /\ pc' \in [Caller -> Labels]
         /\ op' \in [Caller -> {"none", "add", "open", "derive"}]
         /\ path' \in [Caller -> Path \cup {NoPath}]
         /\ \A d \in S : pc'[d] = "idle" /\ op'[d] = "none"
         /\ \A d \in Caller \ S : pc'[d] = pc[d] /\ op'[d] = op[d] /\ path'[d] = path[d]
BY DEF TypeOK, Return, Labels

\* Giving up frees the caller, and with it only some that wait.
LEMMA GiveUpFrees ==
  ASSUME TypeOK, NEW c \in Caller, GiveUp(c)
  PROVE  /\ pc' \in [Caller -> Labels]
         /\ op' \in [Caller -> {"none", "add", "open", "derive"}]
         /\ path' \in [Caller -> Path \cup {NoPath}]
         /\ flight' \subseteq Path
         /\ pc'[c] = "idle" /\ op'[c] = "none"
         /\ \A d \in Caller \ {c} :
              \/ pc'[d] = pc[d] /\ op'[d] = op[d] /\ path'[d] = path[d]
              \/ pc[d] = "wait" /\ pc'[d] = "idle" /\ op'[d] = "none"
<1>1. \E S \in SUBSET Caller :
        /\ Return(S) /\ c \in S
        /\ \A d \in S : d = c \/ pc[d] = "wait"
        /\ flight' \subseteq flight
  <2>1. CASE op[c] = "derive"
    <3>1. Aboard(c) \in SUBSET Caller /\ c \in Aboard(c)
      BY DEF Aboard
    <3>2. \A d \in Aboard(c) : d = c \/ pc[d] = "wait"
      BY DEF Aboard
    <3> QED BY <2>1, <3>1, <3>2 DEF GiveUp
  <2>2. CASE op[c] # "derive"
    BY <2>2 DEF GiveUp
  <2> QED BY <2>1, <2>2
<1>2. PICK S \in SUBSET Caller :
        /\ Return(S) /\ c \in S
        /\ \A d \in S : d = c \/ pc[d] = "wait"
        /\ flight' \subseteq flight
  BY <1>1
<1>3. flight' \subseteq Path
  BY <1>2 DEF TypeOK
<1> QED BY <1>2, <1>3, ReturnFrees

\* writeFile ends where its path shows all of the file: the adding caller goes
\* to its upsert, the others that are told find a whole file.
LEMMA WrittenGoesOn ==
  ASSUME TypeOK, NEW c \in Caller, pc[c] \in {"stat", "rename"}, Written(c)
  PROVE  /\ pc' \in [Caller -> Labels]
         /\ op' = op /\ path' = path
         /\ flight' \subseteq Path
         /\ IF op[c] = "add" THEN pc'[c] = "upsert" ELSE pc'[c] = "reopen"
         /\ \A d \in Caller \ {c} :
              \/ pc'[d] = pc[d]
              \/ pc[d] = "wait" /\ pc'[d] = "reopen" /\ path[d] = path[c]
BY DEF TypeOK, Written, Goto, Aboard, Labels, call

\* Files stay, a row keeps its id, and no path shows half a file.
Grows ==
  /\ \A p \in Path : disk'[p] # "part" /\ (disk[p] = "whole" => disk'[p] = "whole")
  /\ \A i \in Image : rows[i] # 0 => rows'[i] = rows[i]

\* A step of one caller leaves another alone, or tells it of a derivation.
Beside(d) ==
  /\ temp'[d] = temp[d] /\ id'[d] = id[d]
  /\ \/ pc'[d] = pc[d] /\ op'[d] = op[d] /\ path'[d] = path[d]
     \/ pc[d] = "wait" /\ pc'[d] = "idle" /\ op'[d] = "none"
     \/ pc[d] = "wait" /\ pc'[d] = "reopen" /\ op'[d] = op[d] /\ path'[d] = path[d]

\* What a caller relies on outlasts the steps of the others.
LEMMA OthersStaySound ==
  ASSUME StoreInv, NEW c \in Caller, Grows, \A d \in Caller \ {c} : Beside(d), CallIsSound(c)'
  PROVE  \A d \in Caller : CallIsSound(d)'
<1> SUFFICES ASSUME NEW d \in Caller \ {c} PROVE CallIsSound(d)'
  OBVIOUS
<1>1. CallIsSound(d) /\ Beside(d)
  BY DEF StoreInv
<1>2. CASE pc[d] = "wait"
  BY <1>1, <1>2 DEF Beside, CallIsSound
<1>3. CASE pc[d] # "wait"
  <2>1. /\ pc'[d] = pc[d] /\ op'[d] = op[d] /\ path'[d] = path[d]
        /\ temp'[d] = temp[d] /\ id'[d] = id[d]
    BY <1>1, <1>3 DEF Beside
  <2>2. pc[d] \in {"upsert", "publish"} => <<path[d][1], Original>> \in Path /\ path[d][1] \in Image
    BY <1>1 DEF CallIsSound, Path
  <2>3. pc[d] = "publish" => rows'[path[d][1]] = rows[path[d][1]]
    BY <1>1, <2>2 DEF CallIsSound, Grows
  <2>4. pc[d] \in {"upsert", "publish"} => disk'[<<path[d][1], Original>>] = "whole"
    BY <1>1, <2>2 DEF CallIsSound, Grows
  <2> QED BY <1>1, <2>1, <2>3, <2>4 DEF CallIsSound
<1> QED BY <1>2, <1>3

\* A step that writes no file and no row, hands out no id and tells nobody.
LEMMA InnerStep ==
  ASSUME StoreInv, NEW c \in Caller, TypeOK', UNCHANGED <<disk, rows, known, given>>,
         \A d \in Caller \ {c} : Beside(d) /\ (pc[d] = "wait" => pc'[d] # "reopen"),
         pc'[c] # "reopen", CallIsSound(c)'
  PROVE  StoreInv'
<1>1. Grows
  BY DEF StoreInv, LinksCanBeServed, Grows
<1>2. \A d \in Caller : CallIsSound(d)'
  BY <1>1, OthersStaySound
<1>3. LinksCanBeServed'
  <2>1. \A d \in Caller : pc'[d] = "reopen" => pc[d] = "reopen" /\ path'[d] = path[d]
    BY DEF Beside
  <2> QED BY <2>1 DEF StoreInv, LinksCanBeServed
<1>4. OneIdPerImage'
  BY DEF StoreInv, OneIdPerImage
<1> QED BY <1>2, <1>3, <1>4 DEF StoreInv

\* A call begins: what is opened is a path, what is added an original.
LEMMA BeginStep ==
  ASSUME StoreInv, NEW c \in Caller,
         \/ \E i \in Image : AddNew(c, i)
         \/ \E p \in Path : Open(c, p)
  PROVE  StoreInv'
<1>1. PICK p \in Path, new \in {"stat", "open"}, called \in {"add", "open"} :
        /\ pc' = [pc EXCEPT ![c] = new]
        /\ op' = [op EXCEPT ![c] = called]
        /\ path' = [path EXCEPT ![c] = p]
        /\ called = "add" => p[2] = Original
  <2>1. CASE \E i \in Image : AddNew(c, i)
    <3>1. PICK i \in Image : AddNew(c, i)
      BY <2>1
    <3>2. <<i, Original>> \in Path
      BY DEF Path
    <3> QED BY <3>1, <3>2 DEF AddNew
  <2>2. CASE \E p \in Path : Open(c, p)
    BY <2>2 DEF Open
  <2> QED BY <2>1, <2>2
<1>2. /\ UNCHANGED <<disk, temp, rows, nextId, known, flight, id, faults, stops, given>>
      /\ pc[c] = "idle"
  BY DEF AddNew, Open, files, index, bounds
<1>3. TypeOK
  BY DEF StoreInv
<1>4. TypeOK'
  BY <1>1, <1>2, <1>3 DEF TypeOK, Labels
<1>5. CallIsSound(c)'
  BY <1>1, <1>3 DEF TypeOK, CallIsSound
<1>6. \A d \in Caller \ {c} : Beside(d) /\ (pc[d] = "wait" => pc'[d] # "reopen")
  BY <1>1, <1>2, <1>3 DEF TypeOK, Beside
<1>7. pc'[c] # "reopen"
  BY <1>1, <1>3 DEF TypeOK
<1> QED BY <1>2, <1>4, <1>5, <1>6, <1>7, InnerStep

\* An image that is known is answered for with the id of its row.
LEMMA AddKnownStep ==
  ASSUME StoreInv, NEW c \in Caller, NEW i \in Image, AddKnown(c, i)
  PROVE  StoreInv'
<1>1. /\ UNCHANGED <<disk, temp, rows, nextId, known, flight, id, faults, stops, pc, op, path>>
      /\ given' = [given EXCEPT ![i] = @ \cup {known[i]}]
      /\ known[i] # 0
  BY DEF AddKnown, files, index, bounds, call
<1>2. TypeOK'
  BY <1>1 DEF StoreInv, TypeOK
<1>3. LinksCanBeServed' /\ \A d \in Caller : CallIsSound(d)'
  BY <1>1 DEF StoreInv, LinksCanBeServed, CallIsSound
<1>4. OneIdPerImage'
  BY <1>1 DEF StoreInv, TypeOK, OneIdPerImage
<1> QED BY <1>2, <1>3, <1>4 DEF StoreInv

\* A call that ends, with an error or with what it opened.
LEMMA EndStep ==
  ASSUME StoreInv, NEW c \in Caller, Fail(c) \/ OpenFile(c) \/ ReopenFile(c) \/ ReadBlob(c)
  PROVE  StoreInv'
<1> DEFINE same == UNCHANGED <<disk, rows, nextId, known, id, stops, given>>
<1>1. TypeOK
  BY DEF StoreInv
<1>2. CASE Fail(c)
  <2>1. /\ same /\ faults' = faults + 1 /\ GiveUp(c)
        /\ temp' = [temp EXCEPT ![c] = "none"]
    BY <1>2 DEF Fail, Fault, index
  <2>2. TypeOK'
    BY <1>1, <2>1, GiveUpFrees DEF TypeOK
  <2>3. CallIsSound(c)'
    BY <1>1, <2>1, GiveUpFrees DEF CallIsSound
  <2>4. \A d \in Caller \ {c} : Beside(d) /\ (pc[d] = "wait" => pc'[d] # "reopen")
    BY <1>1, <2>1, GiveUpFrees DEF Beside, TypeOK
  <2> QED BY <1>1, <2>1, <2>2, <2>3, <2>4, GiveUpFrees, InnerStep
<1>3. ASSUME (Return({c}) /\ UNCHANGED flight) \/ GiveUp(c), pc[c] \in {"open", "reopen", "read"},
             same, UNCHANGED <<temp, faults>>
      PROVE  StoreInv'
  <2>1. TypeOK'
    BY <1>1, <1>3, GiveUpFrees, ReturnFrees DEF TypeOK
  <2>2. CallIsSound(c)' /\ pc'[c] # "reopen"
    BY <1>1, <1>3, GiveUpFrees, ReturnFrees DEF CallIsSound
  <2>3. \A d \in Caller \ {c} : Beside(d) /\ (pc[d] = "wait" => pc'[d] # "reopen")
    BY <1>1, <1>3, GiveUpFrees, ReturnFrees DEF Beside
  <2> QED BY <1>3, <2>1, <2>2, <2>3, InnerStep
<1>4. ASSUME NEW l \in {"miss", "stat"}, pc[c] \in {"open", "read"}, Goto(c, l),
             same, UNCHANGED <<temp, faults, flight>>
      PROVE  StoreInv'
  <2>1. TypeOK'
    BY <1>1, <1>4 DEF TypeOK, Goto, call, Labels
  <2>2. CallIsSound(c)' /\ pc'[c] # "reopen"
    BY <1>1, <1>4 DEF StoreInv, CallIsSound, Goto, call, TypeOK
  <2>3. \A d \in Caller \ {c} : Beside(d) /\ (pc[d] = "wait" => pc'[d] # "reopen")
    BY <1>1, <1>4 DEF Beside, Goto, call, TypeOK
  <2> QED BY <1>4, <2>1, <2>2, <2>3, InnerStep
<1>5. CASE OpenFile(c)
  BY <1>3, <1>4, <1>5 DEF OpenFile, files, index, bounds
<1>6. CASE ReopenFile(c)
  BY <1>3, <1>6 DEF ReopenFile, files, index, bounds
<1>7. CASE ReadBlob(c)
  BY <1>3, <1>4, <1>7 DEF ReadBlob, files, index, bounds
<1> QED BY <1>2, <1>5, <1>6, <1>7

\* The first caller that misses a size derives it; the others wait for it.
LEMMA JoinStep ==
  ASSUME StoreInv, NEW c \in Caller, JoinFlight(c)
  PROVE  StoreInv'
<1>1. TypeOK /\ CallIsSound(c) /\ path[c] \in Path
  BY DEF StoreInv, JoinFlight, CallIsSound
<1>2. PICK l \in {"wait", "read"}, called \in {op[c], "derive"} :
        /\ pc' = [pc EXCEPT ![c] = l]
        /\ op' = [op EXCEPT ![c] = called]
        /\ path' = path
        /\ flight' \subseteq flight \cup {path[c]}
  <2>1. op = [op EXCEPT ![c] = op[c]]
    BY <1>1 DEF TypeOK
  <2> QED BY <2>1 DEF JoinFlight, Goto, call
<1>3. pc[c] = "miss" /\ UNCHANGED <<disk, temp, rows, nextId, known, id, faults, stops, given>>
  BY DEF JoinFlight, files, index, bounds
<1>4. TypeOK'
  BY <1>1, <1>2, <1>3 DEF TypeOK, Labels
<1>5. CallIsSound(c)' /\ pc'[c] # "reopen"
  BY <1>1, <1>2, <1>3 DEF TypeOK, CallIsSound
<1>6. \A d \in Caller \ {c} : Beside(d) /\ (pc[d] = "wait" => pc'[d] # "reopen")
  BY <1>1, <1>2, <1>3 DEF TypeOK, Beside
<1> QED BY <1>3, <1>4, <1>5, <1>6, InnerStep

\* The temp file is filled, and renamed only when it is whole.
LEMMA WriteStep ==
  ASSUME StoreInv, NEW c \in Caller, WriteTemp(c)
  PROVE  StoreInv'
<1>1. TypeOK /\ CallIsSound(c)
  BY DEF StoreInv
<1>2. /\ pc[c] = "write" /\ pc' = [pc EXCEPT ![c] = "rename"]
      /\ temp' = [temp EXCEPT ![c] = "whole"]
      /\ UNCHANGED <<op, path, disk, rows, nextId, known, flight, id, faults, stops, given>>
  BY DEF WriteTemp, Goto, call, index, bounds
<1>3. TypeOK'
  BY <1>1, <1>2 DEF TypeOK, Labels
<1>4. CallIsSound(c)' /\ pc'[c] # "reopen"
  BY <1>1, <1>2 DEF TypeOK, CallIsSound
<1>5. \A d \in Caller \ {c} : Beside(d) /\ (pc[d] = "wait" => pc'[d] # "reopen")
  BY <1>1, <1>2 DEF TypeOK, Beside
<1> QED BY <1>2, <1>3, <1>4, <1>5, InnerStep

\* writeFile finds or makes a whole file, whichever caller makes it first.
LEMMA WrittenStep ==
  ASSUME StoreInv, NEW c \in Caller, pc[c] \in {"stat", "rename"}, Written(c),
         disk' \in [Path -> {"none", "whole"}], disk'[path[c]] = "whole",
         \A p \in Path : disk[p] = "whole" => disk'[p] = "whole",
         temp' = [temp EXCEPT ![c] = "none"],
         UNCHANGED <<rows, nextId, known, id, faults, stops, given>>
  PROVE  StoreInv'
<1>1. TypeOK /\ CallIsSound(c) /\ path[c] \in Path
  BY DEF StoreInv, CallIsSound
<1>2. TypeOK'
  <2>1. temp'[c] = "none" /\ pc'[c] \notin {"write", "rename"}
    BY <1>1, WrittenGoesOn DEF TypeOK
  <2>2. \A d \in Caller \ {c} : temp'[d] # "none" <=> pc'[d] \in {"write", "rename"}
    BY <1>1, WrittenGoesOn DEF TypeOK
  <2>3. temp' \in [Caller -> {"none", "part", "whole"}]
    BY <1>1 DEF TypeOK
  <2> QED BY <1>1, <2>1, <2>2, <2>3, WrittenGoesOn DEF TypeOK
<1>3. Grows
  BY DEF Grows
<1>4. \A d \in Caller : pc'[d] = "reopen" => disk'[path'[d]] = "whole"
  <2> SUFFICES ASSUME NEW d \in Caller, pc'[d] = "reopen" PROVE disk'[path'[d]] = "whole"
    OBVIOUS
  <2>1. CASE path[d] = path[c]
    BY <1>1, <2>1, WrittenGoesOn
  <2>2. CASE path[d] # path[c]
    <3>1. pc[d] = "reopen" /\ path'[d] = path[d]
      BY <1>1, <2>2, WrittenGoesOn
    <3>2. path[d] \in Path /\ disk[path[d]] = "whole"
      BY <3>1 DEF StoreInv, CallIsSound, LinksCanBeServed
    <3> QED BY <3>1, <3>2
  <2> QED BY <2>1, <2>2
<1>5. LinksCanBeServed'
  <2>1. \A i \in Image : rows[i] # 0 => disk'[<<i, Original>>] = "whole"
    <3>1. \A i \in Image : <<i, Original>> \in Path
      BY DEF Path
    <3> QED BY <3>1 DEF StoreInv, LinksCanBeServed
  <2>2. \A p \in Path : disk'[p] # "part"
    OBVIOUS
  <2> QED BY <1>4, <2>1, <2>2 DEF LinksCanBeServed
<1>6. OneIdPerImage'
  BY DEF StoreInv, OneIdPerImage
<1>7. CallIsSound(c)'
  <2>1. op[c] = "add" => path[c] = <<path[c][1], Original>>
    BY <1>1 DEF CallIsSound, Path
  <2> QED BY <1>1, <2>1, WrittenGoesOn DEF CallIsSound
<1>8. \A d \in Caller \ {c} : Beside(d)
  BY <1>1, WrittenGoesOn DEF Beside, TypeOK
<1>9. \A d \in Caller : CallIsSound(d)'
  BY <1>3, <1>7, <1>8, OthersStaySound
<1> QED BY <1>2, <1>5, <1>6, <1>9 DEF StoreInv

\* A file that exists is whole and is left untouched; else a temp file is made.
LEMMA StatStep ==
  ASSUME StoreInv, NEW c \in Caller, StatFile(c)
  PROVE  StoreInv'
<1>1. TypeOK /\ CallIsSound(c) /\ path[c] \in Path
  BY DEF StoreInv, StatFile, CallIsSound
<1>2. pc[c] = "stat" /\ UNCHANGED <<disk, rows, nextId, known, id, faults, stops, given>>
  BY DEF StatFile, index, bounds
<1>3. disk \in [Path -> {"none", "whole"}]
  BY <1>1 DEF StoreInv, TypeOK, LinksCanBeServed
<1>4. CASE disk[path[c]] # "none"
  <2>1. Written(c) /\ temp' = temp
    BY <1>4 DEF StatFile
  <2>2. temp' = [temp EXCEPT ![c] = "none"]
    BY <1>1, <1>2, <2>1 DEF TypeOK
  <2> QED BY <1>1, <1>2, <1>3, <1>4, <2>1, <2>2, WrittenStep
<1>5. CASE disk[path[c]] = "none"
  <2>1. /\ pc' = [pc EXCEPT ![c] = "write"]
        /\ temp' = [temp EXCEPT ![c] = "part"]
        /\ UNCHANGED <<op, path, flight>>
    BY <1>5 DEF StatFile, Goto, call
  <2>2. TypeOK'
    BY <1>1, <1>2, <2>1 DEF TypeOK, Labels
  <2>3. CallIsSound(c)' /\ pc'[c] # "reopen"
    BY <1>1, <2>1 DEF TypeOK, CallIsSound
  <2>4. \A d \in Caller \ {c} : Beside(d) /\ (pc[d] = "wait" => pc'[d] # "reopen")
    BY <1>1, <1>2, <2>1 DEF TypeOK, Beside
  <2> QED BY <1>2, <2>2, <2>3, <2>4, InnerStep
<1> QED BY <1>4, <1>5

\* The rename puts the whole temp file under its path.
LEMMA RenameStep ==
  ASSUME StoreInv, NEW c \in Caller, RenameTemp(c)
  PROVE  StoreInv'
<1>1. TypeOK /\ CallIsSound(c) /\ path[c] \in Path /\ temp[c] = "whole"
  BY DEF StoreInv, RenameTemp, CallIsSound
<1>2. /\ pc[c] = "rename" /\ Written(c)
      /\ disk' = [disk EXCEPT ![path[c]] = "whole"]
      /\ temp' = [temp EXCEPT ![c] = "none"]
      /\ UNCHANGED <<rows, nextId, known, id, faults, stops, given>>
  BY <1>1 DEF RenameTemp, index, bounds
<1>3. disk \in [Path -> {"none", "whole"}]
  BY <1>1 DEF StoreInv, TypeOK, LinksCanBeServed
<1> QED BY <1>1, <1>2, <1>3, WrittenStep

\* The row of an image that has none gets a new id; one that it has stays.
LEMMA UpsertStep ==
  ASSUME StoreInv, NEW c \in Caller, Upsert(c)
  PROVE  StoreInv'
<1> DEFINE i == path[c][1]
<1>1. /\ TypeOK /\ CallIsSound(c) /\ path[c] \in Path /\ i \in Image
      /\ disk[<<i, Original>>] = "whole" /\ op[c] = "add"
  BY DEF StoreInv, Upsert, CallIsSound, Path
<1>2. /\ pc[c] = "upsert" /\ pc' = [pc EXCEPT ![c] = "publish"]
      /\ rows' = [rows EXCEPT ![i] = UpsertedId(i)]
      /\ nextId' = IF UpsertedId(i) = nextId THEN nextId + 1 ELSE nextId
      /\ id' = [id EXCEPT ![c] = UpsertedId(i)]
      /\ UNCHANGED <<op, path, disk, temp, known, flight, faults, stops, given>>
  BY DEF Upsert, Goto, call, files, bounds
<1>3. UpsertedId(i) \in Nat \ {0} /\ (rows[i] # 0 => UpsertedId(i) = rows[i])
  BY <1>1 DEF TypeOK, UpsertedId
<1> HIDE DEF i
<1>4. TypeOK'
  BY <1>1, <1>2, <1>3 DEF TypeOK, Labels
<1>5. Grows
  BY <1>1, <1>2, <1>3 DEF StoreInv, LinksCanBeServed, TypeOK, Grows
<1>6. LinksCanBeServed'
  BY <1>1, <1>2, <1>3 DEF StoreInv, LinksCanBeServed, TypeOK
<1>7. OneIdPerImage'
  BY <1>1, <1>2, <1>3 DEF StoreInv, OneIdPerImage, TypeOK
<1>8. CallIsSound(c)'
  BY <1>1, <1>2, <1>3 DEF TypeOK, CallIsSound, i
<1>9. \A d \in Caller \ {c} : Beside(d)
  BY <1>1, <1>2 DEF TypeOK, Beside
<1>10. \A d \in Caller : CallIsSound(d)'
  BY <1>5, <1>8, <1>9, OthersStaySound
<1> QED BY <1>4, <1>6, <1>7, <1>10 DEF StoreInv

\* What is published, by whichever caller came first, is the id of the row.
LEMMA PublishStep ==
  ASSUME StoreInv, NEW c \in Caller, Publish(c)
  PROVE  StoreInv'
<1> DEFINE i   == path[c][1]
           img == IF known[i] # 0 THEN known[i] ELSE id[c]
<1>1. /\ TypeOK /\ i \in Image
      /\ id[c] = rows[i] /\ id[c] # 0
  BY DEF StoreInv, Publish, CallIsSound, Path
<1>2. /\ known' = [known EXCEPT ![i] = img]
      /\ given' = [given EXCEPT ![i] = @ \cup {img}]
      /\ id' = [id EXCEPT ![c] = 0]
      /\ Return({c}) /\ pc[c] = "publish"
      /\ UNCHANGED <<disk, temp, rows, nextId, flight, faults, stops>>
  BY DEF Publish, files, index, bounds
<1>3. img = rows[i] /\ img \in Nat \ {0}
  <2>1. known[i] # 0 => known[i] = rows[i]
    BY <1>1 DEF StoreInv, OneIdPerImage
  <2>2. rows[i] \in Nat
    BY <1>1 DEF TypeOK
  <2> QED BY <1>1, <2>1, <2>2
<1> HIDE DEF i, img
<1>4. TypeOK'
  BY <1>1, <1>2, <1>3, ReturnFrees DEF TypeOK
<1>5. Grows
  BY <1>2 DEF StoreInv, LinksCanBeServed, Grows
<1>6. LinksCanBeServed'
  BY <1>1, <1>2, ReturnFrees DEF StoreInv, LinksCanBeServed
<1>7. OneIdPerImage'
  <2>1. known \in [Image -> Nat] /\ given \in [Image -> SUBSET Nat] /\ rows' = rows
    BY <1>1, <1>2 DEF TypeOK
  <2>2. OneIdPerImage
    BY DEF StoreInv
  <2>3. ASSUME NEW j \in Image
        PROVE  given'[j] \cup ({known'[j]} \ {0}) \subseteq {rows'[j]} \ {0}
    <3>1. CASE j = i
      <4>1. given'[i] = given[i] \cup {img} /\ known'[i] = img
        BY <1>1, <1>2, <2>1
      <4> QED BY <1>1, <1>3, <2>1, <2>2, <3>1, <4>1 DEF OneIdPerImage
    <3>2. CASE j # i
      <4>1. given'[j] = given[j] /\ known'[j] = known[j]
        BY <1>2, <2>1, <3>2
      <4> QED BY <2>1, <2>2, <4>1 DEF OneIdPerImage
    <3> QED BY <3>1, <3>2
  <2> QED BY <2>3 DEF OneIdPerImage
<1>8. CallIsSound(c)'
  BY <1>1, <1>2, ReturnFrees DEF CallIsSound
<1>9. \A d \in Caller \ {c} : Beside(d)
  BY <1>1, <1>2, ReturnFrees DEF TypeOK, Beside
<1>10. \A d \in Caller : CallIsSound(d)'
  BY <1>5, <1>8, <1>9, OthersStaySound
<1> QED BY <1>4, <1>6, <1>7, <1>10 DEF StoreInv

\* A new process has the old files and rows, an empty map and no callers.
LEMMA RestartStep ==
  ASSUME StoreInv, Restart
  PROVE  StoreInv'
<1>1. /\ Return(Caller) /\ TypeOK
      /\ known' = [i \in Image |-> 0] /\ flight' = {} /\ stops' = stops + 1
      /\ temp' = [c \in Caller |-> "none"] /\ id' = [c \in Caller |-> 0]
      /\ UNCHANGED <<disk, rows, nextId, faults, given>>
  BY DEF StoreInv, Restart, index
<1>2. TypeOK'
  BY <1>1, ReturnFrees DEF TypeOK
<1>3. LinksCanBeServed'
  BY <1>1, ReturnFrees DEF StoreInv, LinksCanBeServed
<1>4. OneIdPerImage'
  BY <1>1 DEF StoreInv, OneIdPerImage
<1>5. \A c \in Caller : CallIsSound(c)'
  BY <1>1, ReturnFrees DEF CallIsSound
<1> QED BY <1>2, <1>3, <1>4, <1>5 DEF StoreInv

\* Every step of any caller, and the end of the process, keeps the invariant.
LEMMA StoreStep == StoreInv /\ [Next]_vars => StoreInv'
<1> SUFFICES ASSUME StoreInv, [Next]_vars PROVE StoreInv'
  OBVIOUS
<1>1. CASE \E c \in Caller : (\E i \in Image : AddNew(c, i)) \/ (\E p \in Path : Open(c, p))
  BY <1>1, BeginStep
<1>2. CASE \E c \in Caller, i \in Image : AddKnown(c, i)
  BY <1>2, AddKnownStep
<1>3. CASE \E c \in Caller : Fail(c) \/ OpenFile(c) \/ ReopenFile(c) \/ ReadBlob(c)
  BY <1>3, EndStep
<1>4. CASE \E c \in Caller : JoinFlight(c) \/ WriteTemp(c)
  BY <1>4, JoinStep, WriteStep
<1>5. CASE \E c \in Caller : StatFile(c) \/ RenameTemp(c)
  BY <1>5, StatStep, RenameStep
<1>6. CASE \E c \in Caller : Upsert(c) \/ Publish(c)
  BY <1>6, UpsertStep, PublishStep
<1>7. CASE Restart
  BY <1>7, RestartStep
<1>8. CASE UNCHANGED vars
  BY <1>8 DEF vars, StoreInv, TypeOK, LinksCanBeServed, OneIdPerImage, CallIsSound
<1> QED BY <1>1, <1>2, <1>3, <1>4, <1>5, <1>6, <1>7, <1>8 DEF Next, Step

\* Every reachable state of the store satisfies its inductive invariant: what
\* Add, Open and writeFile rely on holds between any two steps of others.
THEOREM StoreInvariance == Spec => []StoreInv
<1> QED BY InitStore, StoreStep, PTL DEF Spec

\* Blobs are written before rows and renamed only when whole, so whatever
\* callers race, fail or die, every row has its blob and every derivation that
\* was reported has its file.
THEOREM LinksAreServed == Spec => []LinksCanBeServed
<1>1. StoreInv => LinksCanBeServed
  BY DEF StoreInv
<1> QED BY <1>1, StoreInvariance, PTL

\* The upsert keeps the id of a row and the first entry of known stays, so
\* every Add of an image, in any process, returns the same id.
THEOREM IdsAreUnique == Spec => []OneIdPerImage
<1>1. StoreInv => OneIdPerImage
  BY DEF StoreInv
<1> QED BY <1>1, StoreInvariance, PTL
=============================================================================
