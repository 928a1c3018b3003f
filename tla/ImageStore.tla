----------------------------- MODULE ImageStore -----------------------------
(***************************************************************************)
(* The image store (images/store.go) and its index (sqlite/images.go):     *)
(* parse workers add images and HTTP requests open them, original or       *)
(* resized, in any number at once, with calls that fail and a process that *)
(* dies between any two steps and starts again on the same files and rows. *)
(*                                                                         *)
(* An image stands for its bytes, and so for its content hash: the bytes of*)
(* a file are determined by its path, and only how many of them are there  *)
(* is state.                                                               *)
(***************************************************************************)
EXTENDS Naturals

CONSTANTS
  Caller,      \* goroutines
  Image,
  Header,      \* the images whose header one of the decoders understands
  Body,        \* the images that decode to the end
  Size,        \* SupportedSizes
  NoPath,      \* of a caller that is in no call
  MaxFaults,   \* bound: system calls or statements that fail
  MaxStops     \* bound: crashes and exits of the process

ASSUME ConstantsType ==
  /\ Body \subseteq Header /\ Header \subseteq Image
  /\ Size \subseteq Nat \ {0}
  /\ MaxFaults \in Nat /\ MaxStops \in Nat

Original == 0
Path     == Image \X (Size \cup {Original})

VARIABLES
  disk,        \* what is under a path: "none", "part" of the bytes, or "whole"
  rows,        \* the id of an image's row; 0: no row
  nextId,
  known,       \* the map known: ids; 0: no entry
  flight,      \* derive: the paths that some caller derives
  pc,          \* where each caller is
  op, path,    \* what it was called for
  temp,        \* its temp file: "none", "part" or "whole"
  id,          \* of the row that it upserted
  faults, stops,
  given        \* history: the ids that callers were given for an image

vars   == <<disk, rows, nextId, known, flight, pc, op, path, temp, id, faults, stops, given>>
files  == <<disk, temp>>
index  == <<rows, nextId>>
call   == <<op, path>>
bounds == <<faults, stops>>

Init ==
  /\ disk = [p \in Path |-> "none"]
  /\ rows = [i \in Image |-> 0]
  /\ nextId = 1
  /\ known = [i \in Image |-> 0]
  /\ flight = {}
  /\ pc = [c \in Caller |-> "idle"]
  /\ op = [c \in Caller |-> "none"]
  /\ path = [c \in Caller |-> NoPath]
  /\ temp = [c \in Caller |-> "none"]
  /\ id = [c \in Caller |-> 0]
  /\ faults = 0 /\ stops = 0
  /\ given = [i \in Image |-> {}]

Fault == faults < MaxFaults /\ faults' = faults + 1

Goto(c, l) == pc' = [pc EXCEPT ![c] = l] /\ UNCHANGED call

\* The callers in S return.
Return(S) ==
  /\ pc' = [c \in Caller |-> IF c \in S THEN "idle" ELSE pc[c]]
  /\ op' = [c \in Caller |-> IF c \in S THEN "none" ELSE op[c]]
  /\ path' = [c \in Caller |-> IF c \in S THEN NoPath ELSE path[c]]

\* Who shares the flight of a caller that derives.
Aboard(c) == {d \in Caller : d = c \/ (pc[d] = "wait" /\ path[d] = path[c])}

\* Mutant: a failed derivation leaves those that wait for it.
GiveUp_alone(c) ==
  Return({c}) /\ flight' = (IF op[c] = "derive" THEN flight \ {path[c]} ELSE flight)

\* A call that returns an error; all that wait for a derivation fail with it.
GiveUp(c) ==
  IF op[c] = "derive"
    THEN Return(Aboard(c)) /\ flight' = flight \ {path[c]}
    ELSE Return({c}) /\ UNCHANGED flight

-----------------------------------------------------------------------------
(* Add.                                                                    *)

\* The fast path: an image that is known.
AddKnown(c, i) ==
  /\ pc[c] = "idle"
  /\ known[i] # 0
  /\ given' = [given EXCEPT ![i] = @ \cup {known[i]}]
  /\ UNCHANGED <<files, index, known, flight, pc, call, id, bounds>>

\* Up to the call of writeFile; what has no header that decodes is refused.
AddNew(c, i) ==
  /\ pc[c] = "idle"
  /\ known[i] = 0 /\ i \in Header
  /\ pc' = [pc EXCEPT ![c] = "stat"]
  /\ op' = [op EXCEPT ![c] = "add"]
  /\ path' = [path EXCEPT ![c] = <<i, Original>>]
  /\ UNCHANGED <<files, index, known, flight, id, bounds, given>>

\* Mutant: the new id replaces the one of the row.
UpsertedId_new(i) == nextId

\* ON CONFLICT (content_hash) keeps the id of the row.
UpsertedId(i) == IF rows[i] # 0 THEN rows[i] ELSE nextId

Upsert(c) ==
  LET i == path[c][1]
  IN  /\ pc[c] = "upsert"
      /\ rows' = [rows EXCEPT ![i] = UpsertedId(i)]
      /\ nextId' = IF UpsertedId(i) = nextId THEN nextId + 1 ELSE nextId
      /\ id' = [id EXCEPT ![c] = UpsertedId(i)]
      /\ Goto(c, "publish")
      /\ UNCHANGED <<files, known, flight, bounds, given>>

\* The first writer's entry stays, and is what every caller returns.
Publish(c) ==
  LET i   == path[c][1]
      img == IF known[i] # 0 THEN known[i] ELSE id[c]
  IN  /\ pc[c] = "publish"
      /\ known' = [known EXCEPT ![i] = img]
      /\ given' = [given EXCEPT ![i] = @ \cup {img}]
      /\ id' = [id EXCEPT ![c] = 0]
      /\ Return({c})
      /\ UNCHANGED <<files, index, flight, bounds>>

-----------------------------------------------------------------------------
(* writeFile, for a blob or for a derivative.                              *)

\* Its caller goes on: Add with the upsert, a derivation with its result.
Written(c) ==
  IF op[c] = "add"
    THEN Goto(c, "upsert") /\ UNCHANGED flight
    ELSE /\ pc' = [d \in Caller |-> IF d \in Aboard(c) THEN "reopen" ELSE pc[d]]
         /\ flight' = flight \ {path[c]}
         /\ UNCHANGED call

\* A file that exists is left untouched; else a temp file is created.
StatFile(c) ==
  /\ pc[c] = "stat"
  /\ IF disk[path[c]] # "none"
       THEN Written(c) /\ UNCHANGED temp
       ELSE /\ temp' = [temp EXCEPT ![c] = "part"]
            /\ Goto(c, "write")
            /\ UNCHANGED flight
  /\ UNCHANGED <<disk, index, known, id, bounds, given>>

WriteTemp(c) ==
  /\ pc[c] = "write"
  /\ temp' = [temp EXCEPT ![c] = "whole"]
  /\ Goto(c, "rename")
  /\ UNCHANGED <<disk, index, known, flight, id, bounds, given>>

\* Mutant: the temp file is renamed as soon as it is created.
RenameTemp_early(c) ==
  \/ /\ pc[c] = "write"
     /\ disk' = [disk EXCEPT ![path[c]] = "part"]
     /\ Goto(c, "rename")
     /\ UNCHANGED <<temp, flight>>
     /\ UNCHANGED <<index, known, id, bounds, given>>
  \/ /\ pc[c] = "rename"
     /\ disk' = [disk EXCEPT ![path[c]] = "whole"]
     /\ temp' = [temp EXCEPT ![c] = "none"]
     /\ Written(c)
     /\ UNCHANGED <<index, known, id, bounds, given>>

RenameTemp(c) ==
  /\ pc[c] = "rename"
  /\ disk' = [disk EXCEPT ![path[c]] = temp[c]]
  /\ temp' = [temp EXCEPT ![c] = "none"]
  /\ Written(c)
  /\ UNCHANGED <<index, known, id, bounds, given>>

\* Mutant: an error leaves the temp file behind.
Fail_litters(c) ==
  /\ pc[c] \in {"stat", "write", "rename", "upsert", "open", "read", "reopen"}
  /\ Fault
  /\ GiveUp(c)
  /\ UNCHANGED <<files, index, known, id, stops, given>>

\* An error of a file operation or of the upsert ends the call; writeFile
\* removes its temp file.
Fail(c) ==
  /\ pc[c] \in {"stat", "write", "rename", "upsert", "open", "read", "reopen"}
  /\ Fault
  /\ temp' = [temp EXCEPT ![c] = "none"]
  /\ GiveUp(c)
  /\ UNCHANGED <<disk, index, known, id, stops, given>>

-----------------------------------------------------------------------------
(* Open.                                                                   *)

Open(c, p) ==
  /\ pc[c] = "idle"
  /\ pc' = [pc EXCEPT ![c] = "open"]
  /\ op' = [op EXCEPT ![c] = "open"]
  /\ path' = [path EXCEPT ![c] = p]
  /\ UNCHANGED <<files, index, known, flight, id, bounds, given>>

\* openOriginal, and the first os.Open of openDerivative: only a size that is
\* not there goes on.
OpenFile(c) ==
  /\ pc[c] = "open"
  /\ IF disk[path[c]] = "none" /\ path[c][2] # Original THEN Goto(c, "miss") ELSE Return({c})
  /\ UNCHANGED <<files, index, known, flight, id, bounds, given>>

\* singleflight: the first caller of a path derives it, the others wait.
JoinFlight(c) ==
  /\ pc[c] = "miss"
  /\ IF path[c] \in flight
       THEN Goto(c, "wait") /\ UNCHANGED flight
       ELSE /\ pc' = [pc EXCEPT ![c] = "read"]
            /\ op' = [op EXCEPT ![c] = "derive"]
            /\ flight' = flight \cup {path[c]}
            /\ UNCHANGED path
  /\ UNCHANGED <<files, index, known, id, bounds, given>>

\* makeDerivative up to writeFile: a blob that is not there, or does not
\* decode, fails the derivation.
ReadBlob(c) ==
  LET i == path[c][1]
  IN  /\ pc[c] = "read"
      /\ IF disk[<<i, Original>>] = "whole" /\ i \in Body
           THEN Goto(c, "stat") /\ UNCHANGED flight
           ELSE GiveUp(c)
      /\ UNCHANGED <<files, index, known, id, bounds, given>>

\* The second os.Open of openDerivative.
ReopenFile(c) ==
  /\ pc[c] = "reopen"
  /\ Return({c})
  /\ UNCHANGED <<files, index, known, flight, id, bounds, given>>

-----------------------------------------------------------------------------
\* The process ends anywhere, by a crash or by main returning while requests
\* are served; NewStore begins with an empty map.  Temp files stay behind
\* under names that nobody uses again.
Restart ==
  /\ stops < MaxStops
  /\ stops' = stops + 1
  /\ known' = [i \in Image |-> 0]
  /\ flight' = {}
  /\ Return(Caller)
  /\ temp' = [c \in Caller |-> "none"]
  /\ id' = [c \in Caller |-> 0]
  /\ UNCHANGED <<disk, index, faults, given>>

Step(c) ==
  \/ StatFile(c) \/ WriteTemp(c) \/ RenameTemp(c)
  \/ Upsert(c) \/ Publish(c)
  \/ OpenFile(c) \/ JoinFlight(c) \/ ReadBlob(c) \/ ReopenFile(c)

Next ==
  \/ \E c \in Caller : \/ \E i \in Image : AddKnown(c, i) \/ AddNew(c, i)
                       \/ \E p \in Path : Open(c, p)
                       \/ Step(c)
                       \/ Fail(c)
  \/ Restart

Spec == Init /\ [][Next]_vars

\* A goroutine in a call goes on; nobody has to make another one.
FairSpec == Spec /\ \A c \in Caller : WF_vars(Step(c))

-----------------------------------------------------------------------------
Labels == {"idle", "stat", "write", "rename", "upsert", "publish",
           "open", "miss", "wait", "read", "reopen"}

TypeOK ==
  /\ disk \in [Path -> {"none", "part", "whole"}]
  /\ rows \in [Image -> Nat]
  /\ nextId \in Nat \ {0}
  /\ known \in [Image -> Nat]
  /\ flight \subseteq Path
  /\ pc \in [Caller -> Labels]
  /\ op \in [Caller -> {"none", "add", "open", "derive"}]
  /\ path \in [Caller -> Path \cup {NoPath}]
  /\ temp \in [Caller -> {"none", "part", "whole"}]
  /\ \A c \in Caller : temp[c] # "none" <=> pc[c] \in {"write", "rename"}
  /\ id \in [Caller -> Nat]
  /\ faults \in Nat /\ stops \in Nat
  /\ given \in [Image -> SUBSET Nat]

(* Properties.                                                             *)

\* What a link to an image leads to can be served, whenever it is followed
\* and whatever failed or died on the way: a row, from which the library's
\* links are made, has its blob; a derivation that was reported done, to its
\* own caller or to one that waited, has its file; and no path ever shows
\* half a file.
LinksCanBeServed ==
  /\ \A i \in Image : rows[i] # 0 => disk[<<i, Original>>] = "whole"
  /\ \A c \in Caller : pc[c] = "reopen" => disk[path[c]] = "whole"
  /\ \A p \in Path : disk[p] # "part"

\* An image has one id: callers that raced each other, a process that has
\* forgotten it and a fast path that no longer asks the database all return
\* the id that the row has for good; album_images refers to it.
OneIdPerImage ==
  \A i \in Image : given[i] \cup ({known[i]} \ {0}) \subseteq {rows[i]} \ {0}

\* No caller waits for ever, also for a derivation that failed under another.
EveryCallEnds == \A c \in Caller : pc[c] # "idle" ~> pc[c] = "idle"

(* The inductive invariant of the proofs.                                  *)

\* What a call relies on between its steps, whatever others do meanwhile: the
\* blob it wrote is there when it upserts the row, and the row it upserted is
\* still the one it will publish.
CallIsSound(c) ==
  /\ pc[c] # "idle" => path[c] \in Path
  /\ op[c] = "add" => path[c][2] = Original
  /\ pc[c] = "rename" => temp[c] = "whole"
  /\ pc[c] \in {"upsert", "publish"} =>
       op[c] = "add" /\ disk[<<path[c][1], Original>>] = "whole"
  /\ pc[c] = "publish" => id[c] = rows[path[c][1]] /\ id[c] # 0

\* Every state of the store, its index and its callers: the properties above
\* and what makes them last.
StoreInv ==
  /\ TypeOK
  /\ LinksCanBeServed
  /\ OneIdPerImage
  /\ \A c \in Caller : CallIsSound(c)

=============================================================================
