----------------------------- MODULE ConfigText -----------------------------
(***************************************************************************)
(* config.toml as the text the page edits.  Every form of the page changes *)
(* the file by cutting lines out of it and putting others in, so that the  *)
(* rest of what a person wrote stays as it is; no TOML encoder is used.    *)
(* A line is a tuple: its kind and what tells it from others of its kind.  *)
(* The module shows that these cuts do what ConfigData says.               *)
(***************************************************************************)
EXTENDS Naturals, Sequences, SequencesExt, FiniteSetsExt, Functions

CONSTANTS Names, Sections, \* "" is the part of the file above every header
          FormValues,      \* what the page writes into a block
          Texts,           \* the files a person may have written
          MaxLines         \* bound on the length of a text

VARIABLE text

Header(s) == <<"head", s>>
Name(n) == <<"name", n>>
Listen(v) == <<"listen", v>>
Password(p) == <<"password", p>>
Blank == <<"blank">>
Note == <<"note">>     \* a comment
Quote == <<"quote">>   \* opens or closes a multi-line string

-----------------------------------------------------------------------------
(* What the loader makes of a text.                                        *)

Quoted(t, i) == Cardinality({j \in 1..(i - 1) : t[j] = Quote}) % 2 = 1
Heads(t) == {i \in DOMAIN t : t[i][1] = "head" /\ ~Quoted(t, i)}
EndOf(t, i) == Min({h \in Heads(t) : h > i} \cup {Len(t) + 1})

(* The lines from i up to e that are data.                                 *)
DataOf(t, i, e) == LET Kept == {j \in i..(e - 1) : Quoted(t, j) \/ t[j] \notin {Blank, Note}}
                   IN [k \in 1..Cardinality(Kept) |->
                         t[CHOOSE j \in Kept : Cardinality({l \in Kept : l <= j}) = k]]
NameIn(t, i, e) == {j \in i..(e - 1) : t[j][1] = "name" /\ ~Quoted(t, j)}
Values(t, i) == LET e == EndOf(t, i)
                    d == DataOf(t, i + 1, e)
                IN SelectSeq(d, LAMBDA l : l[1] /= "name")

CamHeads(t) == LET H == {i \in Heads(t) : t[i][2] = "camera"}
               IN [k \in 1..Cardinality(H) |->
                     CHOOSE i \in H : Cardinality({h \in H : h <= i}) = k]
CamsOf(t) == [k \in DOMAIN CamHeads(t) |->
                LET i == CamHeads(t)[k]
                    At == NameIn(t, i, EndOf(t, i))
                IN [name |-> IF At = {} THEN "" ELSE t[Min(At)][2], value |-> Values(t, i)]]
SectionsOf(t) == [s \in ({t[i][2] : i \in Heads(t)} \ {"camera"}) \cup {""} |->
                    IF s = "" THEN DataOf(t, 1, Min(Heads(t) \cup {Len(t) + 1}))
                    ELSE Values(t, CHOOSE i \in Heads(t) : t[i][2] = s)]
NamesOf(t) == {CamsOf(t)[k].name : k \in DOMAIN CamsOf(t)}

(* The loader takes it: no block without a name, no two of one name, no    *)
(* section twice.                                                          *)
Loads(t) ==
  /\ Cardinality({i \in DOMAIN t : t[i] = Quote}) % 2 = 0
  /\ \A k \in DOMAIN CamHeads(t) :
       LET i == CamHeads(t)[k] IN Cardinality(NameIn(t, i, EndOf(t, i))) = 1
  /\ IsInjective([k \in DOMAIN CamsOf(t) |-> CamsOf(t)[k].name])
  /\ \A i, j \in Heads(t) : t[i] = t[j] /\ t[i][2] /= "camera" => i = j

-----------------------------------------------------------------------------
(* The edits.                                                              *)

TrimEnd(t, low, e) == Min({e} \cup {k \in low..e : \A i \in k..(e - 1) : t[i] = Blank})
SkipBlanks(t, e) == Max({e} \cup {k \in e..(Len(t) + 1) : \A i \in e..(k - 1) : t[i] = Blank})

(* Mutant: the scan for headers does not know about multi-line strings.    *)
ScanBlind(t) == {i \in DOMAIN t : t[i][1] = "head"}
(* The headers a scan of the lines finds: it goes from line to line and    *)
(* knows whether it is inside a multi-line string.                         *)
Scan(t) ==
  LET Multi[i \in 0..Len(t)] == IF i = 0 THEN FALSE
                                ELSE IF Multi[i - 1] THEN t[i] /= Quote ELSE t[i] = Quote
  IN {i \in DOMAIN t : t[i][1] = "head" /\ ~Multi[i - 1]}

NoBlock == [start |-> 0, end |-> 0]
findCameraBlock(t, n) ==
  LET Found == Scan(t)
      End(i) == TrimEnd(t, i + 1, Min({h \in Found : h > i} \cup {Len(t) + 1}))
      Of == {i \in Found : /\ t[i] = Header("camera")
                           /\ \E j \in NameIn(t, i, End(i)) : t[j] = Name(n)}
  IN IF Of = {} THEN NoBlock ELSE [start |-> Min(Of), end |-> End(Min(Of))]

Before(t, i) == SubSeq(t, 1, i - 1)
From(t, i) == SubSeq(t, i, Len(t))
(* Text that ends in a line break ends, as lines, in an empty one.         *)
Closed(t) == IF t = <<>> THEN <<Blank>> ELSE t
TrimRight(t) == Before(t, TrimEnd(t, 1, Len(t) + 1))

cameraBlockText(n, v) == <<Header("camera"), Name(n)>> \o v

upsertCameraBlock(t, n, v) ==
  LET b == findCameraBlock(t, n)
      block == cameraBlockText(n, v)
  IN IF b /= NoBlock THEN Before(t, b.start) \o block \o Closed(From(t, b.end))
     ELSE IF TrimRight(t) = <<>> THEN block \o <<Blank>>
     ELSE TrimRight(t) \o <<Blank>> \o block \o <<Blank>>

removeCameraBlock(t, n) ==
  LET b == findCameraBlock(t, n)
  IN Before(t, TrimEnd(t, 1, b.start)) \o From(t, SkipBlanks(t, b.end))

(* The first line of the block that sets a name is the camera's.           *)
renameCameraBlock(t, n, m) ==
  LET b == findCameraBlock(t, n)
  IN [t EXCEPT ![Min({i \in b.start..(b.end - 1) : t[i][1] = "name"})] = Name(m)]

(* Blocks swap places: the k-th span takes the body of the k-th name       *)
(* wanted, and what lies between spans stays.                              *)
reorderCameraBlocks(t, names) ==
  LET Current == [k \in DOMAIN CamsOf(t) |-> CamsOf(t)[k].name]
      First(i) == names[i] \in ToSet(Current) /\ \A j \in 1..(i - 1) : names[j] /= names[i]
      Asked == FlattenSeq([i \in DOMAIN names |-> IF First(i) THEN <<names[i]>> ELSE <<>>])
      want == Asked \o SelectSeq(Current, LAMBDA n : n \notin ToSet(Asked))
      Span(k) == findCameraBlock(t, Current[k])
      Body(n) == LET b == findCameraBlock(t, n) IN SubSeq(t, b.start, b.end - 1)
      Gap(k) == IF k = 1 THEN Before(t, Span(1).start)
                ELSE SubSeq(t, Span(k - 1).end, Span(k).start - 1)
  IN IF want = <<>> THEN t
     ELSE FlattenSeq([k \in DOMAIN want |-> Gap(k) \o Body(want[k])]) \o From(t, Span(Len(want)).end)

(* Mutant: a section is always added, never looked for.                    *)
upsertAlways(t, s, v) == TrimRight(t) \o <<Blank, Header(s)>> \o v \o <<Blank>>
(* The last header of the name, to the next line that looks like a header. *)
upsertSection(t, s, v) ==
  LET At == {i \in DOMAIN t : t[i] = Header(s)}
      Cameras == {i \in DOMAIN t : t[i] = Header("camera")}
      start == Max(At)
      end == TrimEnd(t, start + 1,
               Min({i \in DOMAIN t : i > start /\ t[i][1] = "head"} \cup {Len(t) + 1}))
      section == <<Header(s)>> \o v
  IN IF At /= {} THEN Closed(Before(t, start)) \o section \o Closed(From(t, end))
     ELSE IF Cameras /= {} THEN Closed(Before(t, Min(Cameras))) \o section \o <<Blank>> \o From(t, Min(Cameras))
     ELSE TrimRight(t) \o <<Blank>> \o section \o <<Blank>>

(* A listen line is set in place, put first in its section, or, for a      *)
(* section [rtsp] that is not there, put in a new one.                     *)
setListen(t, s, v) ==
  LET head == IF s = "" THEN 0 ELSE Min({i \in DOMAIN t : t[i] = Header(s)} \cup {Len(t) + 1})
      end == Min({i \in DOMAIN t : i > head /\ t[i][1] = "head"} \cup {Len(t) + 1})
      At == {i \in (head + 1)..(end - 1) : t[i][1] = "listen"}
  IN IF head > Len(t)
     THEN IF s = "rtsp" THEN upsertSection(t, s, <<Listen(v)>>) ELSE t
     ELSE IF At /= {} THEN [t EXCEPT ![Min(At)] = Listen(v)]
     ELSE SubSeq(t, 1, head) \o <<Listen(v)>> \o From(t, head + 1)

(* Every password line of the first [control] section.                     *)
setControlPassword(t, p) ==
  LET head == Min({i \in DOMAIN t : t[i] = Header("control")})
      end == Min({i \in DOMAIN t : i > head /\ t[i][1] = "head"} \cup {Len(t) + 1})
  IN [i \in DOMAIN t |-> IF i \in head..(end - 1) /\ t[i][1] = "password"
                         THEN Password(p) ELSE t[i]]

-----------------------------------------------------------------------------
Init == text \in {t \in Texts : Loads(t)}

Fits == Len(text') <= MaxLines
(* The edits of sections and keys do not know about multi-line strings     *)
(* that hold a line like a header.                                         *)
Plain == \A i \in DOMAIN text : text[i][1] = "head" => ~Quoted(text, i)

SaveCamera(n, v) == text' = upsertCameraBlock(text, n, v) /\ Fits
RemoveCamera(n) == findCameraBlock(text, n) /= NoBlock /\ text' = removeCameraBlock(text, n)
RenameCamera(n, m) == /\ findCameraBlock(text, n) /= NoBlock /\ m \notin NamesOf(text)
                      /\ text' = renameCameraBlock(text, n, m)
ReorderCameras(q) == text' = reorderCameraBlocks(text, q)
SaveSection(s, v) == Plain /\ text' = upsertSection(text, s, v) /\ Fits
SaveListen(s, v) == Plain /\ text' = setListen(text, s, v) /\ Fits
SavePassword(p) == /\ Plain /\ "control" \in DOMAIN SectionsOf(text)
                   /\ text' = setControlPassword(text, p)

Next == \/ \E n \in Names, v \in FormValues : SaveCamera(n, v)
        \/ \E n \in Names : RemoveCamera(n)
        \/ \E n, m \in Names : RenameCamera(n, m)
        \/ \E q \in {<<n, m>> : n, m \in Names} : ReorderCameras(q)
        \/ \E s \in Sections, v \in FormValues : SaveSection(s, v)
        \/ \E s \in {"", "rtsp", "control"}, v \in {0, 1} : SaveListen(s, v)
        \/ \E p \in {0, 1} : SavePassword(p)

Spec == Init /\ [][Next]_text

(* Edits of the text are edits of the data: whatever a person wrote around *)
(* the cameras and sections, and however often it is edited, a form        *)
(* changes what it is about and nothing else that the loader reads.        *)
Data == INSTANCE ConfigData WITH cams <- CamsOf(text), sections <- SectionsOf(text)
EditsAsData == [Data!Next]_<<CamsOf(text), SectionsOf(text)>>
EditsData == Data!Init /\ [][EditsAsData]_text

(* No edit makes a file the loader would refuse: a block without a name,   *)
(* two of one name, a section twice.                                       *)
StillLoads == Loads(text)
=============================================================================
