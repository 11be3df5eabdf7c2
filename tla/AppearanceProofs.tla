-------------------------- MODULE AppearanceProofs --------------------------
(***************************************************************************)
(* The saves of Appearance, for any handlers, visitors, image types and    *)
(* bounds, with failing calls and restarts at every point.                 *)
(*                                                                         *)
(* The properties speak of requests that run alone.  Such a request owns   *)
(* its temporary file from the moment it creates it, so that what it wrote *)
(* is what it renames (Lone); and as long as no request has overlapped     *)
(* another, the settings it works on are those of the file, or the         *)
(* defaults when the file could not be read, changed in what it names      *)
(* (RecordInv).                                                            *)
(***************************************************************************)
EXTENDS Appearance, TLAPS

-----------------------------------------------------------------------------
(* The inductive invariant *)

\* appearance.json and its temporary file never hold an image.
JsonInv ==
  file[Json] \in Saved \cup {Absent, Torn} /\ tmp[Json] \in Saved \cup {Absent, Torn}

\* Only an upload has an image to write, before its settings, and its close comes
\* after the writes.
NameOK(f) ==
  /\ f.op = "upload" /\ f.pc \in {"reload", "change"} => f.name # Json
  /\ f.name # Json => f.op = "upload"
  /\ f.pc = "cache" => f.name = Json
  /\ f.pc = "idle" => f.fd = "none"
  /\ f.name # Json /\ f.pc \in {"reload", "change", "create", "write"} => ~f.cut

NameInv == \A h \in Handler : NameOK(proc[h])

\* The image an upload leaves.
Arrived(f) == IF f.cut THEN Torn ELSE Whole

\* What a request that has been alone since it began can rely on: the temporary
\* file is its own, and an upload's image is there.
Owns(f) ==
  /\ IF f.pc = "write" THEN f.fd = "tmp" /\ f.sole ELSE f.fd = "none"
  /\ f.pc = "rename" => tmp[f.name] = IF f.name = Json THEN Normalize(f.a) ELSE Arrived(f)
  /\ f.pc = "cache" => file[Json] = Normalize(f.a)
  /\ f.op = "upload" /\ f.name = Json =>
       f.a.ext \in Ext /\ f.a.enabled /\ file[f.a.ext] = Arrived(f)

Lone(h) ==
  /\ \A g \in Handler \ {h} : proc[g].pc = "idle"
  /\ Owns(proc[h])

LoneInv == \A h \in Handler : proc[h].pc # "idle" /\ proc[h].alone => Lone(h)

\* As long as requests come one at a time, each of them is alone.
SoloInv == overlaps = 0 => \A h \in Handler : proc[h].pc # "idle" => proc[h].alone

\* ... and works on the settings in the file, which the cache agrees with, unless
\* the file could not be read.
Based(a) == a = Parsed \/ (misread /\ a = Default)

Writing == {"create", "write", "rename"}

Builds(f) ==
  /\ f.pc = "change" => Based(f.a)
  /\ f.name # Json /\ f.pc \in Writing => Based(f.a) /\ f.req = Upload(f.name)
  /\ f.name = Json /\ f.pc \in Writing =>
       \/ Normalize(f.a) = Changed(f.req, Parsed)
       \/ misread /\ Normalize(f.a) = Changed(f.req, Default)

RecordInv ==
  overlaps = 0 =>
    /\ loaded /\ (\A h \in Handler : proc[h].pc # "cache") => Based(cache)
    /\ \A h \in Handler : Builds(proc[h])

TypeInv == TypeOK /\ JsonInv /\ NameInv
SaveInv == LoneInv /\ SoloInv /\ RecordInv
Inv == TypeInv /\ SaveInv

-----------------------------------------------------------------------------
(* Settings and frames *)

\* normalizeAppearance makes settings that can be saved of any, changes nothing
\* but dim, and nothing of what has been saved.
LEMMA Normalizes ==
  ASSUME NEW a \in Draft
  PROVE  /\ Normalize(a) \in Saved
         /\ Normalize(a).ext = a.ext /\ Normalize(a).enabled = a.enabled
         /\ a \in Saved => Normalize(a) = a
BY DimAssumption DEF Draft, Saved, Normalize

\* What has been saved can be worked on, and is neither missing nor torn.
LEMMA SavedFacts ==
  /\ Default \in Saved /\ Saved \subseteq Draft
  /\ Absent \notin Saved /\ Torn \notin Saved
<1>1. Saved \subseteq Draft BY DimAssumption DEF Saved, Draft
<1>2. Default \in Saved BY DimAssumption DEF Saved, Default
<1> QED BY <1>1, <1>2, ContentAssumption

\* Settings changed by a request can be worked on.
LEMMA NamedType ==
  ASSUME NEW q \in Request, NEW v \in Draft PROVE Named(q, v) \in Draft
<1>1. q.enabled = Kept \/ q.enabled \in BOOLEAN BY DEF Request
<1>2. q.dim = Kept \/ q.dim \in Int BY DimAssumption DEF Request
<1>3. q.ext = Kept \/ q.ext \in Ext \cup {NoExt} BY DEF Request
<1>4. v.enabled \in BOOLEAN /\ v.dim \in Int /\ v.ext \in Ext \cup {NoExt} BY DEF Draft
<1> QED BY <1>1, <1>2, <1>3, <1>4 DEF Named, Draft

\* What uploads and deletions name, and what their handlers do with the settings.
LEMMA Overwritten ==
  ASSUME NEW v \in Draft, NEW e \in Ext \cup {NoExt}, NEW t \in BOOLEAN
  PROVE  [v EXCEPT !.ext = e, !.enabled = t] = [enabled |-> t, dim |-> v.dim, ext |-> e]
<1> DEFINE w == [v EXCEPT !.ext = e, !.enabled = t]
<1>1. w \in Draft BY DEF Draft
<1>2. w.enabled = t /\ w.dim = v.dim /\ w.ext = e BY DEF Draft
<1> HIDE DEF w
<1>3. w = [enabled |-> w.enabled, dim |-> w.dim, ext |-> w.ext] BY <1>1 DEF Draft
<1>4. w = [enabled |-> t, dim |-> v.dim, ext |-> e] BY <1>2, <1>3
<1> QED BY <1>4 DEF w

LEMMA UploadNames ==
  ASSUME NEW e \in Ext, NEW v \in Draft
  PROVE  Upload(e) \in Request /\ Uploaded(v, e) = Named(Upload(e), v)
<1>1. Kept # TRUE /\ Kept # e BY KeptAssumption
<1>2. Uploaded(v, e) = [enabled |-> TRUE, dim |-> v.dim, ext |-> e]
  BY Overwritten DEF Uploaded
<1> DEFINE q == Upload(e)
<1>3. q.enabled = TRUE /\ q.dim = Kept /\ q.ext = e BY DEF Upload
<1> HIDE DEF q
<1>4. Named(q, v) = [enabled |-> TRUE, dim |-> v.dim, ext |-> e]
  BY <1>1, <1>3, Zenon DEF Named
<1>5. Upload(e) \in Request BY DEF Upload, Request
<1> QED BY <1>2, <1>4, <1>5 DEF q

LEMMA DeleteNames ==
  ASSUME NEW v \in Draft
  PROVE  Delete \in Request /\ [v EXCEPT !.ext = NoExt, !.enabled = FALSE] = Named(Delete, v)
<1>1. Kept # FALSE /\ Kept # NoExt BY KeptAssumption
<1>2. [v EXCEPT !.ext = NoExt, !.enabled = FALSE] = [enabled |-> FALSE, dim |-> v.dim, ext |-> NoExt]
  BY Overwritten
<1> DEFINE q == Delete
<1>3. q.enabled = FALSE /\ q.dim = Kept /\ q.ext = NoExt BY DEF Delete
<1> HIDE DEF q
<1>4. Named(q, v) = [enabled |-> FALSE, dim |-> v.dim, ext |-> NoExt]
  BY <1>1, <1>3, Zenon DEF Named
<1>5. Delete \in Request BY DEF Delete, Request
<1> QED BY <1>2, <1>4, <1>5 DEF q

\* reloadAppearance makes settings of every appearance.json.
LEMMA ParsedType == ASSUME JsonInv PROVE Parsed \in Saved
BY SavedFacts DEF JsonInv, Parsed

LEMMA IdleType == Idle \in Frame
BY SavedFacts DEF Idle, Frame, Name, Request, Nothing

\* Another request goes on as before: at most its descriptor has moved, or it has
\* got company.
Resembles(f, g) ==
  /\ g.pc = f.pc /\ g.op = f.op /\ g.a = f.a /\ g.name = f.name /\ g.req = f.req /\ g.cut = f.cut
  /\ f.fd = "none" => g.fd = "none"
  /\ g.alone => f.alone

Served == Handler \cup Visitor

\* All requests but that of h do.
Aside(h) ==
  /\ proc' \in [Served -> Frame]
  /\ \A g \in Served \ {h} : Resembles(proc[g], proc'[g])

LEMMA GotoAside ==
  ASSUME proc \in [Served -> Frame], NEW h \in Served, NEW f \in Frame, Goto(h, f)
  PROVE  Aside(h) /\ proc'[h] = f
BY DEF Goto, Aside, Resembles

LEMMA GotoMovingAside ==
  ASSUME proc \in [Served -> Frame], NEW h \in Served, NEW f \in Frame,
         NEW n, NEW moved, "none" \notin DOMAIN moved,
         \A fd \in DOMAIN moved : moved[fd] \in {"file", "gone"},
         GotoMoving(h, f, n, moved)
  PROVE  Aside(h) /\ proc'[h] = f
<1>1. DOMAIN proc = Served OBVIOUS
<1>2. proc' = [g \in Served |->
                 IF g = h THEN f
                 ELSE IF proc[g].name = n /\ proc[g].fd \in DOMAIN moved
                 THEN [proc[g] EXCEPT !.fd = moved[proc[g].fd]]
                 ELSE proc[g]]
  BY <1>1 DEF GotoMoving
<1>3. ASSUME NEW g \in Served \ {h}
      PROVE  proc'[g] \in Frame /\ Resembles(proc[g], proc'[g])
  <2>1. CASE proc'[g] = proc[g] BY <2>1 DEF Resembles
  <2>2. CASE proc[g].fd \in DOMAIN moved /\ proc'[g] = [proc[g] EXCEPT !.fd = moved[proc[g].fd]]
    <3> DEFINE fd == moved[proc[g].fd]
    <3>1. fd \in {"file", "gone"} /\ proc[g].fd # "none" /\ proc[g] \in Frame BY <2>2
    <3>2. proc'[g] = [proc[g] EXCEPT !.fd = fd] BY <2>2
    <3> HIDE DEF fd
    <3> QED BY <3>1, <3>2 DEF Frame, Resembles
  <2> QED BY <1>2, <2>1, <2>2
<1>4. proc'[h] = f BY <1>2
<1>5. proc' \in [Served -> Frame] BY <1>2, <1>3, <1>4
<1> QED BY <1>3, <1>4, <1>5 DEF Aside

-----------------------------------------------------------------------------
(* One step of a request in progress *)

FileType ==
  /\ file \in [Name -> Stored] /\ tmp \in [Name -> Stored]
  /\ JsonInv
  /\ cache \in Saved /\ loaded \in BOOLEAN /\ misread \in BOOLEAN

\* A step of h keeps the invariant if, when h is alone, it leaves h what a request
\* that is alone relies on.  When h is not alone nothing is
\* claimed of it, and of the others only one that is alone could claim something;
\* but then h would be idle.
LEMMA OneStep ==
  ASSUME Inv, NEW h \in Handler, proc[h].pc # "idle",
         Aside(h), FileType', NameOK(proc[h])', overlaps' = overlaps,
         proc'[h].pc # "idle" => proc'[h].alone = proc[h].alone,
         Lone(h) /\ proc'[h].pc # "idle" => Owns(proc[h])',
         overlaps = 0 /\ Lone(h) =>
           /\ Builds(proc[h])'
           /\ loaded' /\ proc'[h].pc # "cache" => Based(cache)'
  PROVE  Inv'
<1>0. /\ TypeOK /\ NameInv /\ LoneInv /\ SoloInv
      /\ Handler \subseteq Served /\ proc \in [Served -> Frame] /\ proc' \in [Served -> Frame]
      /\ overlaps \in Nat
  BY DEF Inv, TypeInv, SaveInv, TypeOK, Served, Aside
<1>1. \A g \in Handler \ {h} : Resembles(proc[g], proc'[g])
  BY <1>0 DEF Aside
<1>2. TypeInv'
  <2>1. TypeOK' BY <1>0 DEF TypeOK, FileType, Served
  <2>2. \A g \in Handler \ {h} : NameOK(proc'[g])
    BY <1>0, <1>1 DEF NameInv, NameOK, Resembles
  <2>3. NameOK(proc'[h]) BY DEF NameOK
  <2>4. NameInv' BY <2>2, <2>3 DEF NameInv, NameOK
  <2> QED BY <2>1, <2>4 DEF TypeInv, FileType
<1>3. LoneInv'
  <2> SUFFICES ASSUME NEW k \in Handler, proc'[k].pc # "idle", proc'[k].alone
               PROVE  Lone(k)'
    BY DEF LoneInv
  <2>1. k = h
    <3> SUFFICES ASSUME k # h PROVE FALSE
      OBVIOUS
    <3>1. proc[k].pc # "idle" /\ proc[k].alone BY <1>1 DEF Resembles
    <3> QED BY <3>1, <1>0 DEF LoneInv, Lone
  <2>2. Lone(h) BY <2>1, <1>0 DEF LoneInv
  <2>3. \A g \in Handler \ {h} : proc'[g].pc = "idle"
    BY <2>2, <1>1 DEF Lone, Resembles
  <2>4. Owns(proc[h])' BY <2>1, <2>2
  <2> QED BY <2>1, <2>3, <2>4 DEF Lone
<1>4. CASE overlaps # 0
  BY <1>2, <1>3, <1>4 DEF Inv, SaveInv, SoloInv, RecordInv
<1>5. CASE overlaps = 0
  <2>1. proc[h].alone /\ Lone(h) BY <1>0, <1>5 DEF SoloInv, LoneInv
  <2>2. \A g \in Handler \ {h} : proc'[g].pc = "idle"
    BY <2>1, <1>1 DEF Lone, Resembles
  <2>3. SoloInv' BY <2>1, <2>2 DEF SoloInv
  <2>4. \A g \in Handler \ {h} : Builds(proc[g])'
    BY <2>2 DEF Builds, Writing
  <2>5. RecordInv' BY <2>1, <2>2, <2>4, <1>5 DEF RecordInv
  <2> QED BY <1>2, <1>3, <1>5, <2>1, <2>3, <2>5 DEF Inv, SaveInv
<1> QED BY <1>4, <1>5

\* What the invariant says of a request in progress.
LEMMA Facts ==
  ASSUME Inv, NEW h \in Handler
  PROVE  /\ FileType
         /\ proc[h] \in Frame /\ proc[h].a \in Draft /\ proc[h].name \in Name
         /\ NameOK(proc[h])
         /\ Parsed \in Saved
         /\ overlaps = 0 => Builds(proc[h])
         /\ proc \in [Served -> Frame] /\ h \in Served
BY ParsedType DEF Inv, TypeInv, SaveInv, TypeOK, FileType, NameInv, RecordInv, Served, Frame

\* A step that leaves the files alone.
LEMMA FilesSame ==
  ASSUME UNCHANGED disk
  PROVE  /\ Parsed' = Parsed
         /\ JsonInv => JsonInv'
         /\ misread' = misread => \A f : (Builds(f)' <=> Builds(f)) /\ (Based(f)' <=> Based(f))
BY DEF disk, Parsed, JsonInv, Builds, Based, Changed, Named, Normalize

\* What a request that has not yet come to the cache leaves there.
LEMMA CacheSame ==
  ASSUME Inv, NEW h \in Handler, proc[h].pc # "cache", UNCHANGED memory, Parsed' = Parsed,
         misread' = misread, overlaps = 0, Lone(h), loaded'
  PROVE  Based(cache)'
BY DEF memory, Lone, Inv, SaveInv, RecordInv, Based

\* A request that goes on with its settings builds on what it did.
LEMMA BuildsSame ==
  ASSUME NEW f, NEW g, Builds(f), Parsed' = Parsed, misread => misread',
         f.pc \in Writing, g.pc \in Writing,
         g.name = f.name, g.a = f.a, g.req = f.req
  PROVE  Builds(g)'
BY DEF Builds, Based, Changed, Named, Normalize, Writing

\* reloadAppearance: the settings are those of the file, and so is the cache, or
\* both are the defaults.
LEMMA ReloadStep ==
  ASSUME Inv, NEW h \in Handler, Reload(h) \/ ReloadFails(h) PROVE Inv'
<1>1. PICK a \in {Parsed, Default} :
        /\ ReloadAs(h, a) /\ misread' \in BOOLEAN
        /\ a = Parsed \/ misread' = TRUE
  BY DEF Reload, ReloadFails, Inv, TypeInv, TypeOK
<1> DEFINE f == [proc[h] EXCEPT !.pc = "change", !.a = a]
<1>2. /\ proc[h].pc = "reload" /\ Goto(h, f)
      /\ cache' = a /\ loaded' = TRUE /\ UNCHANGED disk /\ overlaps' = overlaps
  BY <1>1, NameAssumption DEF ReloadAs
<1>3. a \in Saved /\ a \in Draft BY Facts, SavedFacts
<1>4. /\ f \in Frame /\ f.pc = "change" /\ f.a = a /\ f.op = proc[h].op /\ f.cut = proc[h].cut
      /\ f.name = proc[h].name /\ f.fd = proc[h].fd /\ f.alone = proc[h].alone
  BY <1>3, Facts DEF Frame
<1> HIDE DEF f
<1>5. Aside(h) /\ proc'[h] = f BY <1>2, <1>4, Facts, GotoAside
<1>6. FileType' BY <1>1, <1>2, <1>3, Facts, FilesSame DEF FileType, disk
<1>7. NameOK(proc[h])' BY <1>2, <1>4, <1>5, Facts DEF NameOK
<1>8. Lone(h) => Owns(proc[h])'
  BY <1>2, <1>4, <1>5, Facts DEF Lone, Owns, NameOK
<1>9. Based(a)' BY <1>1, <1>2, FilesSame DEF Based
<1>10. Builds(proc[h])' /\ Based(cache)'
  BY <1>2, <1>4, <1>5, <1>9 DEF Builds, Based, Writing
<1> QED BY <1>2, <1>4, <1>5, <1>6, <1>7, <1>8, <1>10, OneStep

\* handlePutAppearance: the settings are changed in what the request names.
LEMMA PutStep ==
  ASSUME Inv, NEW h \in Handler, PutAppearance(h) PROVE Inv'
<1>0. proc[h] \in Frame /\ proc[h].a \in Draft BY Facts
<1>1. /\ proc[h].pc = "change" /\ proc[h].op = "put"
      /\ UNCHANGED disk /\ UNCHANGED memory /\ UNCHANGED history
  BY DEF PutAppearance
<1>2. PICK q \in Puts :
        Goto(h, [proc[h] EXCEPT !.pc = "create", !.a = Named(q, proc[h].a), !.req = q])
  BY <1>0 DEF PutAppearance, Frame
<1> DEFINE a == Named(q, proc[h].a)
           f == [proc[h] EXCEPT !.pc = "create", !.a = a, !.req = q]
<1>3. q \in Request /\ a \in Draft BY <1>0, NamedType DEF Puts
<1> HIDE DEF a
<1>4. /\ f \in Frame /\ f.pc = "create" /\ f.a = a /\ f.req = q /\ f.op = "put"
      /\ f.name = proc[h].name /\ f.fd = proc[h].fd /\ f.alone = proc[h].alone
  BY <1>0, <1>1, <1>3 DEF Frame
<1>5. Goto(h, f) BY <1>2 DEF a
<1> HIDE DEF f
<1>6. Aside(h) /\ proc'[h] = f BY <1>4, <1>5, Facts, GotoAside
<1>7. FileType' BY <1>1, Facts, FilesSame DEF FileType, disk, memory, history
<1>8. f.name = Json BY <1>1, <1>4, Facts DEF NameOK
<1>9. NameOK(proc[h])' BY <1>4, <1>6, <1>8 DEF NameOK
<1>10. Lone(h) => Owns(proc[h])'
  BY <1>1, <1>4, <1>6 DEF Lone, Owns
<1>11. overlaps = 0 => Builds(proc[h])'
  <2> SUFFICES ASSUME overlaps = 0 PROVE Builds(proc[h])'
    OBVIOUS
  <2>1. Based(proc[h].a) BY <1>1, Facts DEF Builds
  <2>2. Based(proc[h].a) =>
          \/ Normalize(a) = Changed(q, Parsed)
          \/ misread /\ Normalize(a) = Changed(q, Default)
    BY DEF Based, Changed, a
  <2>3. Builds(f) BY <1>4, <1>8, <2>1, <2>2 DEF Builds
  <2> QED BY <1>1, <1>6, <2>3, FilesSame DEF history
<1>12. overlaps = 0 /\ Lone(h) /\ loaded' => Based(cache)' BY <1>1, CacheSame DEF history, disk, Parsed
<1> QED BY <1>1, <1>4, <1>6, <1>7, <1>9, <1>10, <1>11, <1>12, OneStep DEF history

\* A request that ends leaves nothing to be said of it.
LEMMA QuitStep ==
  ASSUME Inv, NEW h \in Handler, proc[h].pc # "idle", Aside(h), proc'[h] = Idle,
         overlaps' = overlaps, FileType',
         overlaps = 0 /\ Lone(h) /\ loaded' => Based(cache)'
  PROVE  Inv'
<1>1. NameOK(proc[h])' /\ Builds(proc[h])' BY DEF NameOK, Builds, Idle, Writing
<1>2. proc'[h].pc = "idle" BY DEF Idle
<1> QED BY <1>1, <1>2, OneStep

\* os.Remove touches no settings, and changes at most the file of the image.
LEMMA UnlinkFacts ==
  ASSUME Inv, NEW h \in Handler, NEW ext \in Ext \cup {NoExt}, NEW f \in Frame,
         Unlink(h, ext, f)
  PROVE  /\ Aside(h) /\ proc'[h] = f
         /\ FileType' /\ Parsed' = Parsed
         /\ UNCHANGED memory /\ UNCHANGED history
         /\ UNCHANGED file \/ (ext # NoExt /\ file' = [file EXCEPT ![ext] = Absent])
<1>1. UNCHANGED tmp /\ UNCHANGED memory /\ UNCHANGED history BY DEF Unlink
<1>2. CASE UNCHANGED file /\ Goto(h, f)
  <2>1. Aside(h) /\ proc'[h] = f BY <1>2, Facts, GotoAside
  <2>2. FileType' /\ Parsed' = Parsed
    BY <1>1, <1>2, Facts, FilesSame DEF FileType, disk, memory, history
  <2> QED BY <1>1, <1>2, <2>1, <2>2
<1>3. CASE /\ ext # NoExt
           /\ file' = [file EXCEPT ![ext] = Absent]
           /\ GotoMoving(h, f, ext, [fd \in {"file"} |-> "gone"])
  <2>1. Aside(h) /\ proc'[h] = f BY <1>3, Facts, GotoMovingAside
  <2>2. ext \in Name /\ ext # Json BY <1>3, NameAssumption DEF Name
  <2>3. file'[Json] = file[Json] BY <1>3, <2>2, Facts DEF FileType
  <2>4. file' \in [Name -> Stored]
    BY <1>3, Facts DEF FileType, Stored
  <2>5. FileType' /\ Parsed' = Parsed
    BY <1>1, <2>3, <2>4, Facts DEF FileType, JsonInv, Parsed, memory, history
  <2> QED BY <1>1, <1>3, <2>1, <2>5
<1> QED BY <1>2, <1>3 DEF Unlink

\* The first half of handleUploadBackground: the image of another type goes.
LEMMA UploadStep ==
  ASSUME Inv, NEW h \in Handler, UploadBackground(h) PROVE Inv'
<1> DEFINE q == Upload(proc[h].name)
           f == [proc[h] EXCEPT !.pc = "create", !.req = q]
           stale == IF proc[h].a.ext = proc[h].name THEN NoExt ELSE proc[h].a.ext
<1>0. proc[h] \in Frame /\ proc[h].a \in Draft /\ proc[h].name \in Name BY Facts
<1>1. proc[h].pc = "change" /\ proc[h].op = "upload" /\ Unlink(h, stale, f)
  BY DEF UploadBackground
<1>2. stale \in Ext \cup {NoExt} BY <1>0 DEF Draft
<1>3. proc[h].name # Json /\ ~proc[h].cut BY <1>1, Facts DEF NameOK
<1>4. q \in Request BY <1>0, <1>3, UploadNames DEF Name
<1> HIDE DEF q
<1>5. /\ f \in Frame /\ f.pc = "create" /\ f.a = proc[h].a /\ f.op = proc[h].op
      /\ f.name = proc[h].name /\ f.fd = proc[h].fd /\ f.alone = proc[h].alone
      /\ f.req = q /\ f.cut = proc[h].cut
  BY <1>0, <1>4 DEF Frame
<1> HIDE DEF f, stale
<1>6. /\ Aside(h) /\ proc'[h] = f /\ FileType' /\ Parsed' = Parsed
      /\ UNCHANGED memory /\ UNCHANGED history
  BY <1>1, <1>2, <1>5, UnlinkFacts
<1>7. NameOK(proc[h])' BY <1>1, <1>3, <1>5, <1>6 DEF NameOK
<1>8. Lone(h) => Owns(proc[h])' BY <1>1, <1>3, <1>5, <1>6 DEF Lone, Owns
<1>9. overlaps = 0 => Builds(proc[h])'
  <2> SUFFICES ASSUME overlaps = 0 PROVE Builds(proc[h])'
    OBVIOUS
  <2>1. Based(proc[h].a) BY <1>1, Facts DEF Builds
  <2>2. Based(proc[h].a)' BY <1>5, <1>6, <2>1 DEF Based, history
  <2>3. f.req = Upload(f.name) BY <1>5 DEF q
  <2>4. proc'[h].req = Upload(proc'[h].name) BY <1>6, <2>3
  <2>5. proc'[h].pc = "create" /\ proc'[h].name # Json BY <1>3, <1>5, <1>6
  <2> QED BY <2>2, <2>4, <2>5 DEF Builds, Upload
<1>10. overlaps = 0 /\ Lone(h) /\ loaded' => Based(cache)'
  BY <1>1, <1>6, CacheSame DEF history
<1> QED BY <1>1, <1>5, <1>6, <1>7, <1>8, <1>9, <1>10, OneStep DEF history

\* handleDeleteBackground: the image goes, and its name with it.
LEMMA DeleteStep ==
  ASSUME Inv, NEW h \in Handler, DeleteBackground(h) PROVE Inv'
<1> DEFINE a == [proc[h].a EXCEPT !.ext = NoExt, !.enabled = FALSE]
           f == [proc[h] EXCEPT !.pc = "create", !.a = a, !.req = Delete]
<1>0. proc[h] \in Frame /\ proc[h].a \in Draft BY Facts
<1>1. proc[h].pc = "change" /\ proc[h].op = "delete" BY DEF DeleteBackground
<1>2. proc[h].a.ext \in Ext \cup {NoExt} /\ a \in Draft BY <1>0 DEF Draft
<1>3. Delete \in Request /\ a = Named(Delete, proc[h].a) BY <1>0, DeleteNames
<1>4. f = [proc[h] EXCEPT !.pc = "create", !.a.ext = NoExt, !.a.enabled = FALSE, !.req = Delete]
  BY <1>0 DEF Frame, Draft
<1>5. Unlink(h, proc[h].a.ext, f) BY <1>4 DEF DeleteBackground
<1> HIDE DEF a
<1>6. /\ f \in Frame /\ f.pc = "create" /\ f.a = a /\ f.op = proc[h].op /\ f.req = Delete
      /\ f.name = proc[h].name /\ f.fd = proc[h].fd /\ f.alone = proc[h].alone
  BY <1>0, <1>2, <1>3 DEF Frame
<1> HIDE DEF f
<1>7. /\ Aside(h) /\ proc'[h] = f /\ FileType' /\ Parsed' = Parsed
      /\ UNCHANGED memory /\ UNCHANGED history
  BY <1>2, <1>5, <1>6, UnlinkFacts
<1>8. f.name = Json BY <1>1, <1>6, Facts DEF NameOK
<1>9. NameOK(proc[h])' BY <1>1, <1>6, <1>7, <1>8 DEF NameOK
<1>10. Lone(h) => Owns(proc[h])' BY <1>1, <1>6, <1>7 DEF Lone, Owns
<1>11. overlaps = 0 => Builds(proc[h])'
  <2> SUFFICES ASSUME overlaps = 0 PROVE Builds(proc[h])'
    OBVIOUS
  <2>1. Based(proc[h].a) BY <1>1, Facts DEF Builds
  <2>2. \/ Normalize(a) = Changed(Delete, Parsed)
        \/ misread /\ Normalize(a) = Changed(Delete, Default)
    BY <1>3, <2>1 DEF Based, Changed
  <2>3. Builds(f) BY <1>6, <1>8, <2>2 DEF Builds
  <2> QED BY <1>6, <1>7, <2>3, BuildsSame DEF history, Writing
<1>12. overlaps = 0 /\ Lone(h) /\ loaded' => Based(cache)'
  BY <1>1, <1>7, CacheSame DEF history
<1> QED BY <1>1, <1>6, <1>7, <1>9, <1>10, <1>11, <1>12, OneStep DEF history

\* The temporary file is created; a request that is alone is the only one that
\* has it open.
LEMMA CreateStep ==
  ASSUME Inv, NEW h \in Handler, Create(h) PROVE Inv'
<1> DEFINE n == proc[h].name
           open == {g \in Handler \ {h} : proc[g].name = n /\ proc[g].fd = "tmp"}
           f == [proc[h] EXCEPT !.pc = "write", !.fd = "tmp", !.sole = open = {}]
<1>1. /\ proc[h].pc = "create" /\ tmp' = [tmp EXCEPT ![n] = Torn]
      /\ proc' = [g \in DOMAIN proc |-> IF g = h THEN f
                                        ELSE IF g \in open THEN [proc[g] EXCEPT !.sole = FALSE]
                                        ELSE proc[g]]
      /\ file' = file /\ UNCHANGED memory /\ UNCHANGED history
  BY DEF Create
<1>2. /\ f \in Frame /\ f.pc = "write" /\ f.fd = "tmp" /\ f.sole = (open = {})
      /\ f.a = proc[h].a /\ f.op = proc[h].op /\ f.name = n /\ f.alone = proc[h].alone
      /\ f.req = proc[h].req /\ f.cut = proc[h].cut
  BY Facts DEF Frame
<1>3. Lone(h) => open = {}
  BY DEF Lone, Inv, TypeInv, NameInv, NameOK
<1>4. proc'[h] = f /\ Aside(h)
  <2> HIDE DEF f, open
  <2>1. DOMAIN proc = Served /\ proc'[h] = f BY <1>1, Facts
  <2>2. ASSUME NEW g \in Served \ {h}
        PROVE  proc'[g] \in Frame /\ Resembles(proc[g], proc'[g])
    <3>1. proc[g] \in Frame BY Facts
    <3>2. proc'[g] = proc[g] \/ proc'[g] = [proc[g] EXCEPT !.sole = FALSE]
      BY <1>1, <2>1
    <3> QED BY <3>1, <3>2 DEF Frame, Resembles
  <2>3. proc' \in [Served -> Frame] BY <1>1, <1>2, <2>1, <2>2
  <2> QED BY <2>1, <2>2, <2>3 DEF Aside
<1> HIDE DEF f, open
<1>5. FileType' BY <1>1, Facts DEF FileType, JsonInv, memory, history, Stored
<1>6. Parsed' = Parsed BY <1>1 DEF Parsed
<1>7. NameOK(proc[h])' BY <1>1, <1>2, <1>4, Facts DEF NameOK
<1>8. Lone(h) => Owns(proc[h])'
  <2> SUFFICES ASSUME Lone(h) PROVE Owns(proc[h])'
    OBVIOUS
  <2>1. f.op = "upload" /\ f.name = Json =>
          f.a.ext \in Ext /\ f.a.enabled /\ file[f.a.ext] = Arrived(f)
    BY <1>2 DEF Lone, Owns, Arrived
  <2>2. f.pc = "write" /\ f.fd = "tmp" /\ f.sole BY <1>2, <1>3
  <2> QED BY <1>1, <1>4, <2>1, <2>2 DEF Owns, Arrived
<1>9. overlaps = 0 => Builds(proc[h])'
  BY <1>1, <1>2, <1>4, <1>6, Facts, BuildsSame DEF history, Writing
<1>10. overlaps = 0 /\ Lone(h) /\ loaded' => Based(cache)'
  BY <1>1, <1>6, CacheSame DEF history
<1> QED BY <1>1, <1>2, <1>4, <1>5, <1>7, <1>8, <1>9, <1>10, OneStep DEF history

\* It cannot be created.
LEMMA CreateFailsStep ==
  ASSUME Inv, NEW h \in Handler, CreateFails(h) PROVE Inv'
<1>1. /\ proc[h].pc = "create" /\ Goto(h, Idle)
      /\ UNCHANGED disk /\ UNCHANGED memory /\ UNCHANGED history
  BY DEF CreateFails
<1>2. Aside(h) /\ proc'[h] = Idle BY <1>1, Facts, IdleType, GotoAside
<1>3. FileType' BY <1>1, Facts, FilesSame DEF FileType, disk, memory, history
<1>4. overlaps = 0 /\ Lone(h) /\ loaded' => Based(cache)'
  BY <1>1, FilesSame, CacheSame DEF history
<1> QED BY <1>1, <1>2, <1>3, <1>4, QuitStep DEF history

\* What a request writes has the type of its file, and as long as it is alone it
\* goes to its temporary file.
LEMMA WriteFacts ==
  ASSUME Inv, NEW h \in Handler, proc[h].pc = "write", UNCHANGED memory, misread' = misread,
         NEW c \in Saved \cup {Torn, Whole}, proc[h].name = Json => c \in Saved \cup {Torn},
         WriteTo(proc[h], c)
  PROVE  FileType' /\ (Lone(h) => file' = file /\ tmp'[proc[h].name] = c)
<1> DEFINE n == proc[h].name
<1>1. FileType /\ n \in Name BY Facts
<1>2. tmp' = (IF proc[h].fd = "tmp" THEN [tmp EXCEPT ![n] = c] ELSE tmp) BY DEF WriteTo
<1>3. file' = (IF proc[h].fd = "file" THEN [file EXCEPT ![n] = c] ELSE file) BY DEF WriteTo
<1>4. /\ tmp' \in [Name -> Stored]
      /\ file' \in [Name -> Stored]
  BY <1>1, <1>2, <1>3 DEF FileType, Stored
<1>5. JsonInv' BY <1>1, <1>2, <1>3 DEF FileType, JsonInv
<1>6. Lone(h) => file' = file /\ tmp'[n] = c
  BY <1>1, <1>2, <1>3 DEF Lone, Owns, FileType
<1> QED BY <1>1, <1>4, <1>5, <1>6 DEF FileType, memory

LEMMA ContentType ==
  ASSUME NEW f \in Frame
  PROVE  IF f.name = Json THEN Content(f) \in Saved ELSE Content(f) = Whole
BY Normalizes DEF Content, Frame

\* Something has been written: the temporary file of a request that is alone has
\* what it will rename.
LEMMA WrittenStep ==
  ASSUME Inv, NEW h \in Handler, proc[h].pc = "write",
         UNCHANGED memory, UNCHANGED history,
         NEW c \in Saved \cup {Torn, Whole}, proc[h].name = Json => c \in Saved \cup {Torn},
         WriteTo(proc[h], c),
         NEW f \in Frame, Goto(h, f), f.pc = "rename", f.fd = "none",
         f.a = proc[h].a, f.op = proc[h].op, f.name = proc[h].name, f.alone = proc[h].alone,
         f.req = proc[h].req, f.name = Json => f.cut = proc[h].cut,
         proc[h].sole => c = IF f.name = Json THEN Normalize(f.a) ELSE Arrived(f)
  PROVE  Inv'
<1>1. FileType' /\ (Lone(h) => file' = file /\ tmp'[proc[h].name] = c)
  BY WriteFacts DEF history
<1>2. Aside(h) /\ proc'[h] = f BY Facts, GotoAside
<1>3. NameOK(proc[h])' BY <1>2, Facts DEF NameOK
<1>4. Lone(h) => Owns(proc[h])'
  <2> SUFFICES ASSUME Lone(h) PROVE Owns(proc[h])'
    OBVIOUS
  <2>1. proc[h].sole BY DEF Lone, Owns
  <2>2. tmp'[f.name] = IF f.name = Json THEN Normalize(f.a) ELSE Arrived(f) BY <1>1, <2>1
  <2>3. f.op = "upload" /\ f.name = Json =>
          f.a.ext \in Ext /\ f.a.enabled /\ file'[f.a.ext] = Arrived(f)
    BY <1>1 DEF Lone, Owns, Arrived
  <2> QED BY <1>2, <2>2, <2>3 DEF Owns, Arrived, Normalize
<1>5. Lone(h) => Parsed' = Parsed BY <1>1 DEF Parsed
<1>6. overlaps = 0 /\ Lone(h) => Builds(proc[h])'
  BY <1>2, <1>5, Facts, BuildsSame DEF history, Writing
<1>7. overlaps = 0 /\ Lone(h) /\ loaded' => Based(cache)'
  BY <1>5, CacheSame DEF history
<1> QED BY <1>1, <1>2, <1>3, <1>4, <1>6, <1>7, OneStep DEF history

LEMMA WriteStep ==
  ASSUME Inv, NEW h \in Handler, Write(h) PROVE Inv'
<1> DEFINE f == [proc[h] EXCEPT !.pc = "rename", !.fd = "none", !.sole = FALSE]
<1>1. /\ proc[h].pc = "write" /\ Goto(h, f) /\ UNCHANGED memory /\ UNCHANGED history
  BY DEF Write
<1>2. PICK c \in IF proc[h].sole THEN {Content(proc[h])} ELSE {Content(proc[h]), Torn} :
        WriteTo(proc[h], c)
  BY DEF Write
<1>3. /\ f \in Frame /\ f.pc = "rename" /\ f.fd = "none" /\ f.a = proc[h].a
      /\ f.op = proc[h].op /\ f.name = proc[h].name /\ f.alone = proc[h].alone
      /\ f.req = proc[h].req /\ f.cut = proc[h].cut
  BY Facts DEF Frame
<1> HIDE DEF f
<1>4. /\ c \in Saved \cup {Torn, Whole}
      /\ proc[h].name = Json => c \in Saved \cup {Torn}
  BY <1>2, Facts, ContentType
<1>5. proc[h].name # Json => ~proc[h].cut BY <1>1, Facts DEF NameOK
<1>6. Content(proc[h]) = IF f.name = Json THEN Normalize(f.a) ELSE Arrived(f)
  BY <1>3, <1>5 DEF Content, Arrived
<1>7. proc[h].sole => c = Content(proc[h]) BY <1>2
<1> QED BY <1>1, <1>2, <1>3, <1>4, <1>6, <1>7, WrittenStep

LEMMA CloseFailsStep ==
  ASSUME Inv, NEW h \in Handler, CloseFails(h) PROVE Inv'
<1> DEFINE f == [proc[h] EXCEPT !.pc = "rename", !.fd = "none", !.sole = FALSE, !.cut = TRUE]
<1>1. /\ proc[h].pc = "write" /\ proc[h].name # Json /\ WriteTo(proc[h], Torn)
      /\ Goto(h, f) /\ UNCHANGED memory /\ UNCHANGED history
  BY DEF CloseFails
<1>2. /\ f \in Frame /\ f.pc = "rename" /\ f.fd = "none" /\ f.a = proc[h].a
      /\ f.op = proc[h].op /\ f.name = proc[h].name /\ f.alone = proc[h].alone
      /\ f.req = proc[h].req /\ f.cut
  BY Facts DEF Frame
<1> HIDE DEF f
<1>3. Torn = IF f.name = Json THEN Normalize(f.a) ELSE Arrived(f) BY <1>1, <1>2 DEF Arrived
<1> QED BY <1>1, <1>2, <1>3, WrittenStep

\* After an error the request ends, or goes on to remove its temporary file.
LEMMA GiveUpStep ==
  ASSUME Inv, NEW h \in Handler, proc[h].pc \in {"write", "rename"}, GiveUp(h),
         FileType', UNCHANGED memory, UNCHANGED history, Lone(h) => file' = file
  PROVE  Inv'
<1>1. Lone(h) => Parsed' = Parsed BY DEF Parsed
<1>3. overlaps = 0 /\ Lone(h) /\ loaded' => Based(cache)' BY <1>1, CacheSame DEF history
<1>4. CASE proc[h].name = Json
  <2>1. Goto(h, Idle) BY <1>4 DEF GiveUp
  <2>2. Aside(h) /\ proc'[h] = Idle BY <2>1, Facts, IdleType, GotoAside
  <2> QED BY <1>3, <2>2, QuitStep DEF history
<1>5. CASE proc[h].name # Json
  <2> DEFINE f == [Idle EXCEPT !.pc = "remove", !.op = proc[h].op, !.name = proc[h].name,
                               !.alone = proc[h].alone]
  <2>1. Goto(h, f) BY <1>5 DEF GiveUp
  <2>2. /\ f \in Frame /\ f.pc = "remove" /\ f.fd = "none"
        /\ f.op = proc[h].op /\ f.name = proc[h].name /\ f.alone = proc[h].alone
    BY Facts, IdleType DEF Frame, Idle
  <2> HIDE DEF f
  <2>3. Aside(h) /\ proc'[h] = f BY <2>1, <2>2, Facts, GotoAside
  <2>4. NameOK(proc[h])' BY <2>2, <2>3, Facts DEF NameOK
  <2>5. Owns(proc[h])' BY <1>5, <2>2, <2>3 DEF Owns
  <2>6. Builds(proc[h])' BY <2>2, <2>3 DEF Builds, Writing
  <2> QED BY <1>3, <2>2, <2>3, <2>4, <2>5, <2>6, OneStep DEF history
<1> QED BY <1>4, <1>5

LEMMA WriteFailsStep ==
  ASSUME Inv, NEW h \in Handler, WriteFails(h) PROVE Inv'
<1>1. /\ proc[h].pc = "write" /\ WriteTo(proc[h], Torn) /\ GiveUp(h)
      /\ UNCHANGED memory /\ UNCHANGED history
  BY DEF WriteFails
<1>2. FileType' /\ (Lone(h) => file' = file) BY <1>1, WriteFacts DEF history
<1> QED BY <1>1, <1>2, GiveUpStep

LEMMA RenameFailsStep ==
  ASSUME Inv, NEW h \in Handler, RenameFails(h) PROVE Inv'
<1>1. /\ proc[h].pc = "rename" /\ GiveUp(h) /\ UNCHANGED disk
      /\ UNCHANGED memory /\ UNCHANGED history
  BY DEF RenameFails
<1>2. FileType' /\ file' = file BY <1>1, Facts, FilesSame DEF FileType, disk, memory, history
<1> QED BY <1>1, <1>2, GiveUpStep

LEMMA RemoveTmpStep ==
  ASSUME Inv, NEW h \in Handler, RemoveTmp(h) PROVE Inv'
<1> DEFINE n == proc[h].name
<1>1. /\ proc[h].pc = "remove" /\ tmp' = [tmp EXCEPT ![n] = Absent]
      /\ GotoMoving(h, Idle, n, [fd \in {"tmp"} |-> "gone"])
      /\ file' = file /\ UNCHANGED memory /\ UNCHANGED history
  BY DEF RemoveTmp
<1>2. Aside(h) /\ proc'[h] = Idle BY <1>1, Facts, IdleType, GotoMovingAside
<1>3. FileType' BY <1>1, Facts DEF FileType, JsonInv, memory, history, Stored
<1>4. Parsed' = Parsed BY <1>1 DEF Parsed
<1>5. overlaps = 0 /\ Lone(h) /\ loaded' => Based(cache)' BY <1>1, <1>4, CacheSame DEF history
<1> QED BY <1>1, <1>2, <1>3, <1>5, QuitStep DEF history

\* The settings take the place of appearance.json.
LEMMA RenameJsonStep ==
  ASSUME Inv, NEW h \in Handler, Rename(h), proc[h].name = Json PROVE Inv'
<1> DEFINE f == [proc[h] EXCEPT !.pc = "cache"]
           moved == [fd \in {"tmp", "file"} |-> IF fd = "tmp" THEN "file" ELSE "gone"]
<1>1. /\ proc[h].pc = "rename" /\ UNCHANGED memory /\ overlaps' = overlaps
      /\ misread' \in BOOLEAN
      /\ file' = [file EXCEPT ![Json] = tmp[Json]] /\ tmp' = [tmp EXCEPT ![Json] = Absent]
      /\ GotoMoving(h, f, Json, moved)
  BY DEF Rename
<1>2. /\ f \in Frame /\ f.pc = "cache" /\ f.fd = proc[h].fd /\ f.a = proc[h].a
      /\ f.op = proc[h].op /\ f.name = Json /\ f.alone = proc[h].alone /\ f.cut = proc[h].cut
  BY Facts DEF Frame
<1> HIDE DEF f
<1>3. "none" \notin DOMAIN moved /\ \A fd \in DOMAIN moved : moved[fd] \in {"file", "gone"}
  OBVIOUS
<1> HIDE DEF moved
<1>4. Aside(h) /\ proc'[h] = f BY <1>1, <1>2, <1>3, Facts, GotoMovingAside
<1>5. FileType' BY <1>1, Facts DEF FileType, JsonInv, memory, Stored
<1>6. NameOK(proc[h])' BY <1>1, <1>2, <1>4, Facts DEF NameOK
<1>7. Json \in Name /\ Ext \subseteq Name /\ Json \notin Ext BY NameAssumption DEF Name
<1>8. Lone(h) => file'[Json] = Normalize(f.a)
  BY <1>1, <1>2, <1>7, Facts DEF Lone, Owns, FileType
<1>9. Lone(h) => Owns(proc[h])'
  <2> SUFFICES ASSUME Lone(h) PROVE Owns(proc[h])'
    OBVIOUS
  <2>1. f.fd = "none" BY <1>1, <1>2 DEF Lone, Owns
  <2>2. f.op = "upload" => f.a.ext \in Ext /\ f.a.enabled /\ file[f.a.ext] = Arrived(f)
    BY <1>2 DEF Lone, Owns, Arrived
  <2>3. f.op = "upload" => file'[f.a.ext] = Arrived(f)
    BY <1>1, <1>7, <2>2, Facts DEF FileType
  <2> QED BY <1>2, <1>4, <1>8, <2>1, <2>2, <2>3 DEF Owns, Arrived, Normalize
<1>10. Builds(proc[h])' BY <1>2, <1>4 DEF Builds, Writing
<1> QED BY <1>1, <1>2, <1>4, <1>5, <1>6, <1>9, <1>10, OneStep

\* The image takes its place, and the upload goes on with its settings.
LEMMA RenameImageStep ==
  ASSUME Inv, NEW h \in Handler, Rename(h), proc[h].name # Json PROVE Inv'
<1> DEFINE n == proc[h].name
           a == Uploaded(proc[h].a, n)
           f == [proc[h] EXCEPT !.pc = "create", !.name = Json, !.a = a]
           moved == [fd \in {"tmp", "file"} |-> IF fd = "tmp" THEN "file" ELSE "gone"]
<1>1. /\ proc[h].pc = "rename" /\ UNCHANGED memory /\ overlaps' = overlaps
      /\ misread' = misread
      /\ file' = [file EXCEPT ![n] = tmp[n]] /\ tmp' = [tmp EXCEPT ![n] = Absent]
      /\ GotoMoving(h, f, n, moved)
  BY DEF Rename, Inv, TypeInv, TypeOK
<1>0. /\ proc[h] \in Frame /\ proc[h].a \in Draft /\ n \in Name /\ n # Json
      /\ n \in Ext /\ Json \in Name /\ proc[h].op = "upload"
  BY Facts DEF Name, NameOK
<1>2. a \in Draft /\ a.ext = n /\ a.enabled BY <1>0 DEF Draft, Uploaded
<1> HIDE DEF a
<1>3. /\ f \in Frame /\ f.pc = "create" /\ f.fd = proc[h].fd /\ f.a = a
      /\ f.op = "upload" /\ f.name = Json /\ f.alone = proc[h].alone
      /\ f.req = proc[h].req /\ f.cut = proc[h].cut
  BY <1>0, <1>2 DEF Frame
<1> HIDE DEF f
<1>4. "none" \notin DOMAIN moved /\ \A fd \in DOMAIN moved : moved[fd] \in {"file", "gone"}
  OBVIOUS
<1> HIDE DEF moved
<1>5. Aside(h) /\ proc'[h] = f BY <1>1, <1>3, <1>4, Facts, GotoMovingAside
<1>6. FileType' BY <1>0, <1>1, Facts DEF FileType, JsonInv, memory, Stored
<1>7. NameOK(proc[h])' BY <1>3, <1>5 DEF NameOK
<1>8. Parsed' = Parsed BY <1>0, <1>1, Facts DEF Parsed, FileType
<1>9. Lone(h) => file'[n] = Arrived(f)
  BY <1>0, <1>1, <1>3, Facts DEF Lone, Owns, FileType, Arrived
<1>10. Lone(h) => Owns(proc[h])'
  <2> SUFFICES ASSUME Lone(h) PROVE Owns(proc[h])'
    OBVIOUS
  <2>1. f.fd = "none" BY <1>1, <1>3 DEF Lone, Owns
  <2> QED BY <1>0, <1>2, <1>3, <1>5, <1>9, <2>1 DEF Owns, Arrived
<1>11. overlaps = 0 => Builds(proc[h])'
  <2> SUFFICES ASSUME overlaps = 0 PROVE Builds(proc[h])'
    OBVIOUS
  <2>1. Based(proc[h].a) /\ proc[h].req = Upload(n)
    BY <1>0, <1>1, Facts DEF Builds, Writing
  <2>2. a = Named(Upload(n), proc[h].a) BY <1>0, UploadNames DEF a
  <2>3. \/ Normalize(a) = Changed(f.req, Parsed)
        \/ misread /\ Normalize(a) = Changed(f.req, Default)
    BY <1>3, <2>1, <2>2 DEF Based, Changed
  <2>4. Builds(f) BY <1>3, <2>3 DEF Builds
  <2> QED BY <1>1, <1>3, <1>5, <1>8, <2>4, BuildsSame DEF Writing
<1>12. overlaps = 0 /\ Lone(h) /\ loaded' => Based(cache)' BY <1>1, <1>8, CacheSame
<1> QED BY <1>1, <1>3, <1>5, <1>6, <1>7, <1>10, <1>11, <1>12, OneStep

\* The end of saveAppearance.
LEMMA StoreCacheStep ==
  ASSUME Inv, NEW h \in Handler, StoreCache(h) PROVE Inv'
<1>1. /\ proc[h].pc = "cache" /\ Goto(h, Idle) /\ UNCHANGED disk /\ UNCHANGED history
      /\ cache' = Normalize(proc[h].a) /\ loaded' = TRUE
  BY DEF StoreCache
<1>2. Aside(h) /\ proc'[h] = Idle BY <1>1, Facts, IdleType, GotoAside
<1>3. Normalize(proc[h].a) \in Saved BY Facts, Normalizes
<1>4. FileType' BY <1>1, <1>3, Facts, FilesSame DEF FileType, disk, history
<1>6. Lone(h) => Based(cache)'
  <2> SUFFICES ASSUME Lone(h) PROVE Based(cache)'
    OBVIOUS
  <2>1. file[Json] = Normalize(proc[h].a) BY <1>1 DEF Lone, Owns
  <2>2. Parsed = file[Json] BY <1>3, <2>1, SavedFacts DEF Parsed
  <2> QED BY <1>1, <2>1, <2>2, FilesSame DEF Based
<1> QED BY <1>1, <1>2, <1>4, <1>6, QuitStep DEF history

-----------------------------------------------------------------------------
(* The other steps *)

\* A request begins.  When no other is at work it is alone, and the cache, if it
\* is loaded, holds the settings of the file; else none is alone any more.
LEMMA LoadStep ==
  ASSUME Inv, NEW h \in Handler, NEW op \in {"put", "upload", "delete"}, NEW name \in Name,
         op = "upload" <=> name # Json, Load(h, op, name)
  PROVE  Inv'
<1> DEFINE pc == IF loaded THEN "change" ELSE "reload"
           a == IF loaded THEN cache ELSE Default
           f == [Idle EXCEPT !.op = op, !.name = name, !.pc = pc, !.a = a,
                             !.alone = Busy = {}]
<1>1. /\ proc[h].pc = "idle" /\ UNCHANGED disk /\ UNCHANGED memory
      /\ proc' = [g \in DOMAIN proc |-> IF g = h THEN f ELSE [proc[g] EXCEPT !.alone = FALSE]]
      /\ overlaps' = overlaps + (IF Busy = {} THEN 0 ELSE 1) /\ misread' = misread
  BY DEF Load, Begin, Idle
<1>2. pc \in {"change", "reload"} /\ (pc = "change" => loaded /\ a = cache) /\ a \in Draft
  BY Facts, SavedFacts DEF FileType
<1> HIDE DEF pc, a
<1>3. /\ f \in Frame /\ f.pc = pc /\ f.a = a /\ f.op = op /\ f.name = name
      /\ f.fd = "none" /\ ~f.cut /\ f.alone = (Busy = {})
  BY <1>2, IdleType DEF Frame, Idle
<1> HIDE DEF f
<1>4. /\ FileType /\ proc \in [Served -> Frame] /\ Handler \subseteq Served
      /\ overlaps \in Nat
  BY Facts DEF Served, Inv, TypeInv, TypeOK
<1>5. proc'[h] = f BY <1>1, <1>4
<1>6. ASSUME NEW g \in Served \ {h}
      PROVE  /\ proc'[g] \in Frame /\ Resembles(proc[g], proc'[g])
             /\ proc'[g].fd = proc[g].fd /\ proc'[g].alone = FALSE
  <2>1. proc'[g] = [proc[g] EXCEPT !.alone = FALSE] /\ proc[g] \in Frame BY <1>1, <1>4
  <2> QED BY <2>1 DEF Frame, Resembles
<1>7. proc' \in [Served -> Frame] BY <1>1, <1>3, <1>4, <1>5, <1>6
<1>8. TypeInv'
  <2>1. FileType' BY <1>1, <1>4, FilesSame DEF FileType, disk, memory
  <2>2. overlaps' \in Nat BY <1>1, <1>4
  <2>3. NameOK(f) BY <1>2, <1>3 DEF NameOK
  <2>4. \A g \in Handler \ {h} : NameOK(proc[g]) BY DEF Inv, TypeInv, NameInv
  <2>5. ASSUME NEW g \in Handler \ {h} PROVE NameOK(proc'[g])
    <3>1. Resembles(proc[g], proc'[g]) /\ proc'[g].fd = proc[g].fd BY <1>4, <1>6
    <3> QED BY <2>4, <3>1 DEF NameOK, Resembles
  <2>6. NameInv' BY <1>5, <2>3, <2>5 DEF NameInv, NameOK
  <2> QED BY <1>7, <2>1, <2>2, <2>6 DEF TypeInv, TypeOK, FileType, Served
<1>9. CASE Busy # {}
  <2>1. overlaps' # 0 BY <1>1, <1>4, <1>9
  <2>2. \A g \in Handler : proc'[g].alone = FALSE BY <1>3, <1>4, <1>5, <1>6, <1>9
  <2>3. LoneInv' BY <2>2 DEF LoneInv
  <2> QED BY <1>8, <2>1, <2>3 DEF Inv, SaveInv, SoloInv, RecordInv
<1>10. CASE Busy = {}
  <2>1. overlaps' = overlaps BY <1>1, <1>4, <1>10
  <2>2. \A g \in Handler \ {h} : proc'[g].pc = "idle"
    BY <1>4, <1>6, <1>10 DEF Busy, Resembles
  <2>3. proc'[h].alone BY <1>3, <1>5, <1>10
  <2>4. Owns(proc[h])' BY <1>2, <1>3, <1>5 DEF Owns
  <2>5. LoneInv' BY <2>2, <2>4 DEF LoneInv, Lone
  <2>6. SoloInv' BY <2>2, <2>3 DEF SoloInv
  <2>8. RecordInv'
    <3> SUFFICES ASSUME overlaps = 0
                 PROVE  /\ loaded' => Based(cache)'
                        /\ \A g \in Handler : Builds(proc[g])'
      BY <2>1 DEF RecordInv
    <3>1. \A g \in Handler : proc[g].pc # "cache" BY <1>10 DEF Busy
    <3>2. loaded => Based(cache) BY <3>1 DEF Inv, SaveInv, RecordInv
    <3>3. loaded' => Based(cache)' BY <1>1, <3>2, FilesSame DEF memory, Based
    <3>4. Builds(f) BY <1>2, <1>3, <3>2 DEF Builds, Writing
    <3>5. Builds(proc[h])' BY <1>1, <1>5, <3>4, FilesSame DEF Builds
    <3>6. \A g \in Handler \ {h} : Builds(proc[g])' BY <2>2 DEF Builds, Writing
    <3> QED BY <3>3, <3>5, <3>6
  <2> QED BY <1>8, <2>5, <2>6, <2>8 DEF Inv, SaveInv
<1> QED BY <1>9, <1>10

\* A step that leaves the handlers and the files alone, and at most loads the
\* cache.
LEMMA VisitStep ==
  ASSUME Inv, proc' \in [Served -> Frame], \A h \in Handler : proc'[h] = proc[h],
         UNCHANGED disk, overlaps' = overlaps,
         \/ UNCHANGED memory /\ misread' = misread
         \/ cache' = Parsed /\ loaded' = TRUE /\ misread' = misread
         \/ cache' = Default /\ loaded' = TRUE /\ misread' = TRUE
  PROVE  Inv'
<1>1. TypeOK /\ JsonInv /\ NameInv /\ Parsed \in Saved /\ Default \in Saved
  BY ParsedType, SavedFacts DEF Inv, TypeInv
<1>2. TypeInv' BY <1>1 DEF TypeInv, TypeOK, JsonInv, NameInv, NameOK, Served, disk, memory
<1>3. LoneInv'
  <2>1. LoneInv BY DEF Inv, SaveInv
  <2> QED BY <2>1 DEF LoneInv, Lone, Owns, Arrived, Normalize, disk
<1>4. SoloInv' BY DEF Inv, SaveInv, SoloInv
<1>5. RecordInv'
  <2> SUFFICES ASSUME overlaps = 0 PROVE RecordInv'
    BY DEF RecordInv
  <2>1. RecordInv BY DEF Inv, SaveInv
  <2>2. Parsed' = Parsed /\ (misread => misread') BY FilesSame
  <2>3. (\A h \in Handler : proc'[h].pc # "cache") /\ loaded' => Based(cache)'
    BY <2>1, <2>2 DEF RecordInv, memory, Based
  <2>4. ASSUME NEW h \in Handler PROVE Builds(proc[h])'
    <3>1. Builds(proc[h]) BY <2>1 DEF RecordInv
    <3>2. CASE proc[h].pc \in Writing BY <2>2, <3>1, <3>2, BuildsSame
    <3>3. CASE proc[h].pc \notin Writing BY <2>2, <3>1, <3>3 DEF Builds, Based, Writing
    <3> QED BY <3>2, <3>3
  <2> QED BY <2>3, <2>4 DEF RecordInv
<1> QED BY <1>2, <1>3, <1>4, <1>5 DEF Inv, SaveInv

\* The requests end with the process, and so does the cache.
LEMMA RestartStep == ASSUME Inv, Restart PROVE Inv'
<1>1. proc' = [g \in Served |-> Idle] BY DEF Restart, Inv, TypeInv, TypeOK, Served
<1>2. \A h \in Handler : proc'[h] = Idle BY <1>1 DEF Served
<1>3. TypeInv'
  <2>1. TypeOK'
    BY <1>1, IdleType, SavedFacts DEF Restart, Inv, TypeInv, TypeOK, Served, disk
  <2>2. JsonInv' BY DEF Restart, Inv, TypeInv, JsonInv, disk
  <2>3. NameOK(Idle) BY DEF NameOK, Idle
  <2>4. NameInv' BY <1>2, <2>3 DEF NameInv, NameOK
  <2> QED BY <2>1, <2>2, <2>4 DEF TypeInv
<1>4. LoneInv' /\ SoloInv' BY <1>2 DEF LoneInv, SoloInv, Idle
<1>6. RecordInv'
  <2>1. loaded' = FALSE BY DEF Restart
  <2>2. \A h \in Handler : Builds(proc[h])' BY <1>2 DEF Builds, Idle, Writing
  <2> QED BY <2>1, <2>2 DEF RecordInv
<1> QED BY <1>3, <1>4, <1>6 DEF Inv, SaveInv

LEMMA InitInv == Init => Inv
<1> SUFFICES ASSUME Init PROVE Inv
  OBVIOUS
<1>1. \A h \in Handler : proc[h] = Idle BY DEF Init
<1>2. TypeInv
  BY <1>1, IdleType, SavedFacts
  DEF Init, TypeInv, TypeOK, JsonInv, NameInv, NameOK, Idle, Name, Stored
<1>3. LoneInv /\ SoloInv BY <1>1 DEF LoneInv, SoloInv, Idle
<1>5. RecordInv BY <1>1 DEF Init, RecordInv, Builds, Idle, Writing
<1> QED BY <1>2, <1>3, <1>5 DEF Inv, SaveInv

LEMMA InvStep == Inv /\ [Next]_vars => Inv'
<1> SUFFICES ASSUME Inv, [Next]_vars PROVE Inv'
  OBVIOUS
<1>0. proc \in [Served -> Frame] /\ Handler \subseteq Served /\ Visitor \subseteq Served
  BY DEF Inv, TypeInv, TypeOK, Served
<1>1. CASE UNCHANGED vars
  BY <1>0, <1>1, VisitStep DEF vars, disk, memory, history
<1>2. CASE Restart BY <1>2, RestartStep
<1>3. CASE \E v \in Visitor : View(v) \/ Reload(v) \/ ReloadFails(v)
  <2>1. PICK v \in Visitor : View(v) \/ Reload(v) \/ ReloadFails(v) BY <1>3
  <2>2. \A h \in Handler : h # v BY NameAssumption
  <2> DEFINE f == [Idle EXCEPT !.pc = "reload"]
  <2>3. f \in Frame BY IdleType DEF Frame, Idle
  <2>4. Goto(v, f) \/ Goto(v, Idle) BY <2>1 DEF View, Reload, ReloadFails, ReloadAs
  <2> HIDE DEF f
  <2>5. proc' \in [Served -> Frame] /\ \A h \in Handler : proc'[h] = proc[h]
    BY <1>0, <2>2, <2>3, <2>4, IdleType DEF Goto
  <2>6. /\ UNCHANGED disk /\ overlaps' = overlaps
        /\ \/ UNCHANGED memory /\ misread' = misread
           \/ cache' = Parsed /\ loaded' = TRUE /\ misread' = misread
           \/ cache' = Default /\ loaded' = TRUE /\ misread' = TRUE
    BY <2>1 DEF View, Reload, ReloadFails, ReloadAs, history
  <2> QED BY <2>5, <2>6, VisitStep
<1>4. ASSUME NEW h \in Handler, Handle(h) PROVE Inv'
  <2>1. CASE Load(h, "put", Json) BY <2>1, LoadStep DEF Name
  <2>2. CASE Load(h, "delete", Json) BY <2>2, LoadStep DEF Name
  <2>3. CASE \E e \in Ext : Load(h, "upload", e)
    <3>1. PICK e \in Ext : Load(h, "upload", e) BY <2>3
    <3>2. e \in Name /\ e # Json BY NameAssumption DEF Name
    <3> QED BY <3>1, <3>2, LoadStep
  <2>4. CASE Reload(h) \/ ReloadFails(h) BY <2>4, ReloadStep
  <2>5. CASE PutAppearance(h) BY <2>5, PutStep
  <2>6. CASE UploadBackground(h) BY <2>6, UploadStep
  <2>7. CASE DeleteBackground(h) BY <2>7, DeleteStep
  <2>8. CASE Create(h) BY <2>8, CreateStep
  <2>9. CASE CreateFails(h) BY <2>9, CreateFailsStep
  <2>10. CASE Write(h) BY <2>10, WriteStep
  <2>11. CASE WriteFails(h) BY <2>11, WriteFailsStep
  <2>12. CASE RemoveTmp(h) BY <2>12, RemoveTmpStep
  <2>13. CASE Rename(h) BY <2>13, RenameJsonStep, RenameImageStep
  <2>14. CASE RenameFails(h) BY <2>14, RenameFailsStep
  <2>15. CASE StoreCache(h) BY <2>15, StoreCacheStep
  <2>16. CASE CloseFails(h) BY <2>16, CloseFailsStep
  <2> QED
    BY <1>4, <2>1, <2>2, <2>3, <2>4, <2>5, <2>6, <2>7, <2>8, <2>9, <2>10, <2>11, <2>12, <2>13,
       <2>14, <2>15, <2>16 DEF Handle
<1> QED BY <1>1, <1>2, <1>3, <1>4 DEF Next

LEMMA Always == Spec => []Inv
<1> QED BY InitInv, InvStep, PTL DEF Spec

-----------------------------------------------------------------------------
(* The theorems *)

\* The state of the appearance has its type, whatever overlaps, fails or restarts.
THEOREM AppearanceTyped == Spec => []TypeOK
<1>1. Inv => TypeOK BY DEF Inv, TypeInv
<1> QED BY <1>1, Always, PTL

\* A step of a request while none has overlapped another: it is alone.
LEMMA Solo ==
  ASSUME Inv, NEW h \in Handler, Handle(h), overlaps' = 0
  PROVE  overlaps = 0 /\ (proc[h].pc # "idle" => Lone(h))
<1>0. overlaps \in Nat BY DEF Inv, TypeInv, TypeOK
<1>1. ASSUME NEW op, NEW name, Load(h, op, name) PROVE overlaps = 0
  <2>1. overlaps' = overlaps + (IF Busy = {} THEN 0 ELSE 1) BY <1>1 DEF Load, Begin
  <2> QED BY <1>0, <2>1
<1>2. overlaps' = overlaps => overlaps = 0 OBVIOUS
<1>3. \/ \E op, name : Load(h, op, name)
      \/ overlaps' = overlaps
  BY DEF Handle, Reload, ReloadFails, ReloadAs, PutAppearance, UploadBackground,
         DeleteBackground, Unlink, Create, CreateFails, Write, CloseFails, WriteFails,
         RemoveTmp, Rename, RenameFails, StoreCache, history
<1>4. overlaps = 0 BY <1>1, <1>2, <1>3
<1> QED BY <1>4 DEF Inv, SaveInv, SoloInv, LoneInv

\* It removes an image, renames what it has written, or leaves the files alone.
LEMMA FileChange ==
  ASSUME Inv, NEW h \in Handler, Handle(h), overlaps' = 0
  PROVE  \/ file' = file
         \/ \E e \in Ext : file' = [file EXCEPT ![e] = Absent]
         \/ Rename(h)
<1>1. ASSUME NEW ext \in Ext \cup {NoExt}, NEW f, Unlink(h, ext, f)
      PROVE  file' = file \/ \E e \in Ext : file' = [file EXCEPT ![e] = Absent]
  BY <1>1 DEF Unlink
<1>2. proc[h].a.ext \in Ext \cup {NoExt} BY Facts DEF Draft
<1>3. CASE UploadBackground(h)
  <2> DEFINE stale == IF proc[h].a.ext = proc[h].name THEN NoExt ELSE proc[h].a.ext
  <2>1. stale \in Ext \cup {NoExt} BY <1>2
  <2>2. \E f : Unlink(h, stale, f) BY <1>3 DEF UploadBackground
  <2> QED BY <1>1, <2>1, <2>2
<1>4. CASE DeleteBackground(h)
  <2>1. \E f : Unlink(h, proc[h].a.ext, f) BY <1>4 DEF DeleteBackground
  <2> QED BY <1>1, <1>2, <2>1
<1>5. ASSUME NEW c, WriteTo(proc[h], c), proc[h].pc = "write" PROVE file' = file
  <2>1. Lone(h) BY <1>5, Solo
  <2> QED BY <1>5, <2>1 DEF WriteTo, Lone, Owns
<1>6. CASE Write(h) \/ CloseFails(h) \/ WriteFails(h)
  BY <1>5, <1>6 DEF Write, CloseFails, WriteFails
<1>7. CASE \/ \E op, name : Load(h, op, name)
           \/ Reload(h) \/ ReloadFails(h) \/ PutAppearance(h) \/ Create(h) \/ CreateFails(h)
           \/ RemoveTmp(h) \/ RenameFails(h) \/ StoreCache(h)
  BY <1>7 DEF Load, Reload, ReloadFails, ReloadAs, PutAppearance, Create, CreateFails,
              RemoveTmp, RenameFails, StoreCache, disk
<1> QED BY <1>3, <1>4, <1>6, <1>7 DEF Handle

\* What a request that is alone renames.
LEMMA RenamedFacts ==
  ASSUME Inv, NEW h \in Handler, Rename(h), Lone(h)
  PROVE  LET f == proc[h]
         IN  /\ f.name \in Name
             /\ file' = [file EXCEPT ![f.name] =
                           IF f.name = Json THEN Normalize(f.a) ELSE Arrived(f)]
             /\ Normalize(f.a) \in Saved
<1>1. proc[h].pc = "rename" /\ file' = [file EXCEPT ![proc[h].name] = tmp[proc[h].name]]
  BY DEF Rename
<1>2. tmp[proc[h].name] = IF proc[h].name = Json THEN Normalize(proc[h].a) ELSE Arrived(proc[h])
  BY <1>1 DEF Lone, Owns
<1> QED BY <1>1, <1>2, Facts, Normalizes

\* saveAppearance and handleUploadBackground leave no half-written file under its
\* name as long as requests come one at a time, but an image whose close failed.
LEMMA WholeStep ==
  ASSUME Inv, [Next]_vars, overlaps' = 0,
         NEW n \in Name, file'[n] = Torn, file[n] # Torn
  PROVE  n # Json /\ \E h \in Handler : proc[h].name = n /\ proc[h].cut
<1>1. file \in [Name -> Stored] /\ Absent # Torn /\ Whole # Torn
  BY ContentAssumption DEF Inv, TypeInv, TypeOK
<1>2. ~UNCHANGED vars /\ ~Restart /\ ~\E v \in Visitor : View(v) \/ Reload(v) \/ ReloadFails(v)
  BY DEF vars, disk, Restart, View, Reload, ReloadFails, ReloadAs
<1>3. PICK h \in Handler : Handle(h) BY <1>2 DEF Next
<1>4. \A e \in Ext : file' # [file EXCEPT ![e] = Absent] BY <1>1
<1>5. Rename(h) BY <1>3, <1>4, FileChange
<1>6. Lone(h) BY <1>3, <1>5, Solo DEF Rename
<1> DEFINE f == proc[h]
<1>7. /\ f.name \in Name /\ Normalize(f.a) \in Saved
      /\ file' = [file EXCEPT ![f.name] = IF f.name = Json THEN Normalize(f.a) ELSE Arrived(f)]
  BY <1>5, <1>6, RenamedFacts
<1>8. f.name = n BY <1>1, <1>7
<1>9. f.name # Json BY <1>1, <1>7, <1>8, SavedFacts
<1>10. f.cut BY <1>1, <1>7, <1>8, <1>9 DEF Arrived
<1> QED BY <1>8, <1>9, <1>10

THEOREM FilesWhole == Spec => WholeFiles
<1>1. Inv /\ [Next]_vars =>
        [overlaps' = 0 =>
           \A n \in Name : file'[n] = Torn /\ file[n] # Torn =>
             n # Json /\ \E h \in Handler : proc[h].name = n /\ proc[h].cut]_vars
  BY WholeStep
<1> QED BY <1>1, Always, PTL DEF Spec, WholeFiles

\* The step that ends a save that ran alone is the one that stores the cache.
LEMMA LoneSaveStep ==
  ASSUME Inv, [Next]_vars, NEW h \in Handler, LoneSave(h)
  PROVE  StoreCache(h) /\ Lone(h)
<1>0. /\ proc[h].pc = "cache" /\ proc'[h].pc = "idle" /\ proc[h].alone /\ loaded'
      /\ proc \in [Served -> Frame] /\ h \in Served
  BY Facts DEF LoneSave
<1>1. Lone(h) BY <1>0 DEF Inv, SaveInv, LoneInv
<1>2. ~UNCHANGED vars BY <1>0 DEF vars
<1>3. ~Restart BY <1>0 DEF Restart
<1>4. ~\E v \in Visitor : View(v) \/ Reload(v) \/ ReloadFails(v)
  <2> SUFFICES ASSUME NEW v \in Visitor, View(v) \/ Reload(v) \/ ReloadFails(v) PROVE FALSE
    OBVIOUS
  <2>1. h # v BY NameAssumption
  <2>2. proc'[h] = proc[h] BY <1>0, <2>1 DEF View, Reload, ReloadFails, ReloadAs, Goto
  <2> QED BY <1>0, <2>2
<1>5. PICK g \in Handler : Handle(g) BY <1>2, <1>3, <1>4 DEF Next
<1>6. CASE g = h
  <2>1. proc[h].pc = "cache" /\ Handle(h) BY <1>0, <1>5, <1>6
  <2>2. ~\E op, name : Load(h, op, name) BY <2>1 DEF Load
  <2>3. /\ ~Reload(h) /\ ~ReloadFails(h)
        /\ ~PutAppearance(h) /\ ~UploadBackground(h) /\ ~DeleteBackground(h)
        /\ ~Create(h) /\ ~CreateFails(h) /\ ~Write(h) /\ ~CloseFails(h) /\ ~WriteFails(h)
        /\ ~RemoveTmp(h) /\ ~Rename(h) /\ ~RenameFails(h)
    BY <2>1
    DEF Reload, ReloadFails, ReloadAs, PutAppearance, UploadBackground, DeleteBackground,
        Create, CreateFails, Write, CloseFails, WriteFails, RemoveTmp, Rename, RenameFails
  <2>4. StoreCache(h) BY <2>1, <2>2, <2>3 DEF Handle
  <2> QED BY <1>1, <2>4
<1>7. CASE g # h
  <2>1. proc[g].pc = "idle" BY <1>1, <1>7 DEF Lone
  <2>2. PICK op, name : Load(g, op, name)
    BY <1>5, <2>1
    DEF Handle, Reload, ReloadFails, ReloadAs, PutAppearance, UploadBackground,
        DeleteBackground, Create, CreateFails, Write, CloseFails, WriteFails, RemoveTmp,
        Rename, RenameFails, StoreCache
  <2>3. proc'[h] = [proc[h] EXCEPT !.alone = FALSE]
    BY <1>0, <1>7, <2>2 DEF Load, Begin
  <2>4. proc'[h].pc = "cache" BY <1>0, <2>3 DEF Frame
  <2> QED BY <1>0, <2>4
<1> QED BY <1>1, <1>6, <1>7

LEMMA LoneSaveFacts ==
  ASSUME Inv, [Next]_vars, NEW h \in Handler, LoneSave(h)
  PROVE  /\ file'[Json] = cache' /\ cache' = Normalize(proc[h].a)
         /\ proc[h].op = "upload" =>
              cache'.enabled /\ Media(cache)' = IF proc[h].cut THEN Torn ELSE Whole
<1>1. StoreCache(h) /\ Lone(h) BY LoneSaveStep
<1>2. file' = file /\ cache' = Normalize(proc[h].a) /\ proc[h].pc = "cache"
  BY <1>1 DEF StoreCache, disk
<1>3. file[Json] = Normalize(proc[h].a) BY <1>1, <1>2 DEF Lone, Owns
<1>4. ASSUME proc[h].op = "upload"
      PROVE  cache'.enabled /\ Media(cache)' = IF proc[h].cut THEN Torn ELSE Whole
  <2> DEFINE a == proc[h].a
  <2>1. proc[h].name = Json BY <1>2, Facts DEF NameOK
  <2>2. a.ext \in Ext /\ a.enabled /\ file[a.ext] = Arrived(proc[h])
    BY <1>1, <1>4, <2>1 DEF Lone, Owns
  <2>3. cache'.ext = a.ext /\ cache'.enabled = a.enabled BY <1>2, Facts, Normalizes
  <2>4. a.ext # NoExt BY <2>2, NameAssumption
  <2>5. Media(cache)' = file[a.ext] BY <1>2, <2>3, <2>4 DEF Media
  <2> QED BY <2>2, <2>3, <2>5 DEF Arrived
<1> QED BY <1>2, <1>3, <1>4

\* A save that runs alone ends with its settings in appearance.json and in the
\* cache, whatever overlapping saves had left there before.
THEOREM LoneSavesAgree == Spec => LoneSaveAgrees
<1>1. Inv /\ [Next]_vars =>
        [\A h \in Handler :
           LoneSave(h) => file'[Json] = cache' /\ cache' = Normalize(proc[h].a)]_vars
  BY LoneSaveFacts
<1> QED BY <1>1, Always, PTL DEF Spec, LoneSaveAgrees

\* An upload that runs alone and succeeds is what the status page is served: the
\* whole image, unless its close failed.
THEOREM LoneUploadsServed == Spec => LoneUploadServed
<1>1. Inv /\ [Next]_vars =>
        [\A h \in Handler : LoneSave(h) /\ proc[h].op = "upload"
           => cache'.enabled /\ Media(cache)' = IF proc[h].cut THEN Torn ELSE Whole]_vars
  BY LoneSaveFacts
<1> QED BY <1>1, Always, PTL DEF Spec, LoneUploadServed

-----------------------------------------------------------------------------
(* One record *)

\* The request of f, if it may still be saved.
AskedBy(f) == IF f.pc \in Writing THEN {f.req} ELSE {}

LEMMA AskedNow ==
  ASSUME NEW h \in Handler, \A g \in Handler \ {h} : proc[g].pc = "idle"
  PROVE  Asked = AskedBy(proc[h])
BY DEF Asked, AskedBy, Writing

LEMMA AskedNext ==
  ASSUME NEW h \in Handler, \A g \in Handler \ {h} : proc'[g].pc = "idle"
  PROVE  Asked' = AskedBy(proc'[h])
BY DEF Asked, AskedBy, Writing

\* The request in progress when another takes a step, which leaves the rest alone.
LEMMA Onward ==
  ASSUME Inv, NEW h \in Handler, Lone(h), NEW f,
         Goto(h, f) \/ \E n, moved : GotoMoving(h, f, n, moved)
  PROVE  Asked = AskedBy(proc[h]) /\ Asked' = AskedBy(f)
<1>0. proc \in [Served -> Frame] /\ h \in Served /\ Handler \subseteq Served
  BY Facts DEF Served
<1>1. CASE Goto(h, f)
  <2>1. proc'[h] = f /\ \A g \in Handler \ {h} : proc'[g] = proc[g]
    BY <1>0, <1>1 DEF Goto
  <2> QED BY <2>1, AskedNow, AskedNext DEF Lone
<1>2. ASSUME NEW n, NEW moved, GotoMoving(h, f, n, moved)
      PROVE  Asked = AskedBy(proc[h]) /\ Asked' = AskedBy(f)
  <2>1. proc'[h] = f BY <1>0, <1>2 DEF GotoMoving
  <2>2. ASSUME NEW g \in Handler \ {h} PROVE proc'[g].pc = "idle"
    <3>1. proc[g] \in Frame /\ proc[g].pc = "idle" BY <1>0 DEF Lone
    <3>2. proc'[g] = proc[g] \/ proc'[g] = [proc[g] EXCEPT !.fd = moved[@]]
      BY <1>0, <1>2 DEF GotoMoving
    <3> QED BY <3>1, <3>2 DEF Frame
  <2> QED BY <2>1, <2>2, AskedNow, AskedNext DEF Lone
<1> QED BY <1>1, <1>2

\* As long as no requests overlap, what is not the rename of appearance.json
\* leaves the settings there.
LEMMA ParsedSame ==
  ASSUME Inv, NEW h \in Handler, Handle(h), overlaps' = 0, ~(Rename(h) /\ proc[h].name = Json)
  PROVE  Parsed' = Parsed
<1>1. file \in [Name -> Stored] /\ Json \notin Ext
  BY NameAssumption DEF Inv, TypeInv, TypeOK
<1>2. file'[Json] = file[Json]
  <2>1. CASE Rename(h)
    <3>1. proc[h].name # Json /\ file' = [file EXCEPT ![proc[h].name] = tmp[proc[h].name]]
      BY <2>1 DEF Rename
    <3> QED BY <1>1, <3>1 DEF Name
  <2>2. CASE \E e \in Ext : file' = [file EXCEPT ![e] = Absent] BY <1>1, <2>2 DEF Name
  <2> QED BY <2>1, <2>2, FileChange
<1> QED BY <1>2 DEF Parsed

\* What a step does to the record.
Recorded == Promise!Ask \/ Promise!Save \/ Promise!Drop \/ Promise!Misread \/ Promise!Restart
            \/ UNCHANGED <<Parsed, Asked, misread>>

\* A request that is read, or that changes settings it has not yet saved.
LEMMA AskStep ==
  ASSUME Inv, NEW h \in Handler, Handle(h), overlaps' = 0,
         \/ Reload(h) \/ ReloadFails(h)
         \/ PutAppearance(h) \/ UploadBackground(h) \/ DeleteBackground(h)
  PROVE  Recorded
<1> DEFINE f == proc[h]
<1>0. f \in Frame /\ f.name \in Name /\ f.a \in Draft BY Facts
<1>1. f.pc \in {"reload", "change"} /\ ~Rename(h)
  BY DEF Reload, ReloadFails, ReloadAs, PutAppearance, UploadBackground, DeleteBackground, Rename
<1>2. Lone(h) /\ Parsed' = Parsed BY <1>1, Solo, ParsedSame
<1>3. Asked = {} BY <1>1, <1>2, AskedNow DEF AskedBy, Writing, Lone
<1>4. ASSUME NEW a, ReloadAs(h, a) PROVE Asked' = {}
  <2> DEFINE next == [f EXCEPT !.pc = "change", !.a = a]
  <2>1. Goto(h, next) BY <1>4, NameAssumption DEF ReloadAs
  <2>2. next.pc = "change" BY <1>0 DEF Frame
  <2> HIDE DEF next
  <2> QED BY <1>2, <2>1, <2>2, Onward DEF AskedBy, Writing
<1>5. CASE Reload(h) BY <1>2, <1>4, <1>5 DEF Reload, Recorded, Promise!Drop
<1>6. CASE ReloadFails(h) BY <1>2, <1>3, <1>4, <1>6 DEF ReloadFails, Recorded, Promise!Misread
<1>7. ASSUME NEW q \in Request, NEW next, next.pc = "create", next.req = q,
             Goto(h, next) \/ \E n, moved : GotoMoving(h, next, n, moved), UNCHANGED history
      PROVE  Recorded
  <2>1. Asked' = {q} BY <1>2, <1>7, Onward DEF AskedBy, Writing
  <2> QED BY <1>2, <1>3, <1>7, <2>1 DEF Recorded, Promise!Ask, history
<1>8. CASE PutAppearance(h)
  <2>1. PICK q \in Puts : Goto(h, [f EXCEPT !.pc = "create", !.a = Named(q, f.a), !.req = q])
    BY <1>0, <1>8 DEF PutAppearance, Frame
  <2> DEFINE a == Named(q, f.a)
             next == [f EXCEPT !.pc = "create", !.a = a, !.req = q]
  <2>2. Goto(h, next) /\ q \in Request /\ UNCHANGED history
    BY <1>8, <2>1 DEF PutAppearance, Puts
  <2> HIDE DEF a
  <2>3. next.pc = "create" /\ next.req = q BY <1>0 DEF Frame
  <2> HIDE DEF next
  <2> QED BY <1>7, <2>2, <2>3
<1>9. CASE UploadBackground(h)
  <2> DEFINE q == Upload(f.name)
             next == [f EXCEPT !.pc = "create", !.req = q]
  <2>1. /\ Goto(h, next) \/ \E n, moved : GotoMoving(h, next, n, moved)
        /\ UNCHANGED history
    BY <1>9 DEF UploadBackground, Unlink
  <2>2. f.name \in Ext BY <1>0, <1>9, Facts DEF UploadBackground, NameOK, Name
  <2>3. q \in Request BY <1>0, <2>2, UploadNames
  <2> HIDE DEF q
  <2>4. next.pc = "create" /\ next.req = q BY <1>0 DEF Frame
  <2> HIDE DEF next
  <2> QED BY <1>7, <2>1, <2>3, <2>4
<1>10. CASE DeleteBackground(h)
  <2> DEFINE a == [f.a EXCEPT !.ext = NoExt, !.enabled = FALSE]
             next == [f EXCEPT !.pc = "create", !.a = a, !.req = Delete]
  <2>0. next = [f EXCEPT !.pc = "create", !.a.ext = NoExt, !.a.enabled = FALSE, !.req = Delete]
    BY <1>0 DEF Frame, Draft
  <2>1. /\ Goto(h, next) \/ \E n, moved : GotoMoving(h, next, n, moved)
        /\ UNCHANGED history
    BY <1>10, <2>0 DEF DeleteBackground, Unlink
  <2>2. Delete \in Request BY <1>0, DeleteNames
  <2> HIDE DEF a
  <2>3. next.pc = "create" /\ next.req = Delete BY <1>0 DEF Frame
  <2> HIDE DEF next
  <2> QED BY <1>7, <2>1, <2>2, <2>3
<1> QED BY <1>5, <1>6, <1>8, <1>9, <1>10

\* A request on its way to the rename of its settings.
LEMMA OnwardStep ==
  ASSUME Inv, NEW h \in Handler, Handle(h), overlaps' = 0,
         \/ Create(h) \/ Write(h) \/ CloseFails(h)
         \/ Rename(h) /\ proc[h].name # Json
  PROVE  Recorded
<1> DEFINE f == proc[h]
<1>0. f \in Frame BY Facts
<1>1. f.pc \in Writing BY DEF Create, Write, CloseFails, Rename, Writing
<1>2. Lone(h) BY <1>1, Solo DEF Writing
<1>3. Parsed' = Parsed /\ misread' = misread
  <2>1. misread' = misread
    BY DEF Create, Write, CloseFails, Rename, history, Inv, TypeInv, TypeOK
  <2>2. ~(Rename(h) /\ proc[h].name = Json)
    <3>1. Create(h) \/ Write(h) \/ CloseFails(h) => ~Rename(h)
      BY DEF Create, Write, CloseFails, Rename
    <3> QED BY <3>1
  <2> QED BY <2>1, <2>2, ParsedSame
<1>4. Asked = {f.req} BY <1>1, <1>2, AskedNow DEF AskedBy, Lone
<1>5. ASSUME NEW next, next.pc \in Writing, next.req = f.req,
             Goto(h, next) \/ \E n, moved : GotoMoving(h, next, n, moved)
      PROVE  Asked' = Asked
  BY <1>2, <1>4, <1>5, Onward DEF AskedBy
<1>6. CASE Create(h)
  <2> DEFINE open == {g \in Handler \ {h} : proc[g].name = f.name /\ proc[g].fd = "tmp"}
             next == [f EXCEPT !.pc = "write", !.fd = "tmp", !.sole = open = {}]
  <2>1. proc' = [g \in DOMAIN proc |-> IF g = h THEN next
                                       ELSE IF g \in open THEN [proc[g] EXCEPT !.sole = FALSE]
                                       ELSE proc[g]]
    BY <1>6 DEF Create
  <2>2. next.pc = "write" /\ next.req = f.req BY <1>0 DEF Frame
  <2> HIDE DEF next, open
  <2>3. proc'[h] = next BY <2>1, Facts
  <2>4. ASSUME NEW g \in Handler \ {h} PROVE proc'[g].pc = "idle"
    <3>1. proc[g] \in Frame /\ proc[g].pc = "idle" /\ g \in DOMAIN proc
      BY <1>2, Facts DEF Lone, Served
    <3>2. proc'[g] = proc[g] \/ proc'[g] = [proc[g] EXCEPT !.sole = FALSE] BY <2>1, <3>1
    <3> QED BY <3>1, <3>2 DEF Frame
  <2>5. Asked' = {f.req} BY <2>2, <2>3, <2>4, AskedNext DEF AskedBy, Writing
  <2> QED BY <1>3, <1>4, <2>5 DEF Recorded
<1>7. CASE Write(h)
  <2> DEFINE next == [f EXCEPT !.pc = "rename", !.fd = "none", !.sole = FALSE]
  <2>1. Goto(h, next) BY <1>7 DEF Write
  <2>2. next.pc = "rename" /\ next.req = f.req BY <1>0 DEF Frame
  <2> HIDE DEF next
  <2> QED BY <1>3, <1>5, <2>1, <2>2 DEF Recorded, Writing
<1>8. CASE CloseFails(h)
  <2> DEFINE next == [f EXCEPT !.pc = "rename", !.fd = "none", !.sole = FALSE, !.cut = TRUE]
  <2>1. Goto(h, next) BY <1>8 DEF CloseFails
  <2>2. next.pc = "rename" /\ next.req = f.req BY <1>0 DEF Frame
  <2> HIDE DEF next
  <2> QED BY <1>3, <1>5, <2>1, <2>2 DEF Recorded, Writing
<1>9. CASE Rename(h) /\ f.name # Json
  <2> DEFINE a == Uploaded(f.a, f.name)
             next == [f EXCEPT !.pc = "create", !.name = Json, !.a = a]
  <2>1. \E n, moved : GotoMoving(h, next, n, moved) BY <1>9 DEF Rename
  <2> HIDE DEF a
  <2>2. next.pc = "create" /\ next.req = f.req BY <1>0 DEF Frame
  <2> HIDE DEF next
  <2> QED BY <1>3, <1>5, <2>1, <2>2 DEF Recorded, Writing
<1> QED BY <1>6, <1>7, <1>8, <1>9

\* A request that ends.
LEMMA DropStep ==
  ASSUME Inv, NEW h \in Handler, Handle(h), overlaps' = 0,
         \/ CreateFails(h) \/ WriteFails(h) \/ RemoveTmp(h) \/ RenameFails(h) \/ StoreCache(h)
  PROVE  Recorded
<1>1. proc[h].pc # "idle" /\ misread' = misread
  BY DEF CreateFails, WriteFails, RemoveTmp, RenameFails, StoreCache, history
<1>2. Lone(h) BY <1>1, Solo
<1>3. Parsed' = Parsed
  <2>1. CASE CreateFails(h) \/ RenameFails(h) \/ StoreCache(h)
    BY <2>1 DEF CreateFails, RenameFails, StoreCache, disk, Parsed
  <2>2. CASE WriteFails(h) \/ RemoveTmp(h)
    <3>1. ~Rename(h) BY <2>2 DEF WriteFails, RemoveTmp, Rename
    <3> QED BY <3>1, ParsedSame
  <2> QED BY <2>1, <2>2
<1>4. \/ Goto(h, Idle) \/ \E n, moved : GotoMoving(h, Idle, n, moved)
      \/ GiveUp(h)
  BY DEF CreateFails, WriteFails, RemoveTmp, RenameFails, StoreCache
<1> DEFINE left == [Idle EXCEPT !.pc = "remove", !.op = proc[h].op, !.name = proc[h].name,
                                !.alone = proc[h].alone]
<1>5. Idle.pc = "idle" /\ left.pc = "remove" BY DEF Idle
<1>6. \/ Goto(h, Idle) \/ \E n, moved : GotoMoving(h, Idle, n, moved)
      \/ Goto(h, left)
  BY <1>4 DEF GiveUp
<1> HIDE DEF left
<1>7. Asked' = {}
  <2>1. CASE Goto(h, left) BY <1>2, <1>5, <2>1, Onward DEF AskedBy, Writing
  <2>2. CASE Goto(h, Idle) \/ \E n, moved : GotoMoving(h, Idle, n, moved)
    BY <1>2, <1>5, <2>2, Onward DEF AskedBy, Writing
  <2> QED BY <1>6, <2>1, <2>2
<1> QED BY <1>1, <1>3, <1>7 DEF Recorded, Promise!Drop

\* A request whose settings take the place of appearance.json.
LEMMA SaveStep ==
  ASSUME Inv, NEW h \in Handler, Handle(h), overlaps' = 0, Rename(h), proc[h].name = Json
  PROVE  Recorded
<1> DEFINE f == proc[h]
           next == [f EXCEPT !.pc = "cache"]
<1>0. f \in Frame /\ Builds(f) /\ f.pc = "rename"
  <2>1. overlaps = 0 BY Solo
  <2> QED BY <2>1, Facts DEF Rename
<1>1. Lone(h) BY <1>0, Solo
<1>2. \E n, moved : GotoMoving(h, next, n, moved) BY DEF Rename
<1>3. next.pc = "cache" BY <1>0 DEF Frame
<1> HIDE DEF next
<1>4. Asked = {f.req} /\ Asked' = {} BY <1>0, <1>1, <1>2, <1>3, Onward DEF AskedBy, Writing
<1>5. Parsed' = Normalize(f.a)
  <2>1. file \in [Name -> Stored] /\ Normalize(f.a) \in Saved
        /\ file' = [file EXCEPT ![Json] = Normalize(f.a)]
    BY <1>1, RenamedFacts DEF Inv, TypeInv, TypeOK
  <2>2. file'[Json] = Normalize(f.a) BY <2>1 DEF Name
  <2> QED BY <2>1, <2>2, SavedFacts DEF Parsed
<1>6. misread' = FALSE BY DEF Rename
<1>7. \/ Normalize(f.a) = Changed(f.req, Parsed)
      \/ misread /\ Normalize(f.a) = Changed(f.req, Default)
  BY <1>0 DEF Builds, Writing
<1> QED BY <1>4, <1>5, <1>6, <1>7 DEF Recorded, Promise!Save

\* A request that begins, alone.
LEMMA BeginStep ==
  ASSUME Inv, NEW h \in Handler, NEW op, NEW name, Load(h, op, name), overlaps' = 0
  PROVE  Recorded
<1>0. overlaps \in Nat /\ proc \in [Served -> Frame] /\ Handler \subseteq Served
  BY DEF Inv, TypeInv, TypeOK, Served
<1>1. /\ proc[h].pc = "idle" /\ UNCHANGED disk /\ misread' = misread
      /\ overlaps' = overlaps + (IF Busy = {} THEN 0 ELSE 1)
  BY DEF Load, Begin
<1>2. Busy = {} BY <1>0, <1>1
<1>3. ASSUME NEW g \in Handler PROVE proc'[g].pc \in {"idle", "change", "reload"}
  <2>1. CASE g # h
    <3>1. proc'[g] = [proc[g] EXCEPT !.alone = FALSE] BY <1>0, <2>1 DEF Load, Begin
    <3>2. proc[g].pc = "idle" /\ proc[g] \in Frame BY <1>0, <1>2 DEF Busy
    <3> QED BY <3>1, <3>2 DEF Frame
  <2>2. CASE g = h
    <3> DEFINE pc == IF loaded THEN "change" ELSE "reload"
               a == IF loaded THEN cache ELSE Default
               f == [Idle EXCEPT !.op = op, !.name = name, !.pc = pc, !.a = a,
                                 !.alone = Busy = {}]
    <3>1. proc'[h] = f BY <1>0, <2>2 DEF Load, Begin, Idle
    <3>2. pc \in {"change", "reload"} OBVIOUS
    <3> HIDE DEF pc, a
    <3>3. f.pc = pc BY DEF Idle
    <3> QED BY <2>2, <3>1, <3>2, <3>3
  <2> QED BY <2>1, <2>2
<1>4. Asked' = {} BY <1>3 DEF Asked
<1> QED BY <1>1, <1>4, FilesSame DEF Recorded, Promise!Drop

LEMMA RecordStep ==
  ASSUME Inv, Next, overlaps' = 0
  PROVE  overlaps = 0 /\ Recorded
<1>1. CASE Restart
  <2>1. Asked' = {}
    <3>1. \A h \in Handler : proc'[h].pc = "idle"
      BY <1>1 DEF Restart, Idle, Inv, TypeInv, TypeOK
    <3> QED BY <3>1 DEF Asked
  <2> QED BY <1>1, <2>1, FilesSame DEF Restart, Recorded, Promise!Restart
<1>2. CASE \E v \in Visitor : View(v) \/ Reload(v) \/ ReloadFails(v)
  <2>1. PICK v \in Visitor : View(v) \/ Reload(v) \/ ReloadFails(v) BY <1>2
  <2>2. \A h \in Handler : h # v /\ h \in DOMAIN proc
    BY NameAssumption DEF Inv, TypeInv, TypeOK
  <2>3. \A h \in Handler : proc'[h] = proc[h]
    BY <2>1, <2>2 DEF View, Reload, ReloadFails, ReloadAs, Goto
  <2>4. Asked' = Asked BY <2>3 DEF Asked
  <2>5. Parsed' = Parsed BY <2>1, FilesSame DEF View, Reload, ReloadFails, ReloadAs
  <2>6. overlaps' = overlaps /\ (misread' = misread \/ misread' = TRUE)
    BY <2>1 DEF View, Reload, ReloadFails, ReloadAs, history
  <2> QED BY <2>4, <2>5, <2>6 DEF Recorded, Promise!Misread
<1>3. ASSUME NEW h \in Handler, Handle(h) PROVE overlaps = 0 /\ Recorded
  <2>1. overlaps = 0 BY <1>3, Solo
  <2>2. CASE \E op, name : Load(h, op, name) BY <2>2, <2>1, BeginStep
  <2>3. CASE \/ Reload(h) \/ ReloadFails(h)
             \/ PutAppearance(h) \/ UploadBackground(h) \/ DeleteBackground(h)
    BY <1>3, <2>3, <2>1, AskStep
  <2>4. CASE \/ Create(h) \/ Write(h) \/ CloseFails(h)
             \/ Rename(h) /\ proc[h].name # Json
    BY <1>3, <2>4, <2>1, OnwardStep
  <2>5. CASE Rename(h) /\ proc[h].name = Json BY <1>3, <2>5, <2>1, SaveStep
  <2>6. CASE \/ CreateFails(h) \/ WriteFails(h) \/ RemoveTmp(h)
             \/ RenameFails(h) \/ StoreCache(h)
    BY <1>3, <2>6, <2>1, DropStep
  <2> QED BY <1>3, <2>1, <2>2, <2>3, <2>4, <2>5, <2>6 DEF Handle
<1> QED BY <1>1, <1>2, <1>3 DEF Next

\* The hub keeps its promise about the appearance (Settings): as long as requests
\* come one at a time, the settings in appearance.json are one record that every
\* request that succeeds changes in a single step, in all that it names.
THEOREM RecordRefined == Spec => OneRecord
<1>1. Init => Promise!Init
  <2> SUFFICES ASSUME Init PROVE Promise!Init
    OBVIOUS
  <2>1. Parsed \in Saved BY InitInv, ParsedType DEF Inv, TypeInv
  <2>2. \A h \in Handler : proc[h].pc = "idle" BY DEF Init, Idle
  <2>3. Asked = {} BY <2>2 DEF Asked
  <2>4. misread = FALSE /\ (overlaps > 0) = FALSE BY DEF Init
  <2> QED BY <2>1, <2>3, <2>4, Zenon DEF Promise!Init
<1>2. Inv /\ Inv' /\ [Next]_vars => [Promise!Next]_<<Parsed, Asked, misread, overlaps > 0>>
  <2> SUFFICES ASSUME Inv, Inv', [Next]_vars
               PROVE  [Promise!Next]_<<Parsed, Asked, misread, overlaps > 0>>
    OBVIOUS
  <2>1. CASE UNCHANGED vars
    <3>1. Parsed' = Parsed BY <2>1, FilesSame DEF vars
    <3>2. Asked' = Asked BY <2>1 DEF vars, Asked
    <3> QED BY <2>1, <3>1, <3>2 DEF vars, history
  <2>2. CASE Next
    <3>0. overlaps \in Nat /\ overlaps' \in Nat BY DEF Inv, TypeInv, TypeOK
    <3>1. CASE overlaps' > 0
      <4>1. Parsed' \in Saved
        <5>1. JsonInv' BY DEF Inv, TypeInv
        <5> QED BY <5>1, SavedFacts DEF JsonInv, Parsed
      <4> QED BY <3>1, <4>1 DEF Promise!Next
    <3>2. CASE overlaps' = 0
      <4>1. overlaps = 0 /\ Recorded BY <2>2, <3>2, RecordStep
      <4>2. (overlaps > 0) = FALSE /\ (overlaps' > 0) = FALSE BY <3>2, <4>1
      <4>3. CASE UNCHANGED <<Parsed, Asked, misread>> BY <4>2, <4>3
      <4>4. CASE \/ Promise!Ask \/ Promise!Save \/ Promise!Drop \/ Promise!Misread
                 \/ Promise!Restart
        BY <4>2, <4>4, Zenon DEF Promise!Next
      <4> QED BY <4>1, <4>3, <4>4 DEF Recorded
    <3> QED BY <3>0, <3>1, <3>2
  <2> QED BY <2>1, <2>2
<1> QED BY <1>1, <1>2, Always, PTL DEF Spec, OneRecord, Promise!Spec

=============================================================================
