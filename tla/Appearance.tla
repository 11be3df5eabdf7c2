----------------------------- MODULE Appearance -----------------------------
(***************************************************************************)
(* The appearance of the status page (internal/hub/appearance.go): a JSON  *)
(* file with the settings, at most one background image in a file of its   *)
(* own, and a cache of the settings under appearanceMu.  The handlers of   *)
(* the admin API load the settings, change them and save them without a    *)
(* common lock, and two saves of one file share a temporary file; a step   *)
(* is one call of the file system or one section of the mutex.             *)
(*                                                                         *)
(* Of the settings it keeps enabled, dim (which also stands for the        *)
(* opacity, the fit and the position) and the extension of the image.  A   *)
(* file is Absent, Torn (truncated, half written or mixed), or holds its   *)
(* content; an image that has arrived is Whole.                            *)
(***************************************************************************)
EXTENDS Integers, FiniteSets

CONSTANTS
  Handler,       \* goroutines that serve the admin API
  Visitor,       \* goroutines that serve GET /api/appearance and /media/background
  Json,          \* the name of appearance.json
  Ext, NoExt,    \* ".jpg", ".png", ".webp", and "": no image
  MaxDim, Dims,  \* the upper bound of dim (100), and the values requests carry
  Kept,          \* what a request does not name
  Absent, Torn, Whole,
  MaxOverlaps    \* bound of the exploration

ASSUME NameAssumption == Json \notin Ext /\ NoExt \notin Ext /\ Handler \cap Visitor = {}
ASSUME DimAssumption == MaxDim \in Nat /\ Dims \subseteq Int
ASSUME KeptAssumption == Kept \notin BOOLEAN /\ Kept \notin Dims /\ Kept \notin Ext \cup {NoExt}
ASSUME BoundAssumption == MaxOverlaps \in Nat

VARIABLES
  file, tmp,  \* a name's file in the appearance directory, and its ".tmp" file
  cache,      \* Server.appearance
  loaded,     \* Server.appearanceLoaded
  proc,       \* the requests in progress
  overlaps,   \* history: how many requests began while another handler was at work
  misread     \* history: appearance.json could not be read since it was last saved
              \* and since the hub started

disk == <<file, tmp>>
memory == <<cache, loaded>>
history == <<overlaps, misread>>
vars == <<disk, memory, proc, history>>

Name == {Json} \cup Ext
Default == [enabled |-> FALSE, dim |-> 0, ext |-> NoExt]
Saved == [enabled : BOOLEAN, dim : 0..MaxDim, ext : Ext \cup {NoExt}]

\* The settings a handler works on are normalized only when they are saved.
Draft == [enabled : BOOLEAN, dim : Int, ext : Ext \cup {NoExt}]
ASSUME ContentAssumption ==
  Torn \notin {Absent, Whole} /\ Torn \notin Draft /\ Absent \notin Draft

\* What a file can hold.
Stored == Saved \cup {Absent, Torn, Whole}

\* What a request names; the JSON of a PUT names any, all or none of enabled and dim.
Request == [enabled : BOOLEAN \cup {Kept}, dim : Dims \cup {Kept}, ext : Ext \cup {NoExt, Kept}]
Nothing == [enabled |-> Kept, dim |-> Kept, ext |-> Kept]
Upload(e) == [enabled |-> TRUE, dim |-> Kept, ext |-> e]
Delete == [enabled |-> FALSE, dim |-> Kept, ext |-> NoExt]
Puts == {q \in Request : q.ext = Kept}

\* a: the settings the handler works on; name: the file it writes; fd: where its
\* descriptor leads by now, "gone" when nowhere; sole: nobody else has had that
\* file open; alone: no other handler has been in progress since this one began;
\* cut: the close of its image has failed; req: what it has changed in a.
Frame == [pc : {"idle", "reload", "change", "create", "write", "rename", "remove", "cache"},
          op : {"view", "put", "upload", "delete"}, req : Request, a : Draft, name : Name,
          fd : {"none", "tmp", "file", "gone"}, sole : BOOLEAN, alone : BOOLEAN,
          cut : BOOLEAN]
Idle == [pc |-> "idle", op |-> "view", req |-> Nothing, a |-> Default, name |-> Json,
         fd |-> "none", sole |-> FALSE, alone |-> FALSE, cut |-> FALSE]

-----------------------------------------------------------------------------
\* Mutant: a value beyond the bound is kept.
NormalizeLow(a) == [a EXCEPT !.dim = IF @ < 0 THEN 0 ELSE @]

\* normalizeAppearance.
Normalize(a) == [a EXCEPT !.dim = IF @ < 0 THEN 0 ELSE IF @ > MaxDim THEN MaxDim ELSE @]

\* What reloadAppearance makes of appearance.json: a file that is missing or
\* does not parse leaves the defaults.
Parsed == IF file[Json] \in {Absent, Torn} THEN Default ELSE file[Json]

\* What handleMediaBackground finds under settings a; Absent is answered by a 404.
Media(a) == IF a.ext = NoExt THEN Absent ELSE file[a.ext]

Init ==
  /\ file = [n \in Name |-> Absent] /\ tmp = [n \in Name |-> Absent]
  /\ cache = Default /\ loaded = FALSE
  /\ proc = [g \in Handler \cup Visitor |-> Idle]
  /\ overlaps = 0 /\ misread = FALSE

Goto(g, frame) == proc' = [proc EXCEPT ![g] = frame]

\* h goes to frame, and the others' descriptors of name that led to a place in
\* DOMAIN moved lead elsewhere from now on: a descriptor follows its file when
\* that is renamed, and leads nowhere once it is removed or replaced.
GotoMoving(h, frame, name, moved) ==
  proc' = [g \in DOMAIN proc |->
             IF g = h THEN frame
             ELSE IF proc[g].name = name /\ proc[g].fd \in DOMAIN moved
             THEN [proc[g] EXCEPT !.fd = moved[@]]
             ELSE proc[g]]

Busy == {h \in Handler : proc[h].pc # "idle"}

-----------------------------------------------------------------------------
(* loadAppearance *)

\* h begins a request at the given point, and is no longer alone if another
\* handler is at work.
Begin(h, frame) ==
  /\ proc' = [g \in DOMAIN proc |-> IF g = h THEN [frame EXCEPT !.alone = Busy = {}]
                                    ELSE [proc[g] EXCEPT !.alone = FALSE]]
  /\ overlaps' = overlaps + (IF Busy = {} THEN 0 ELSE 1)
  /\ overlaps' <= MaxOverlaps

\* Mutant: the cache is taken for the settings even before they were loaded.
LoadUnasked(h, op, name) ==
  /\ proc[h].pc = "idle"
  /\ Begin(h, [Idle EXCEPT !.op = op, !.name = name, !.pc = "change", !.a = cache])
  /\ UNCHANGED <<disk, memory, misread>>

\* A handler begins by looking at the cache.
Load(h, op, name) ==
  /\ proc[h].pc = "idle"
  /\ Begin(h, [Idle EXCEPT !.op = op, !.name = name,
                           !.pc = IF loaded THEN "change" ELSE "reload",
                           !.a = IF loaded THEN cache ELSE @])
  /\ UNCHANGED <<disk, memory, misread>>

\* A visitor changes nothing, but may be the one who loads the file.
View(v) ==
  /\ proc[v].pc = "idle" /\ ~loaded
  /\ Goto(v, [Idle EXCEPT !.pc = "reload"])
  /\ UNCHANGED <<disk, memory, history>>

\* reloadAppearance, under appearanceMu, with the settings it makes of the file.
ReloadAs(g, a) ==
  /\ proc[g].pc = "reload"
  /\ cache' = a /\ loaded' = TRUE
  /\ Goto(g, IF g \in Visitor THEN Idle ELSE [proc[g] EXCEPT !.pc = "change", !.a = a])
  /\ UNCHANGED <<disk, overlaps>>

Reload(g) == ReloadAs(g, Parsed) /\ UNCHANGED misread

\* The error of os.ReadFile is dropped: settings that cannot be read are taken for
\* the defaults.
ReloadFails(g) ==
  /\ file[Json] \in Saved
  /\ ReloadAs(g, Default) /\ misread' = TRUE

-----------------------------------------------------------------------------
(* What a request changes before it writes *)

\* Settings v after request q: what q names, and the rest of v.
Named(q, v) == [enabled |-> IF q.enabled = Kept THEN v.enabled ELSE q.enabled,
                dim |-> IF q.dim = Kept THEN v.dim ELSE q.dim,
                ext |-> IF q.ext = Kept THEN v.ext ELSE q.ext]

\* handlePutAppearance sets everything the request names.
PutAppearance(h) ==
  /\ proc[h].pc = "change" /\ proc[h].op = "put"
  /\ \E q \in Puts :
       Goto(h, [proc[h] EXCEPT !.pc = "create", !.a = Named(q, @), !.req = q])
  /\ UNCHANGED <<disk, memory, history>>

\* os.Remove of an image on the way to frame: there is nothing to remove, or
\* an error is ignored, or the image goes.
Unlink(h, ext, frame) ==
  /\ \/ /\ UNCHANGED file
        /\ Goto(h, frame)
     \/ /\ ext # NoExt
        /\ file' = [file EXCEPT ![ext] = Absent]
        /\ GotoMoving(h, frame, ext, [fd \in {"file"} |-> "gone"])
  /\ UNCHANGED <<tmp, memory, history>>

\* handleUploadBackground, once the request has an image of a known type,
\* removes the previous one if its extension differs.
UploadBackground(h) ==
  LET f == proc[h]
      stale == IF f.a.ext = f.name THEN NoExt ELSE f.a.ext
  IN  /\ f.pc = "change" /\ f.op = "upload"
      /\ Unlink(h, stale, [f EXCEPT !.pc = "create", !.req = Upload(f.name)])

\* handleDeleteBackground.
DeleteBackground(h) ==
  LET f == proc[h]
  IN  /\ f.pc = "change" /\ f.op = "delete"
      /\ Unlink(h, f.a.ext, [f EXCEPT !.pc = "create", !.a.ext = NoExt, !.a.enabled = FALSE,
                                      !.req = Delete])

-----------------------------------------------------------------------------
(* The write of a file: saveAppearance when the name is Json, the second half  *)
(* of handleUploadBackground when it is an image                               *)

\* The temporary file is created, or truncated if it is there.
Create(h) ==
  LET n == proc[h].name
      open == {g \in Handler \ {h} : proc[g].name = n /\ proc[g].fd = "tmp"}
  IN
  /\ proc[h].pc = "create"
  /\ tmp' = [tmp EXCEPT ![n] = Torn]
  /\ proc' = [g \in DOMAIN proc |->
                IF g = h THEN [proc[h] EXCEPT !.pc = "write", !.fd = "tmp", !.sole = open = {}]
                ELSE IF g \in open THEN [proc[g] EXCEPT !.sole = FALSE]
                ELSE proc[g]]
  /\ UNCHANGED <<file, memory, history>>

\* It cannot be created: 500.
CreateFails(h) ==
  /\ proc[h].pc = "create"
  /\ Goto(h, Idle)
  /\ UNCHANGED <<disk, memory, history>>

\* What arrives goes where the descriptor leads.
WriteTo(f, content) ==
  /\ tmp' = IF f.fd = "tmp" THEN [tmp EXCEPT ![f.name] = content] ELSE tmp
  /\ file' = IF f.fd = "file" THEN [file EXCEPT ![f.name] = content] ELSE file

Content(f) == IF f.name = Json THEN Normalize(f.a) ELSE Whole

\* The writes and the close succeed; two writers of one file may mix.
Write(h) ==
  /\ proc[h].pc = "write"
  /\ \E c \in IF proc[h].sole THEN {Content(proc[h])} ELSE {Content(proc[h]), Torn} :
       WriteTo(proc[h], c)
  /\ Goto(h, [proc[h] EXCEPT !.pc = "rename", !.fd = "none", !.sole = FALSE])
  /\ UNCHANGED <<memory, history>>

\* handleUploadBackground drops the error of out.Close: the image goes on to the
\* rename without its end.  (os.WriteFile returns the error of its close.)
CloseFails(h) ==
  /\ proc[h].pc = "write" /\ proc[h].name # Json
  /\ WriteTo(proc[h], Torn)
  /\ Goto(h, [proc[h] EXCEPT !.pc = "rename", !.fd = "none", !.sole = FALSE,
                               !.cut = TRUE])
  /\ UNCHANGED <<memory, history>>

\* After an error appearance.json.tmp stays behind, and an image's is removed.
GiveUp(h) ==
  Goto(h, IF proc[h].name = Json THEN Idle
          ELSE [Idle EXCEPT !.pc = "remove", !.op = proc[h].op, !.name = proc[h].name,
                            !.alone = proc[h].alone])

\* Mutant: the error is lost, and what has been written is renamed.
WriteFailsSilently(h) ==
  /\ proc[h].pc = "write"
  /\ WriteTo(proc[h], Torn)
  /\ Goto(h, [proc[h] EXCEPT !.pc = "rename", !.fd = "none"])
  /\ UNCHANGED <<memory, history>>

\* A write fails, or an image is larger than maxBackgroundBytes.
WriteFails(h) ==
  /\ proc[h].pc = "write"
  /\ WriteTo(proc[h], Torn)
  /\ GiveUp(h)
  /\ UNCHANGED <<memory, history>>

RemoveTmp(h) ==
  LET n == proc[h].name
  IN  /\ proc[h].pc = "remove"
      /\ tmp' = [tmp EXCEPT ![n] = Absent]
      /\ GotoMoving(h, Idle, n, [fd \in {"tmp"} |-> "gone"])
      /\ UNCHANGED <<file, memory, history>>

\* Mutant: an image of another type does not replace the previous extension.
UploadedKept(a, ext) == [a EXCEPT !.ext = IF @ = NoExt THEN ext ELSE @, !.enabled = TRUE]

Uploaded(a, ext) == [a EXCEPT !.ext = ext, !.enabled = TRUE]

\* The temporary file replaces the file.  An upload goes on with its settings.
Rename(h) ==
  LET f == proc[h]
      next == IF f.name = Json THEN [f EXCEPT !.pc = "cache"]
              ELSE [f EXCEPT !.pc = "create", !.name = Json, !.a = Uploaded(f.a, f.name)]
  IN
  /\ f.pc = "rename" /\ tmp[f.name] # Absent
  /\ file' = [file EXCEPT ![f.name] = tmp[f.name]]
  /\ tmp' = [tmp EXCEPT ![f.name] = Absent]
  /\ GotoMoving(h, next, f.name,
                [fd \in {"tmp", "file"} |-> IF fd = "tmp" THEN "file" ELSE "gone"])
  /\ misread' = (misread /\ f.name # Json)
  /\ UNCHANGED <<memory, overlaps>>

\* Another handler has renamed or removed the temporary file, or an I/O error.
RenameFails(h) ==
  /\ proc[h].pc = "rename"
  /\ GiveUp(h)
  /\ UNCHANGED <<disk, memory, history>>

\* Mutant: the cache is filled once only.
StoreCacheOnce(h) ==
  /\ proc[h].pc = "cache"
  /\ cache' = (IF loaded THEN cache ELSE Normalize(proc[h].a)) /\ loaded' = TRUE
  /\ Goto(h, Idle)
  /\ UNCHANGED <<disk, history>>

\* The end of saveAppearance, under appearanceMu.
StoreCache(h) ==
  /\ proc[h].pc = "cache"
  /\ cache' = Normalize(proc[h].a) /\ loaded' = TRUE
  /\ Goto(h, Idle)
  /\ UNCHANGED <<disk, history>>

-----------------------------------------------------------------------------
\* The hub's process ends at any point and a new one starts.
Restart ==
  /\ cache' = Default /\ loaded' = FALSE
  /\ proc' = [g \in DOMAIN proc |-> Idle]
  /\ misread' = FALSE
  /\ UNCHANGED <<disk, overlaps>>

Handle(h) ==
  \/ Load(h, "put", Json) \/ Load(h, "delete", Json)
  \/ \E e \in Ext : Load(h, "upload", e)
  \/ Reload(h) \/ ReloadFails(h)
  \/ PutAppearance(h) \/ UploadBackground(h) \/ DeleteBackground(h)
  \/ Create(h) \/ CreateFails(h) \/ Write(h) \/ CloseFails(h) \/ WriteFails(h)
  \/ RemoveTmp(h) \/ Rename(h) \/ RenameFails(h) \/ StoreCache(h)

Next ==
  \/ \E h \in Handler : Handle(h)
  \/ \E v \in Visitor : View(v) \/ Reload(v) \/ ReloadFails(v)
  \/ Restart

Spec == Init /\ [][Next]_vars

-----------------------------------------------------------------------------
(* Properties *)

TypeOK ==
  /\ file \in [Name -> Stored] /\ tmp \in [Name -> Stored]
  /\ cache \in Saved
  /\ loaded \in BOOLEAN
  /\ proc \in [Handler \cup Visitor -> Frame]
  /\ overlaps \in Nat /\ misread \in BOOLEAN

\* The temporary file and the rename do their work: as long as requests come one
\* at a time, no failed write and no stop of the hub, at any point and in any
\* number, leaves a half-written file under its name, never appearance.json, and
\* an image only if the close of that very image has failed.
WholeFiles ==
  [][overlaps' = 0 =>
       \A n \in Name : file'[n] = Torn /\ file[n] # Torn =>
         n # Json /\ \E h \in Handler : proc[h].name = n /\ proc[h].cut]_vars

\* A request that ran alone has saved its settings; a restart unloads the cache.
LoneSave(h) == proc[h].pc = "cache" /\ proc[h].alone /\ proc'[h].pc = "idle" /\ loaded'

\* Overlapping saves leave file and cache with different winners, stale temporary
\* files and torn ones.  The next save that runs alone repairs that: file and
\* cache both hold what it saved.
LoneSaveAgrees ==
  [][\A h \in Handler :
       LoneSave(h) => file'[Json] = cache' /\ cache' = Normalize(proc[h].a)]_vars

\* An upload that runs alone and succeeds is served, whatever earlier uploads,
\* failed or overlapping, of this or another type, have left in the directory: the
\* whole of it unless the close of this very upload has failed.
LoneUploadServed ==
  [][\A h \in Handler : LoneSave(h) /\ proc[h].op = "upload"
       => cache'.enabled /\ Media(cache)' = IF proc[h].cut THEN Torn ELSE Whole]_vars

\* Requests that come one at a time act on one record, which failures and
\* restarts do not disturb: a request that succeeds sets what it names, in bounds,
\* keeps the rest as the last save left it, and does so at once.  Only when
\* appearance.json could not be read may the next one build on the defaults.
Changed(q, v) == Normalize(Named(q, v))

\* The request that may still be saved.
Asked == {proc[h].req : h \in {g \in Handler : proc[g].pc \in {"create", "write", "rename"}}}

Promise == INSTANCE Settings
             WITH value <- Parsed, asked <- Asked, unsure <- misread,
                  raced <- overlaps > 0, Value <- Saved
OneRecord == Promise!Spec

=============================================================================
