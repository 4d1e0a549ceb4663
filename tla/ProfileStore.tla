---------------------------- MODULE ProfileStore ----------------------------
(***************************************************************************)
(* The profiles of the app: the rows of the database (ProfileDao), the     *)
(* configuration files beside them (ProfilePathResolver) and the           *)
(* operations of ProfileRepositoryImpl as the notifiers call them.  An     *)
(* operation is a chain of awaits, so operations on one profile or on      *)
(* several interleave; a database transaction is one step.                 *)
(*                                                                         *)
(* The repository validates through the SingboxService interface.  Of its  *)
(* two kinds of implementation in the source, "singbox" is the native one  *)
(* (FFI and platform channel), which reads the temporary file and saves    *)
(* the profile's file, and "clash" is ClashAdapterService, which the       *)
(* provider returns.                                                       *)
(***************************************************************************)
EXTENDS Naturals

CONSTANTS Ops,        \* the operations that ever run
          Ids,        \* profile ids, those of new profiles included
          Urls,       \* subscription urls
          Contains,   \* <<u, v>>: is url u a part of url v (LIKE '%u%')?
          Contents,   \* what a download or an editor may hold
          Valid,      \* the contents that pass validation
          Converted,  \* a stored configuration in the Clash format
          Services,   \* the kinds of SingboxService to check
          None

ASSUME ContentsAssumption == /\ Valid \subseteq Contents
                             /\ None \notin Contents \cup {Converted} \cup Urls
                             /\ None \notin [active : BOOLEAN,
                                             url : Urls \cup {None}]
ASSUME ContainsAssumption == \A u \in Urls : <<u, u>> \in Contains
ASSUME ServicesAssumption == Services \subseteq {"singbox", "clash"}

VARIABLES rows,     \* the profile table: [active, url], or None for no row
          file,     \* the stored configuration of a profile, or None
          temp,     \* its temporary file, or None
          kind,     \* kind[o]: what operation o is
          target,   \* target[o]: the profile it works on
          base,     \* base[o]: the entity it was called with
          content,  \* content[o]: what it has downloaded or was given
          pc,       \* pc[o]: the await it is at
          ok,       \* ok[o]: has every step so far succeeded?
          adding,   \* the operation AddProfile shows as loading, or None
          service,  \* the SingboxService that validates
          deletedActive, \* was the last active profile deleted? (history)
          overlapped,    \* has an operation met another one? (history)
          killed         \* has the app been killed once?

disk == <<rows, file, temp>>
request == <<kind, target, base>>
setup == <<service, overlapped, killed>>
history == <<deletedActive, setup>>
vars == <<disk, request, content, pc, ok, adding, history>>

Row == [active : BOOLEAN, url : Urls \cup {None}]
FetchKinds == {"addByUrl", "add", "update", "saveUrl"}
InsertKinds == {"addByUrl", "add", "addByContent"}
Kinds == FetchKinds \cup {"addByContent", "patch", "content", "select", "delete"}
Places == {"idle", "lookup", "download", "headers", "content", "validate",
           "convert", "clean", "commit", "deleteRow", "deleteFile", "done"}

TypeOK == /\ rows \in [Ids -> Row \cup {None}]
          /\ file \in [Ids -> Contents \cup {None}]
          /\ temp \in [Ids -> Contents \cup {Converted, None}]
          /\ kind \in [Ops -> Kinds \cup {None}]
          /\ target \in [Ops -> Ids \cup {None}]
          /\ base \in [Ops -> Row \cup {None}]
          /\ content \in [Ops -> Contents \cup {None}]
          /\ pc \in [Ops -> Places]
          /\ ok \in [Ops -> BOOLEAN]
          /\ adding \in Ops \cup {None}
          /\ service \in Services
          /\ deletedActive \in BOOLEAN
          /\ overlapped \in BOOLEAN
          /\ killed \in BOOLEAN

Exists(i) == rows[i] # None
Actives == {i \in Ids : Exists(i) /\ rows[i].active}

\* A store an earlier run left: every row has a valid file, and unless there
\* is no row one of them is active.
Init == /\ rows \in [Ids -> Row \cup {None}]
        /\ \A i, j \in Actives : i = j
        /\ (\E i \in Ids : Exists(i)) => Actives # {}
        /\ file \in [Ids -> Valid \cup {None}]
        /\ \A i \in Ids : Exists(i) <=> file[i] # None
        /\ temp = [i \in Ids |-> None]
        /\ kind = [o \in Ops |-> None]
        /\ target = [o \in Ops |-> None]
        /\ base = [o \in Ops |-> None]
        /\ content = [o \in Ops |-> None]
        /\ pc = [o \in Ops |-> "idle"]
        /\ ok = [o \in Ops |-> TRUE]
        /\ adding = None
        /\ service \in Services
        /\ deletedActive = FALSE
        /\ overlapped = FALSE
        /\ killed = FALSE

-----------------------------------------------------------------------------
(* The database.                                                           *)

\* Mutant: the transaction does not clear the flag of the other rows.
KeepActive(active) == rows

\* The table as an insert or an edit that sets the flag sees it.
Cleared(active) ==
  [i \in Ids |-> IF Exists(i) /\ active THEN [rows[i] EXCEPT !.active = FALSE]
                                        ELSE rows[i]]

Insert(i, row) == rows' = [Cleared(row.active) EXCEPT ![i] = row]

\* Mutant: edit inserts the row when it does not exist.
Upsert(i, row) == rows' = [Cleared(row.active) EXCEPT ![i] = row]

\* UPDATE ... WHERE id = i, which touches no row if i has been deleted.
Edit(i, row) ==
  rows' = [Cleared(row.active) EXCEPT ![i] = IF Exists(i) THEN row ELSE None]

\* deletedActive is reset by whatever makes a row active.
Activates(i) == deletedActive' = (deletedActive /\ ~rows'[i].active)

-----------------------------------------------------------------------------
(* Starting an operation.                                                  *)

Quiet == \A o \in Ops : pc[o] \in {"idle", "done"}
Goto(o, p) == pc' = [pc EXCEPT ![o] = p]

Begin(o, k, i, row, p) == /\ pc[o] = "idle"
                          /\ overlapped' = (overlapped \/ ~Quiet)
                          /\ kind' = [kind EXCEPT ![o] = k]
                          /\ target' = [target EXCEPT ![o] = i]
                          /\ base' = [base EXCEPT ![o] = row]
                          /\ Goto(o, p)
                          /\ UNCHANGED <<deletedActive, service, killed>>

\* A Uuid().v4() nobody has used.
Fresh(i) == /\ ~Exists(i) /\ file[i] = None /\ temp[i] = None
            /\ \A o \in Ops : target[o] # i

\* AddProfile.add: the flag is read before the profiles are looked up.  The
\* deletion of an earlier "Hiddify WARP", which nobody awaits, is a BeginDelete
\* beside the addition.
Adding(o) == /\ adding = None
             /\ adding' = o
             /\ \E mark \in BOOLEAN, u \in Urls \cup {None} :
                  /\ Actives = {} => mark
                  /\ Begin(o, IF u = None THEN "addByContent" ELSE "addByUrl",
                           None, [active |-> mark, url |-> u], "lookup")
             /\ UNCHANGED <<disk, content, ok>>

\* addByUrl updates a profile whose url contains the new one, with the flag
\* that profile has; a new profile gets an id of its own.
Lookup(o) ==
  LET known == {i \in Ids : /\ Exists(i) /\ rows[i].url # None
                            /\ <<base[o].url, rows[i].url>> \in Contains}
  IN /\ pc[o] = "lookup"
     /\ \/ /\ kind[o] = "addByUrl" /\ known # {}
           /\ kind' = [kind EXCEPT ![o] = "update"]
           /\ \E i \in known :
                /\ target' = [target EXCEPT ![o] = i]
                /\ base' = [base EXCEPT ![o] =
                     [active |-> base[o].active \/ rows[i].active,
                      url |-> rows[i].url]]
           /\ Goto(o, "download")
        \/ /\ kind[o] = "addByUrl" => known = {}
           /\ \E i \in Ids : Fresh(i) /\ target' = [target EXCEPT ![o] = i]
           /\ Goto(o, IF kind[o] = "addByUrl" THEN "download" ELSE "content")
           /\ UNCHANGED <<kind, base>>
     /\ UNCHANGED <<disk, content, ok, adding, history>>

\* The cancel button of the add dialog disposes the notifier: the download is
\* cancelled, a step after it is not.
CancelAdd(o) == /\ adding = o
                /\ adding' = None
                /\ IF pc[o] = "download"
                   THEN Goto(o, "clean") /\ ok' = [ok EXCEPT ![o] = FALSE]
                   ELSE UNCHANGED <<pc, ok>>
                /\ UNCHANGED <<disk, request, content, history>>

\* ProfileDetailsNotifier.save of a new profile: no lookup, always active.
BeginAddNew(o) == /\ \E i \in Ids, u \in Urls :
                       /\ Fresh(i)
                       /\ Begin(o, "add", i, [active |-> TRUE, url |-> u],
                                "download")
                  /\ UNCHANGED <<disk, content, ok, adding>>

\* updateSubscription of the entity the caller holds: UpdateProfile, the
\* details page or the periodic updater.
BeginUpdate(o) == /\ \E i \in Ids :
                       /\ Exists(i) /\ rows[i].url # None
                       /\ Begin(o, "update", i, rows[i], "download")
                  /\ UNCHANGED <<disk, content, ok, adding>>

\* save of an existing profile: patch, or updateSubscription if the url has
\* been edited; updateContent follows either.
BeginSave(o) == /\ \E i \in Ids :
                     /\ Exists(i)
                     /\ \/ Begin(o, "patch", i, rows[i], "commit")
                        \/ /\ rows[i].url # None
                           /\ \E u \in Urls \ {rows[i].url} :
                                Begin(o, "saveUrl", i,
                                      [rows[i] EXCEPT !.url = u], "download")
                /\ UNCHANGED <<disk, content, ok, adding>>

BeginSelect(o) == /\ \E i \in Ids :
                       /\ Exists(i)
                       /\ Begin(o, "select", i, rows[i], "commit")
                  /\ UNCHANGED <<disk, content, ok, adding>>

BeginDelete(o) == /\ \E i \in Ids :
                       Exists(i) /\ Begin(o, "delete", i, rows[i], "deleteRow")
                  /\ UNCHANGED <<disk, content, ok, adding>>

-----------------------------------------------------------------------------
(* fetch and updateContent.                                                *)

\* Something on the way throws or returns left, and the finally block runs.
Fail(o) == /\ pc[o] \in {"download", "content", "headers", "validate", "convert"}
           /\ ok' = [ok EXCEPT ![o] = FALSE]
           /\ Goto(o, "clean")
           /\ UNCHANGED <<disk, request, content, adding, history>>

\* download saves the response, writeAsString the content of the editor.
WriteTemp(o) ==
  /\ pc[o] \in {"download", "content"}
  /\ \E v \in Contents : /\ temp' = [temp EXCEPT ![target[o]] = v]
                         /\ content' = [content EXCEPT ![o] = v]
  /\ Goto(o, IF pc[o] = "download" THEN "headers" ELSE "validate")
  /\ UNCHANGED <<rows, file, request, ok, adding, history>>

\* _populateHeaders reads the temporary file if the response lacks headers.
ReadHeaders(o) == /\ pc[o] = "headers"
                  /\ Goto(o, "validate")
                  /\ UNCHANGED <<disk, request, content, ok, adding, history>>

\* Mutant: the native side validates and does not save.
ValidateOnly(o) == /\ service = "singbox"
                   /\ pc[o] = "validate"
                   /\ temp[target[o]] \in Valid
                   /\ Goto(o, "clean")
                   /\ UNCHANGED <<disk, request, content, ok, adding, history>>

\* The native parse reads tempPath and saves what is valid to path.
ValidateNative(o) == /\ service = "singbox"
                     /\ pc[o] = "validate"
                     /\ temp[target[o]] \in Valid
                     /\ file' = [file EXCEPT ![target[o]] = temp[target[o]]]
                     /\ Goto(o, "clean")
                     /\ UNCHANGED <<rows, temp, request, content, ok, adding,
                                    history>>

\* Mutant: ClashAdapterService reads tempPath.
ReadTemp(o) == /\ service = "clash"
               /\ pc[o] = "validate"
               /\ temp[target[o]] # None
               /\ Goto(o, "convert")
               /\ UNCHANGED <<disk, request, content, ok, adding, history>>

\* ClashAdapterService reads path, ...
ReadStored(o) == /\ service = "clash"
                 /\ pc[o] = "validate"
                 /\ file[target[o]] # None
                 /\ Goto(o, "convert")
                 /\ UNCHANGED <<disk, request, content, ok, adding, history>>

\* ... converts and validates that, and writes the result to tempPath.
Convert(o) == /\ pc[o] = "convert"
              /\ temp' = [temp EXCEPT ![target[o]] = Converted]
              /\ Goto(o, "clean")
              /\ UNCHANGED <<rows, file, request, content, ok, adding, history>>

\* AddProfile is no longer loading once its own operation has ended.
Ended(o) == adding' = IF adding = o THEN None ELSE adding

\* Mutant: the temporary file is only removed after a success.
CleanIfOk(o) ==
  /\ pc[o] = "clean"
  /\ temp' = [temp EXCEPT ![target[o]] = IF ok[o] THEN None ELSE temp[target[o]]]
  /\ Goto(o, "done")
  /\ Ended(o)
  /\ UNCHANGED <<rows, file, request, content, ok, history>>

\* The finally block, then the commit or the end of the operation.
Clean(o) ==
  /\ pc[o] = "clean"
  /\ temp' = [temp EXCEPT ![target[o]] = None]
  /\ \/ /\ ok[o] /\ kind[o] # "content"
        /\ Goto(o, "commit")
        /\ UNCHANGED adding
     \/ /\ ~ok[o] \/ kind[o] = "content"
        /\ Goto(o, "done")
        /\ Ended(o)
  /\ UNCHANGED <<rows, file, request, content, ok, history>>

-----------------------------------------------------------------------------
(* The end of an operation.                                                *)

CommitInsert(o) == /\ pc[o] = "commit" /\ kind[o] \in InsertKinds
                   /\ Insert(target[o], base[o])
                   /\ Activates(target[o])
                   /\ Goto(o, "done")
                   /\ Ended(o)
                   /\ UNCHANGED <<file, temp, request, content, ok, setup>>

\* Mutant: the patch of updateSubscription leaves active to its default.
CommitInactive(o) ==
  /\ pc[o] = "commit" /\ kind[o] = "update"
  /\ Edit(target[o], [active |-> FALSE, url |-> base[o].url])
  /\ Goto(o, "done")
  /\ Ended(o)
  /\ UNCHANGED <<file, temp, request, content, ok, history>>

\* updateSubscription writes the flag of the entity it was called with, and
\* leaves the url unless patchBaseProfile.
CommitUpdate(o) ==
  LET i == target[o] IN
  /\ pc[o] = "commit" /\ kind[o] = "update"
  /\ Edit(i, [active |-> base[o].active,
              url |-> IF Exists(i) THEN rows[i].url ELSE None])
  /\ deletedActive' = (deletedActive /\ ~(Exists(i) /\ base[o].active))
  /\ Goto(o, "done")
  /\ Ended(o)
  /\ UNCHANGED <<file, temp, request, content, ok, setup>>

\* patch writes every field; the editor's content comes next.
CommitSave(o) ==
  LET i == target[o] IN
  /\ pc[o] = "commit" /\ kind[o] \in {"patch", "saveUrl"}
  /\ Edit(i, base[o])
  /\ deletedActive' = (deletedActive /\ ~(Exists(i) /\ base[o].active))
  /\ kind' = [kind EXCEPT ![o] = "content"]
  /\ Goto(o, "content")
  /\ UNCHANGED <<file, temp, target, base, content, ok, adding, setup>>

CommitSelect(o) ==
  LET i == target[o] IN
  /\ pc[o] = "commit" /\ kind[o] = "select"
  /\ Edit(i, [active |-> TRUE, url |-> IF Exists(i) THEN rows[i].url ELSE None])
  /\ deletedActive' = (deletedActive /\ ~Exists(i))
  /\ Goto(o, "done")
  /\ UNCHANGED <<file, temp, request, content, ok, adding, setup>>

\* Mutant: the file goes before the row.
DeleteFileFirst(o) == /\ pc[o] = "deleteRow"
                      /\ file' = [file EXCEPT ![target[o]] = None]
                      /\ Goto(o, "deleteFile")
                      /\ UNCHANGED <<rows, temp, request, content, ok, adding,
                                     history>>

DeleteRow(o) ==
  LET i == target[o] IN
  /\ pc[o] = "deleteRow"
  /\ rows' = [rows EXCEPT ![i] = None]
  /\ deletedActive' = (deletedActive \/ i \in Actives)
  /\ Goto(o, "deleteFile")
  /\ UNCHANGED <<file, temp, request, content, ok, adding, setup>>

\* delete() of a file that is gone throws: the caller sees a failure.
DeleteFile(o) == /\ pc[o] = "deleteFile"
                 /\ ok' = [ok EXCEPT ![o] = file[target[o]] # None]
                 /\ file' = [file EXCEPT ![target[o]] = None]
                 /\ Goto(o, "done")
                 /\ UNCHANGED <<rows, temp, request, content, adding, history>>

\* The system kills the app: database and files stay.
Kill == /\ ~killed
        /\ killed' = TRUE
        /\ pc' = [o \in Ops |-> IF pc[o] = "idle" THEN "idle" ELSE "done"]
        /\ adding' = None
        /\ UNCHANGED <<disk, request, content, ok, service, deletedActive,
                       overlapped>>

Step(o) == \/ Adding(o) \/ Lookup(o) \/ CancelAdd(o) \/ BeginAddNew(o)
           \/ BeginUpdate(o) \/ BeginSave(o) \/ BeginSelect(o) \/ BeginDelete(o)
           \/ Fail(o) \/ WriteTemp(o) \/ ReadHeaders(o) \/ ValidateNative(o)
           \/ ReadStored(o) \/ Convert(o) \/ Clean(o) \/ CommitInsert(o)
           \/ CommitUpdate(o) \/ CommitSave(o) \/ CommitSelect(o)
           \/ DeleteRow(o) \/ DeleteFile(o)

Next == Kill \/ \E o \in Ops : Step(o)

Spec == Init /\ [][Next]_vars

-----------------------------------------------------------------------------
(* Properties                                                              *)

\* Whatever stale flags the operations write, never are two profiles active.
AtMostOneActive == \A i, j \in Actives : i = j

\* A profile in the table has its configuration file, in every interleaving
\* of updates, edits and deletions and across a kill: connect finds it.
RowHasFile == \A i \in Ids : Exists(i) => file[i] # None

\* However operations on one profile share its temporary file, none is left
\* when they have ended, failed or been cancelled, short of a kill.
NoTempLeft ==
  \A i \in Ids : temp[i] # None => \/ killed
                                   \/ \E o \in Ops : /\ target[o] = i
                                                     /\ pc[o] # "done"

\* An operation that was running on a profile when it was deleted does not
\* bring it back: only an insert makes a row, and of an id never used before.
NoResurrection ==
  [][\A i \in Ids : ~Exists(i) /\ rows'[i] # None =>
       \E o \in Ops : /\ target[o] = i /\ kind[o] \in InsertKinds
                      /\ \A p \in Ops \ {o} : target[p] # i]_vars

\* As long as operations wait for each other, a store that has lost its active
\* profile has lost it to a deletion: no update, edit or addition does that.
ActiveUnlessDeleted ==
  ~overlapped /\ Quiet /\ Actives = {}
    => deletedActive \/ \A i \in Ids : ~Exists(i)

\* As long as operations wait for each other, what has been validated is what
\* the profile's file holds: path "is used to save validated config"
\* (singbox_service.dart).
ValidatedIsSaved ==
  \A o \in Ops :
    /\ ~overlapped
    /\ pc[o] \in {"clean", "commit"} /\ ok[o]
    /\ content[o] # None
    => file[target[o]] = content[o]

\* The native services do keep that.
NativeSaves == service = "singbox" => ValidatedIsSaved

\* ClashAdapterService validates the file a profile has already, and a new
\* profile has none: with it no way of adding a profile ever adds one.
NothingAdded ==
  [][service = "clash" => \A i \in Ids : ~Exists(i) => rows'[i] = None]_vars
==============================================================================
