----------------------------- MODULE FrontendDir -----------------------------
(***************************************************************************)
(* The frontend directory at start (frontend/frontend.go): installed from  *)
(* the latest release when empty, and cleared, downloaded and unpacked     *)
(* again when an update check finds another release.  Every statement that *)
(* touches the directory or the network is an action; each can fail, and   *)
(* the process can end before it.                                          *)
(*                                                                         *)
(* The directory is its version file, the files of one release (all of     *)
(* them or some of them) and the downloaded archive.                       *)
(***************************************************************************)
EXTENDS Integers

CONSTANTS
  MaxRelease    \* bound: releases published while the model runs

ASSUME ReleasesExist == MaxRelease \in Nat \ {0}

VARIABLES
  dir,      \* [version, files, zip], which outlive the process
  latest,   \* external: the release GitHub calls the latest
  web       \* InitializeWeb in progress: [step, mode, target], and its outcome

frontendVars == <<dir, latest, web>>

NoVersion  == 0     \* no version file
Unreadable == -1    \* a version file cut short
NoFiles    == [of |-> 0, whole |-> FALSE]

Empty == dir.version = NoVersion /\ dir.files = NoFiles /\ ~dir.zip

\* getCurrentVersion: a missing or unreadable file counts as no version.
CurrentVersion == IF dir.version = Unreadable THEN NoVersion ELSE dir.version

WebIdle == [step |-> "off", mode |-> "none", target |-> 0, enabled |-> FALSE]

\* The call returns: without an error, or with one that only an update survives.
Returns    == web' = [web EXCEPT !.step = "off"]
WebFailed == web' = [web EXCEPT !.step = "off", !.enabled = (web.mode = "update")]

WebGoes(s) == web' = [web EXCEPT !.step = s]

-----------------------------------------------------------------------------

\* InitializeWeb: MkdirAll and ReadDir.
WebRead(checkUpdate) ==
  /\ web.step = "read"
  /\ IF Empty THEN web' = [web EXCEPT !.step = "release", !.mode = "install"]
     ELSE IF checkUpdate THEN web' = [web EXCEPT !.step = "release", !.mode = "update"]
     ELSE Returns
  /\ UNCHANGED <<dir, latest>>

\* Seeded bug: a version file that cannot be read stops the update.
WebRelease_strict ==
  /\ web.step = "release"
  /\ IF web.mode = "update" /\ dir.version \in {Unreadable, latest}
     THEN Returns
     ELSE web' = [web EXCEPT !.target = latest,
                             !.step = IF web.mode = "update" THEN "clear" ELSE "download"]
  /\ UNCHANGED <<dir, latest>>

\* getLatestRelease and findFrontendAsset; an update compares versions between.
WebRelease ==
  /\ web.step = "release"
  /\ IF web.mode = "update" /\ CurrentVersion = latest
     THEN Returns
     ELSE web' = [web EXCEPT !.target = latest,
                             !.step = IF web.mode = "update" THEN "clear" ELSE "download"]
  /\ UNCHANGED <<dir, latest>>

\* clearWebDir: entry by entry, all but the version file.
WebClear ==
  /\ web.step = "clear"
  /\ \/ dir.files # NoFiles /\ dir' = [dir EXCEPT !.files = NoFiles]
     \/ dir.zip /\ dir' = [dir EXCEPT !.zip = FALSE]
  /\ UNCHANGED <<latest, web>>

WebCleared ==
  /\ web.step = "clear" /\ dir.files = NoFiles /\ ~dir.zip
  /\ WebGoes("download")
  /\ UNCHANGED <<dir, latest>>

WebDownload ==
  /\ web.step = "download"
  /\ dir' = [dir EXCEPT !.zip = TRUE]
  /\ WebGoes("unzip")
  /\ UNCHANGED latest

\* Unzip writes the files one after another.
WebUnzip ==
  /\ web.step = "unzip"
  /\ dir' = [dir EXCEPT !.files = [of |-> web.target, whole |-> FALSE]]
  /\ WebGoes("unzipRest")
  /\ UNCHANGED latest

WebUnzipRest ==
  /\ web.step = "unzipRest"
  /\ dir' = [dir EXCEPT !.files.whole = TRUE]
  /\ WebGoes("remove")
  /\ UNCHANGED latest

\* The archive is removed; a failure is only logged.
WebRemove ==
  /\ web.step = "remove"
  /\ dir' = [dir EXCEPT !.zip = FALSE]
  /\ WebGoes("save")
  /\ UNCHANGED latest

WebSave ==
  /\ web.step = "save"
  /\ dir' = [dir EXCEPT !.version = web.target]
  /\ Returns
  /\ UNCHANGED latest

-----------------------------------------------------------------------------
(* Failing statements. *)

\* What a statement that failed, or was cut off by a crash, has left behind.
Torn ==
  CASE web.step = "clear"     -> {dir, [dir EXCEPT !.files.whole = FALSE]}
    [] web.step = "download"  -> {dir, [dir EXCEPT !.zip = TRUE]}
    [] web.step = "save"      -> {dir, [dir EXCEPT !.version = Unreadable]}
    [] OTHER                  -> {dir}

\* The archive is removed on the way out; that can fail as well.
Tidied(d) == IF web.step \in {"download", "unzip", "unzipRest"}
             THEN {d, [d EXCEPT !.zip = FALSE]} ELSE {d}

WebFails ==
  /\ web.step \in {"read", "release", "clear", "download", "unzip", "unzipRest"}
  /\ \E d \in Torn : dir' \in Tidied(d)
  /\ WebFailed
  /\ UNCHANGED latest

\* Removing the archive and saving the version: a failure is logged.
WebWarns ==
  /\ web.step \in {"remove", "save"}
  /\ dir' \in Torn
  /\ IF web.step = "remove" THEN WebGoes("save") ELSE Returns
  /\ UNCHANGED latest

\* External: a release is published.
Publish ==
  /\ latest < MaxRelease
  /\ latest' = latest + 1
  /\ UNCHANGED <<dir, web>>

InstallOrUpdate ==
  \/ WebRelease \/ WebClear \/ WebCleared \/ WebDownload
  \/ WebUnzip \/ WebUnzipRest \/ WebRemove \/ WebSave

FrontendInit ==
  /\ dir = [version |-> NoVersion, files |-> NoFiles, zip |-> FALSE]
  /\ latest = 1
  /\ web = WebIdle
=============================================================================
