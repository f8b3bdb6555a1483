------------------------------ MODULE ClientJar ------------------------------
(***************************************************************************)
(* environment/clientjar.go: the mode listener that downloads slave.jar    *)
(* before every start of the client, when Jenkins has a newer one. The     *)
(* launcher may crash between any two steps and is then started again.     *)
(*                                                                         *)
(* Times are the seconds of HTTP dates; the clocks of this machine and of  *)
(* Jenkins agree. A positive file content is a whole version, a negative   *)
(* one a part of it, and 0 means that there is no such file.               *)
(***************************************************************************)
EXTENDS Integers, Sequences

CONSTANTS
    MaxTime,      \* bound: when the clock stops
    MaxVersions,  \* bound: how many versions Jenkins publishes
    Zone          \* how far local time is ahead of UTC

ASSUME JarAssumption == MaxTime \in Nat /\ MaxVersions \in Nat /\ Zone \in Int

VARIABLES
    downloader,  \* where the listener is; "done": it returned and the client starts
    jar,         \* the content of slave.jar
    jarTime,     \* its modification time
    temp,        \* the content of ~slave.jar.download
    tempTime,    \* when it was last written
    since,       \* If-Modified-Since of the request, NoTime without this header
    source,      \* the version that response.Body delivers
    sourceTime,  \* downloadJar: sourceTime
    now,         \* the clock
    published,   \* Jenkins: when each version was published
    failed,      \* history: the last call of downloadJar returned an error
    checked,     \* history: when Jenkins answered the last request
    completed    \* history: when slave.jar was last written

request == <<since, source, sourceTime>>
files == <<jar, jarTime, temp, tempTime, completed>>
jenkins == <<now, published>>
jarVars == <<downloader, files, request, jenkins, failed, checked>>

NoTime == Zone - 1  \* earlier than any time of a jar
Latest == Len(published)

JarTypeOK ==
    /\ downloader \in {"idle", "requesting", "creating", "copying", "removing", "renaming",
                       "dating", "opening", "done", "down"}
    /\ jar \in Int /\ temp \in Int
    /\ jarTime \in Nat /\ tempTime \in Nat /\ completed \in Nat /\ checked \in Nat
    /\ since \in Int /\ source \in Nat /\ sourceTime \in Nat
    /\ now \in Nat
    /\ published \in Seq(Nat)
    /\ failed \in BOOLEAN

JarInit ==
    /\ downloader = "idle"
    /\ jar = 0 /\ temp = 0
    /\ jarTime = 0 /\ tempTime = 0 /\ completed = 0 /\ checked = 0
    /\ since = NoTime /\ source = 0 /\ sourceTime = 0
    /\ now = 0 /\ published = <<0>>
    /\ failed = FALSE

-----------------------------------------------------------------------------
(* downloadJar.                                                            *)

DownloaderAt(from, to) == downloader = from /\ downloader' = to

(* The local variables of a call that is over.                             *)
Forgets == since' = NoTime /\ source' = 0 /\ sourceTime' = 0

(* Whatever goes wrong, the listener then looks for a jar to start with.   *)
DownloadFails(from) ==
    /\ DownloaderAt(from, "opening")
    /\ failed' = TRUE
    /\ Forgets

(* Mutant: asks for what changed since now, not since the local copy.      *)
AsksForNewer ==
    /\ downloader \in {"idle", "done"}
    /\ downloader' = "requesting"
    /\ since' = IF jar # 0 THEN now + Zone ELSE NoTime
    /\ sourceTime' = now
    /\ failed' = FALSE
    /\ UNCHANGED <<files, source, jenkins, checked>>

(* http.TimeFormat ends in a literal "GMT", but the time is a local one.   *)
Asks ==
    /\ downloader \in {"idle", "done"}
    /\ downloader' = "requesting"
    /\ since' = IF jar # 0 THEN jarTime + Zone ELSE NoTime
    /\ sourceTime' = now
    /\ failed' = FALSE
    /\ UNCHANGED <<files, source, jenkins, checked>>

IsUpToDate ==
    /\ DownloaderAt("requesting", "done")
    /\ since # NoTime /\ published[Latest] <= since
    /\ checked' = now
    /\ Forgets
    /\ UNCHANGED <<files, jenkins, failed>>

(* A server may send the jar all the same, and leave out Last-Modified.    *)
IsSent ==
    /\ DownloaderAt("requesting", "creating")
    /\ source' = Latest
    /\ sourceTime' \in {sourceTime, published[Latest]}
    /\ checked' = now
    /\ UNCHANGED <<files, since, jenkins, failed>>

IsRefused == DownloadFails("requesting") /\ UNCHANGED <<files, jenkins, checked>>

Creates ==
    /\ \/ DownloaderAt("creating", "copying") /\ temp' = -source /\ UNCHANGED <<request, failed>>
       \/ DownloadFails("creating") /\ UNCHANGED temp
    /\ UNCHANGED <<jar, jarTime, tempTime, completed, jenkins, checked>>

(* Mutant: a transfer that breaks off is taken for its end.                *)
CopiesAnyway ==
    /\ DownloaderAt("copying", "removing")
    /\ temp' \in {source, temp}
    /\ tempTime' = now
    /\ UNCHANGED <<jar, jarTime, completed, request, jenkins, failed, checked>>

Copies ==
    /\ \/ DownloaderAt("copying", "removing") /\ temp' = source /\ UNCHANGED <<request, failed>>
       \/ DownloadFails("copying") /\ UNCHANGED temp
    /\ tempTime' = now
    /\ UNCHANGED <<jar, jarTime, completed, jenkins, checked>>

(* A jar that another process keeps open may be impossible to remove.      *)
Removes ==
    /\ \/ DownloaderAt("removing", "renaming") /\ jar' = 0 /\ UNCHANGED <<request, failed>>
       \/ DownloadFails("removing") /\ jar # 0 /\ UNCHANGED jar
    /\ UNCHANGED <<jarTime, temp, tempTime, completed, jenkins, checked>>

Renames ==
    /\ \/ /\ DownloaderAt("renaming", "dating")
          /\ jar' = temp /\ temp' = 0
          /\ jarTime' = tempTime /\ completed' = tempTime
          /\ UNCHANGED <<request, failed>>
       \/ DownloadFails("renaming") /\ UNCHANGED <<jar, temp, jarTime, completed>>
    /\ UNCHANGED <<tempTime, jenkins, checked>>

(* The result of os.Chtimes is ignored.                                    *)
Dates ==
    /\ DownloaderAt("dating", "done")
    /\ jarTime' \in {sourceTime, jarTime}
    /\ Forgets
    /\ UNCHANGED <<jar, temp, tempTime, completed, jenkins, failed, checked>>

(* The listener after an error: without any jar it panics.                 *)
Opens ==
    /\ DownloaderAt("opening", IF jar = 0 THEN "down" ELSE "done")
    /\ UNCHANGED <<files, request, jenkins, failed, checked>>

DownloaderStep ==
    \/ Asks \/ IsUpToDate \/ IsSent \/ IsRefused \/ Creates \/ Copies \/ Removes
    \/ Renames \/ Dates \/ Opens

-----------------------------------------------------------------------------
(* Crashes, and Jenkins. *)

Crashes ==
    /\ downloader # "down"
    /\ downloader' = "down"
    /\ Forgets
    /\ UNCHANGED <<files, jenkins, failed, checked>>

IsStartedAgain ==
    /\ DownloaderAt("down", "idle")
    /\ UNCHANGED <<files, request, jenkins, failed, checked>>

Publishes ==
    /\ Len(published) < MaxVersions
    /\ now > published[Latest]
    /\ published' = Append(published, now)
    /\ UNCHANGED <<downloader, files, request, now, failed, checked>>

TimePasses ==
    /\ now < MaxTime
    /\ now' = now + 1
    /\ UNCHANGED <<downloader, files, request, published, failed, checked>>

JarNext == DownloaderStep \/ Crashes \/ IsStartedAgain \/ Publishes \/ TimePasses

JarSpec == JarInit /\ [][JarNext]_jarVars

-----------------------------------------------------------------------------
(* Whatever failed, and wherever an earlier start crashed, the client is   *)
(* started with a whole jar: where there is none after the old one was     *)
(* removed, the listener panics (clientjar.go:39-41, 93-100).              *)
ClientHasJar == downloader = "done" => jar > 0

(* "ensures that the latest Jenkins client (slave.jar) is downloaded before*)
(* the client mode starts" (clientjar.go:23-24): what was published before *)
(* Jenkins was asked is not missed, also when the time of the copy could   *)
(* not be set, was not sent, or the launcher crashed before setting it;    *)
(* except what came out while an earlier copy was on its way.              *)
PublishedIsStarted ==
    downloader = "done" /\ ~failed =>
        \A v \in DOMAIN published :
            published[v] < checked /\ (published[v] <= completed => checked < completed) =>
                v <= jar
=============================================================================
