--------------------------- MODULE TunnelSoftware ---------------------------
(***************************************************************************)
(* The programs frpc and cloudflared (tunnel/software.rs, download.rs, and *)
(* the parts of frp/client.rs and cloudflare.rs that find, download and    *)
(* unpack them).  frpc comes in an archive that is kept; cloudflared is    *)
(* written in place and then asked for its version.  A write may stop in   *)
(* the middle: an error, or the end of the application.  Nothing keeps two *)
(* installations of one program apart: the user, the launch and a tunnel   *)
(* that starts each begin one, and each writes the same file.              *)
(***************************************************************************)
EXTENDS Naturals

CONSTANT Installer    \* the installations that may run at once

VARIABLES bin,      \* [Kind -> the file in the cache directory]
          archive,  \* the downloaded archive of frpc
          marker,   \* cloudflared.version names the wanted version
          system,   \* the kinds that a package manager installed
          job       \* [Installer -> the installation it runs, or its answer]

vars == <<bin, archive, marker, system, job>>

Kind == {"frpc", "cloudflared"}
File == {"absent", "broken", "old", "whole"}

\* An error leaves "none"; "found" is the answer of ensure_frpc where it found
\* a program.  `crossed`: another installation created the file anew, or it was
\* uninstalled, after this one had created it.
Answers == {"none", "ok", "found"}
Writing == {"fill", "verify", "mark"}
Jobs == [kind : Kind, pc : {"fetch", "unpack"} \cup Writing \cup Answers, crossed : BOOLEAN]
NoJob == [kind |-> "frpc", pc |-> "none", crossed |-> FALSE]

\* A cloudflared of an earlier release may be there, from before versions
\* were recorded.
Init == /\ bin = [k \in Kind |-> IF k = "frpc" THEN "absent" ELSE "old"]
        /\ archive = "absent"
        /\ marker = FALSE
        /\ system = {}
        /\ job = [j \in Installer |-> NoJob]

-----------------------------------------------------------------------------
Present(k) == bin[k] # "absent"

\* resolve_frpc looks beside the application and in the system first;
\* resolve_cloudflared as well.  Only the file of the cache can be broken.
Found(k) == k \in system \/ Present(k)

\* frpc_status, cloudflared_status: the copy in the cache is shown first.
Status(k) == [installed |-> Found(k), managed |-> Present(k)]

At(j, pc) == job[j].pc = pc
Goto(j, pc) == job' = [job EXCEPT ![j].pc = pc]
Fail(j) == job' = [job EXCEPT ![j] = NoJob]
Open(j) == job[j].pc \notin Answers

\* The file of a kind is not what the other installations left there.
Cross(k, i) == IF job[i].kind = k /\ job[i].pc \in Writing \cup {"ok"}
               THEN [job[i] EXCEPT !.crossed = TRUE] ELSE job[i]

\* install_software.  The archive of an earlier download is used again,
\* whatever is in it.
Install(j, k) ==
    /\ ~Open(j)
    /\ job' = [job EXCEPT ![j] = [kind |-> k, crossed |-> FALSE,
                                  pc |-> IF k = "frpc" /\ archive # "absent" THEN "unpack"
                                                                             ELSE "fetch"]]
    /\ UNCHANGED <<bin, archive, marker, system>>

\* ensure_frpc, when a tunnel starts: any file is good enough.
Ensure(j) ==
    \/ /\ ~Open(j) /\ Found("frpc")
       /\ job' = [job EXCEPT ![j] = [NoJob EXCEPT !.pc = "found"]]
       /\ UNCHANGED <<bin, archive, marker, system>>
    \/ ~Found("frpc") /\ Install(j, "frpc")

\* managed_cloudflared_update_needed
UpdateNeeded == Present("cloudflared") /\ ~marker

\* start_background_once, at launch: what is missing or was never marked.
Startup(j, k) == /\ ~Status(k).installed \/ (k = "cloudflared" /\ UpdateNeeded)
                 /\ Install(j, k)

\* download_release_asset: the mirror, then the original address.  frpc's
\* archive is written whole before it is opened.
Fetch(j) ==
    /\ At(j, "fetch")
    /\ \/ Fail(j) /\ UNCHANGED archive
       \/ job[j].kind = "frpc" /\ archive' = "broken" /\ Fail(j)
       \/ archive' = (IF job[j].kind = "frpc" THEN "whole" ELSE archive) /\ Goto(j, "unpack")
    /\ UNCHANGED <<bin, marker, system>>

\* File::create empties the file, also under an installation that fills it.
\* It fails where the program runs, or where the archive is gone or unreadable.
Unpack(j) ==
    /\ At(j, "unpack")
    /\ \/ Fail(j) /\ UNCHANGED bin
       \/ /\ job[j].kind = "frpc" => archive # "absent"
          /\ bin' = [bin EXCEPT ![job[j].kind] = "broken"]
          /\ job' = [i \in Installer |->
                       IF i # j THEN Cross(job[j].kind, i)
                       ELSE IF job[j].kind = "frpc" /\ archive = "broken" THEN NoJob
                       ELSE [job[j] EXCEPT !.pc = "fill"]]
    /\ UNCHANGED <<archive, marker, system>>

\* What an address answered in place of cloudflared is written all the same.
Sent(k) == IF k = "frpc" THEN {"whole"} ELSE {"whole", "old", "broken"}

\* The bytes are written.  After another creation they complete nothing: the
\* file is what the other makes of it.  That there is a file is looked at.
Fill(j) ==
    /\ At(j, "fill")
    /\ \/ Fail(j) /\ UNCHANGED bin
       \/ \E f \in Sent(job[j].kind) :
            /\ bin' = [bin EXCEPT ![job[j].kind] = IF job[j].crossed THEN @ ELSE f]
            /\ IF bin'[job[j].kind] = "absent" THEN Fail(j)
               ELSE Goto(j, IF job[j].kind = "frpc" THEN "ok" ELSE "verify")
    /\ UNCHANGED <<archive, marker, system>>

\* Mutant of Verify: that the program runs is enough.
VerifyRuns(j) ==
    /\ At(j, "verify")
    /\ IF bin["cloudflared"] \in {"whole", "old"} THEN Goto(j, "mark") ELSE Fail(j)
    /\ UNCHANGED <<bin, archive, marker, system>>

\* verify_downloaded_cloudflared; what fails is left in place.
Verify(j) ==
    /\ At(j, "verify")
    /\ IF bin["cloudflared"] = "whole" THEN Goto(j, "mark") ELSE Fail(j)
    /\ UNCHANGED <<bin, archive, marker, system>>

Mark(j) ==
    /\ At(j, "mark")
    /\ \/ marker' = TRUE /\ Goto(j, "ok")
       \/ marker' \in {marker, FALSE} /\ Fail(j)
    /\ UNCHANGED <<bin, archive, system>>

\* uninstall_software: only a file of the cache, and frpc's archives with it
\* if they can be removed.  The marker of cloudflared stays.  Nothing keeps it
\* apart from an installation that is under way.
Uninstall(k) ==
    /\ Present(k)
    /\ bin' = [bin EXCEPT ![k] = "absent"]
    /\ archive' \in IF k = "frpc" THEN {archive, "absent"} ELSE {archive}
    /\ job' = [i \in Installer |-> Cross(k, i)]
    /\ UNCHANGED <<marker, system>>

\* The application ends in the middle: what was written stays.
Crash ==
    /\ archive' \in IF \E j \in Installer : At(j, "fetch") /\ job[j].kind = "frpc"
                    THEN {archive, "broken"} ELSE {archive}
    /\ job' = [j \in Installer |-> NoJob]
    /\ UNCHANGED <<bin, marker, system>>

SystemInstall(k) ==
    /\ system' = (system \cup {k}) \ (system \cap {k})
    /\ UNCHANGED <<bin, archive, marker, job>>

Step(j) == Fetch(j) \/ Unpack(j) \/ Fill(j) \/ Verify(j) \/ Mark(j)

Next == \/ \E j \in Installer : \/ Step(j) \/ Ensure(j)
                                \/ \E k \in Kind : Install(j, k) \/ Startup(j, k)
        \/ \E k \in Kind : Uninstall(k) \/ SystemInstall(k)
        \/ Crash

Spec == Init /\ [][Next]_vars

-----------------------------------------------------------------------------
TypeOK == /\ bin \in [Kind -> File]
          /\ archive \in {"absent", "broken", "whole"}
          /\ marker \in BOOLEAN
          /\ system \subseteq Kind
          /\ job \in [Installer -> Jobs]

\* An installation that reports success left a program that is whole and of
\* the version the application wants, until another one writes the file or it
\* is uninstalled: neither a write that stopped, nor an archive from an earlier
\* attempt, nor what a mirror sent instead passes.  It speaks of "ok": a tunnel
\* that finds a file ("found") has not looked into it.
OkMeansWhole == \A j \in Installer : At(j, "ok") /\ ~job[j].crossed => bin[job[j].kind] = "whole"
=============================================================================
