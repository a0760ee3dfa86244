---------------------------- MODULE ProgramProofs ----------------------------
(***************************************************************************)
(* What the programs at the ends of a session keep, whatever they are      *)
(* configured with: ltsm_session_display leaves nothing behind, the client *)
(* runs with the options it was given, and the RDP connector shows its     *)
(* client what the display shows.                                          *)
(***************************************************************************)
EXTENDS DisplaySession, ClientApp, ConnectorRdp, ProofLemmas

-----------------------------------------------------------------------------
(* ltsm_session_display.  Until the loop of the bus has begun only the     *)
(* constructors have started something; from then on every command that    *)
(* runs is among the children until stop has waited for it.                *)
DsBegins == {"begin", "display", "waitx", "clear", "session", "waitbus", "start"}

DsHelpersKnown ==
    /\ \A p \in DsCommands : Running(p) => p \in dsChilds
    /\ Running("dialog") => dsBus = "dialog"
DsByPlace ==
    /\ dsMain \in DsBegins => dsBus = "none" /\ dsChilds = {}
    /\ dsMain \in {"dtor", "dtorkill", "dtorlock", "dtorchilds"} => dsBus = "left"
    /\ dsMain \in {"unwind", "exited"} => dsBus \in {"none", "left"} /\ dsChilds = {}
    /\ dsMain = "exited" => ~Running("xorg") /\ ~Running("sess")
DsOwnFile ==
    /\ dsMain \in {"session", "waitbus"} => dsFile # "old"
    /\ dsAddress # "old"
DsInv == DsTypeOK /\ DsHelpersKnown /\ DsByPlace /\ DsOwnFile

LEMMA DsInvGives == DsInv => DsLeavesClean
  BY DEF DsInv, DsLeavesClean, DsNothingLeft, DsOwnBus, DsHelpersKnown, DsByPlace, DsOwnFile, DsProcs

LEMMA DsInitEstablishes == ASSUME DsInit PROVE DsInv
  BY DEF DsInit, DsInv, DsTypeOK, DsHelpersKnown, DsByPlace, DsOwnFile, DsProcs, DsBegins, Running

LEMMA DsProcUpdates ==
  ASSUME dsProc \in [DsProcs -> {"none", "up", "termed", "ended"}], NEW p \in DsProcs
  PROVE  /\ DsStart(p) \in [DsProcs -> {"none", "up", "termed", "ended"}]
         /\ DsStart(p)[p] = "up"
         /\ \A q \in DsProcs \ {p} : DsStart(p)[q] = dsProc[q]
         /\ \A P : /\ DsTerm(P) \in [DsProcs -> {"none", "up", "termed", "ended"}]
                   /\ \A q \in DsProcs : DsTerm(P)[q] \in {"up", "termed"} => dsProc[q] \in {"up", "termed"}
  BY DEF DsStart, DsTerm

(* The constructors: none of them touches a command.                       *)
LEMMA DsConstructors ==
  ASSUME DsInv,
         \/ ReadXauthFile \/ StartX11Display \/ WaitX11DisplayStarting \/ ClearSessionDbusAddress
         \/ StartX11Session \/ WaitSessionDbusAddress \/ Start
  PROVE  DsInv'
  <1> USE DEF DsInv
  <1>1. /\ "xorg" \in DsProcs /\ "sess" \in DsProcs /\ "dialog" \in DsProcs /\ DsCommands \subseteq DsProcs
        /\ "xorg" \notin DsCommands /\ "sess" \notin DsCommands /\ "dialog" \notin DsCommands
    BY DsAssumption DEF DsProcs
  <1>2. dsProc \in [DsProcs -> {"none", "up", "termed", "ended"}]
    BY DEF DsTypeOK
  <1>3. CASE ReadXauthFile
    BY <1>3 DEF ReadXauthFile, DsTypeOK, DsHelpersKnown, DsByPlace, DsOwnFile, DsBegins, Running, dsLoopVars
  <1>4. CASE StartX11Display
    BY <1>1, <1>2, <1>4, DsProcUpdates
       DEF StartX11Display, DsTypeOK, DsHelpersKnown, DsByPlace, DsOwnFile, DsBegins, Running, dsLoopVars
  <1>5. CASE WaitX11DisplayStarting
    BY <1>5 DEF WaitX11DisplayStarting, DsTypeOK, DsHelpersKnown, DsByPlace, DsOwnFile, DsBegins, Running, dsLoopVars
  <1>6. CASE ClearSessionDbusAddress
    BY <1>6 DEF ClearSessionDbusAddress, DsTypeOK, DsHelpersKnown, DsByPlace, DsOwnFile, DsBegins, Running, dsLoopVars
  <1>7. CASE StartX11Session
    BY <1>1, <1>2, <1>7, DsProcUpdates
       DEF StartX11Session, DsTypeOK, DsHelpersKnown, DsByPlace, DsOwnFile, DsBegins, Running, dsLoopVars
  <1>8. CASE WaitSessionDbusAddress
    BY <1>8 DEF WaitSessionDbusAddress, DsTypeOK, DsHelpersKnown, DsByPlace, DsOwnFile, DsBegins, Running, dsLoopVars
  <1>9. CASE Start
    BY <1>9 DEF Start, DsTypeOK, DsHelpersKnown, DsByPlace, DsOwnFile, DsBegins, Running
  <1> QED  BY <1>3, <1>4, <1>5, <1>6, <1>7, <1>8, <1>9

(* The io_context of main, and the requests of the bus.                    *)
LEMMA DsRunning ==
  ASSUME DsInv,
         \/ TimerChildsAliveCheck \/ RemoveChildsEnded \/ SignalStop \/ PostedStop \/ RunReturns \/ JoinBus
         \/ RunSessionCommandAsync \/ RunSessionCommandSync \/ SyncReturns \/ ServiceShutdown \/ BusLoopEnds
  PROVE  DsInv'
  <1> USE DEF DsInv
  <1>1. /\ "xorg" \in DsProcs /\ "sess" \in DsProcs /\ "dialog" \in DsProcs /\ DsCommands \subseteq DsProcs
        /\ "xorg" \notin DsCommands /\ "sess" \notin DsCommands /\ "dialog" \notin DsCommands
    BY DsAssumption DEF DsProcs
  <1>2. dsProc \in [DsProcs -> {"none", "up", "termed", "ended"}]
    BY DEF DsTypeOK
  <1>3. CASE TimerChildsAliveCheck
    BY <1>3 DEF TimerChildsAliveCheck, DsTypeOK, DsHelpersKnown, DsByPlace, DsOwnFile, DsBegins, Running
  <1>4. CASE RemoveChildsEnded
    BY <1>4 DEF RemoveChildsEnded, DsTypeOK, DsHelpersKnown, DsByPlace, DsOwnFile, DsBegins, Running
  <1>5. CASE SignalStop
    BY <1>5 DEF SignalStop, DsTypeOK, DsHelpersKnown, DsByPlace, DsOwnFile, DsBegins, Running
  <1>6. CASE PostedStop
    BY <1>6 DEF PostedStop, DsTypeOK, DsHelpersKnown, DsByPlace, DsOwnFile, DsBegins, Running
  <1>7. CASE RunReturns
    BY <1>7 DEF RunReturns, DsTypeOK, DsHelpersKnown, DsByPlace, DsOwnFile, DsBegins, Running
  <1>8. CASE JoinBus
    BY <1>8 DEF JoinBus, DsTypeOK, DsHelpersKnown, DsByPlace, DsOwnFile, DsBegins, Running, dsLoopVars
  <1>9. CASE RunSessionCommandAsync
    <2>1. PICK p \in DsCommands : dsProc' = DsStart(p) /\ dsChilds' = dsChilds \cup {p}
      BY <1>9 DEF RunSessionCommandAsync
    <2>2. /\ dsBus = "loop" /\ dsBus' = dsBus /\ dsMain' = dsMain /\ dsLock' = dsLock
          /\ dsFile' = dsFile /\ dsAddress' = dsAddress
      BY <1>9 DEF RunSessionCommandAsync, BusFree
    <2> QED  BY <1>1, <1>2, <2>1, <2>2, DsProcUpdates
             DEF DsTypeOK, DsHelpersKnown, DsByPlace, DsOwnFile, DsBegins, Running
  <1>10. CASE RunSessionCommandSync
    BY <1>1, <1>2, <1>10, DsProcUpdates
       DEF RunSessionCommandSync, BusFree, DsTypeOK, DsHelpersKnown, DsByPlace, DsOwnFile, DsBegins, Running, dsLoopVars
  <1>11. CASE SyncReturns
    BY <1>11 DEF SyncReturns, DsTypeOK, DsHelpersKnown, DsByPlace, DsOwnFile, DsBegins, Running, dsLoopVars
  <1>12. CASE ServiceShutdown
    BY <1>12 DEF ServiceShutdown, BusFree, DsTypeOK, DsHelpersKnown, DsByPlace, DsOwnFile, DsBegins, Running, dsLoopVars
  <1>13. CASE BusLoopEnds
    BY <1>13 DEF BusLoopEnds, DsTypeOK, DsHelpersKnown, DsByPlace, DsOwnFile, DsBegins, Running
  <1> QED  BY <1>3, <1>4, <1>5, <1>6, <1>7, <1>8, <1>9, <1>10, <1>11, <1>12, <1>13

(* stop, by either thread or by the destructor: the children it forgets    *)
(* are those that have ended.                                              *)
LEMMA DsStopping ==
  ASSUME DsInv, NEW w \in {"main", "bus"}, DsStopStep(w)
  PROVE  DsInv'
  <1> USE DEF DsInv
  <1>1. /\ "xorg" \in DsProcs /\ "sess" \in DsProcs /\ "dialog" \in DsProcs /\ DsCommands \subseteq DsProcs
    BY DsAssumption DEF DsProcs
  <1>2. dsProc \in [DsProcs -> {"none", "up", "termed", "ended"}]
    BY DEF DsTypeOK
  <1>3. CASE StopCancels(w)
    BY <1>3 DEF StopCancels, Stopper, Goes, DsTypeOK, DsHelpersKnown, DsByPlace, DsOwnFile, DsBegins, Running
  <1>4. CASE StopKills(w)
    BY <1>1, <1>2, <1>4, DsProcUpdates
       DEF StopKills, Stopper, Goes, DsTypeOK, DsHelpersKnown, DsByPlace, DsOwnFile, DsBegins, Running, dsLoopVars
  <1>5. CASE StopLocks(w)
    BY <1>5 DEF StopLocks, Stopper, Goes, DsTypeOK, DsHelpersKnown, DsByPlace, DsOwnFile, DsBegins, Running
  <1>6. CASE StopChilds(w)
    <2>1. /\ Stopper(w) \in {"childs", "dtorchilds"} /\ dsLock = w /\ dsFile' = dsFile /\ dsAddress' = dsAddress
          /\ \A p \in dsChilds : dsProc[p] # "termed"
      BY <1>6 DEF StopChilds
    <2>2. CASE \E p \in dsChilds : dsProc[p] = "up"
      <3>1. /\ \E p \in dsChilds : dsProc' = DsTerm({p})
            /\ dsMain' = dsMain /\ dsBus' = dsBus /\ dsChilds' = dsChilds /\ dsLock' = dsLock
        BY <1>6, <2>2 DEF StopChilds
      <3> QED  BY <1>1, <1>2, <2>1, <3>1, DsProcUpdates
               DEF DsTypeOK, DsHelpersKnown, DsByPlace, DsOwnFile, DsBegins, Running
    <2>3. CASE ~ \E p \in dsChilds : dsProc[p] = "up"
      <3>1. /\ dsChilds' = {} /\ dsLock' = "none" /\ dsProc' = dsProc
            /\ Goes(w, IF Stopper(w) = "dtorchilds" THEN "unwind" ELSE After(w))
        BY <1>6, <2>3 DEF StopChilds
      <3>2. \A p \in DsCommands : ~Running(p)
        BY <2>1, <2>3 DEF DsHelpersKnown, Running
      <3> QED  BY <1>1, <2>1, <3>1, <3>2
               DEF Stopper, Goes, After, DsTypeOK, DsHelpersKnown, DsByPlace, DsOwnFile, DsBegins, Running
    <2> QED  BY <2>2, <2>3
  <1> QED  BY <1>3, <1>4, <1>5, <1>6 DEF DsStopStep

(* The end, and what the programs do by themselves.                        *)
LEMMA DsProgramsEnd ==
  ASSUME DsInv, WaitAndLogging \/ WriteAddress \/ \E p \in DsProcs : ProcEnds(p)
  PROVE  DsInv'
  <1> USE DEF DsInv
  <1>1. CASE WaitAndLogging
    BY <1>1 DEF WaitAndLogging, DsTypeOK, DsHelpersKnown, DsByPlace, DsOwnFile, DsBegins, Running, dsLoopVars
  <1>2. CASE WriteAddress
    BY <1>2 DEF WriteAddress, DsTypeOK, DsHelpersKnown, DsByPlace, DsOwnFile, DsBegins, Running, dsLoopVars
  <1>3. ASSUME NEW p \in DsProcs, ProcEnds(p) PROVE DsInv'
    <2>1. /\ dsProc' = [dsProc EXCEPT ![p] = "ended"]
          /\ dsMain' = dsMain /\ dsBus' = dsBus /\ dsChilds' = dsChilds /\ dsLock' = dsLock
          /\ dsFile' = dsFile /\ dsAddress' = dsAddress
      BY <1>3 DEF ProcEnds, dsLoopVars
    <2>2. /\ dsProc' \in [DsProcs -> {"none", "up", "termed", "ended"}]
          /\ \A q \in DsProcs : Running(q)' => Running(q)
      BY <2>1 DEF DsTypeOK, Running
    <2>3. "xorg" \in DsProcs /\ "sess" \in DsProcs /\ "dialog" \in DsProcs /\ DsCommands \subseteq DsProcs
      BY DEF DsProcs
    <2> QED  BY <2>1, <2>2, <2>3 DEF DsTypeOK, DsHelpersKnown, DsByPlace, DsOwnFile
  <1> QED  BY <1>1, <1>2, <1>3

(* When ltsm_session_display has exited, no program it started is left,    *)
(* whatever was asked for while stop was running in one thread or the      *)
(* other; and the bus it joined was always its own session's.              *)
THEOREM LeavesClean == DsSpec => []DsLeavesClean
  <1>1. DsInit => DsInv
    BY DsInitEstablishes
  <1>2. DsInv /\ [DsNext]_dsVars => DsInv'
    <2> SUFFICES ASSUME DsInv, [DsNext]_dsVars PROVE DsInv'
      OBVIOUS
    <2>1. CASE DsNext
      BY <2>1, DsConstructors, DsRunning, DsStopping, DsProgramsEnd DEF DsNext, DsMainStep, DsBusStep
    <2>2. CASE UNCHANGED dsVars
      BY <2>2 DEF dsVars, DsInv, DsTypeOK, DsHelpersKnown, DsByPlace, DsOwnFile, Running
    <2> QED  BY <2>1, <2>2
  <1> QED  BY <1>1, <1>2, DsInvGives, PTL DEF DsSpec
-----------------------------------------------------------------------------
(* ltsm_client.  The lines of the files and of the command line, in the    *)
(* order they are read; what an option holds after the first n of them is  *)
(* told by the last of those n that names it.                              *)
\* a line as it is read: one of the command line may have been hidden
ReadLine == [cmd : STRING, arg : STRING \cup {Hidden}, num : Int]

HasExt(args) == \E i \in 1..Len(args) : args[i].cmd = "--load"
AllLines(c, args) == c.etc \o c.user \o args \o (IF HasExt(args) THEN c.ext ELSE <<>>)

LastLine(s, n, cmd) ==
    {i \in 1..n : s[i].cmd = cmd /\ \A j \in 1..n : s[j].cmd = cmd => j <= i}
OptTells(o, s, n) ==
    /\ \A i \in LastLine(s, n, "--port") : o.port = PortOf(s[i].num)
    /\ LastLine(s, n, "--port") = {} => o.port = 5900
    /\ \A i \in LastLine(s, n, "--username") : o.username = s[i].arg

OptNames == {"loop", "pass", "passfile", "username", "port", "fullscreen", "redirect", "pkcs11",
             "krb5", "krb5Name", "authVnc", "bad"}
Redirects == SUBSET {"pcsc", "audio", "cups", "fuse"}
OptFits(o) ==
    /\ DOMAIN o = OptNames
    /\ o.loop \in {TRUE, FALSE} /\ o.bad \in {TRUE, FALSE}
    /\ o.port \in Ports /\ o.redirect \in Redirects
SameTold(p, o) == p.port = o.port /\ p.username = o.username /\ p.bad = o.bad

\* the sets of channels the options may ask for
LEMMA RedirectSets ==
  ASSUME NEW r \in Redirects
  PROVE  /\ r \cup {"pcsc"} \in Redirects /\ r \cup {"audio"} \in Redirects /\ r \ {"audio"} \in Redirects
         /\ r \cup {"cups"} \in Redirects /\ r \cup {"fuse"} \in Redirects
  BY DEF Redirects

\* the parts of parseCommand: the options keep their types, and the port and
\* the name change only with a line that names them
LEMMA FlagTells ==
  ASSUME NEW o, OptFits(o), NEW l
  PROVE  OptFits(ParseFlag(o, l)) /\ SameTold(ParseFlag(o, l), o)
  <1>1. o.redirect \cup {"pcsc"} \in Redirects
    BY RedirectSets DEF OptFits
  <1>2. CASE l.cmd = "--loop"
    <2>1. ParseFlag(o, l) = [o EXCEPT !.loop = TRUE]
      BY <1>2 DEF ParseFlag
    <2> QED  BY <2>1 DEF OptFits, OptNames, SameTold
  <1>3. CASE l.cmd = "--fullscreen"
    <2>1. ParseFlag(o, l) = [o EXCEPT !.fullscreen = TRUE]
      BY <1>3 DEF ParseFlag
    <2> QED  BY <2>1 DEF OptFits, OptNames, SameTold
  <1>4. CASE l.cmd = "--smartcard"
    <2>1. ParseFlag(o, l) = [o EXCEPT !.redirect = o.redirect \cup {"pcsc"}]
      BY <1>4 DEF ParseFlag
    <2> QED  BY <1>1, <2>1 DEF OptFits, OptNames, SameTold
  <1>5. CASE l.cmd \notin {"--loop", "--fullscreen", "--smartcard"}
    <2>1. ParseFlag(o, l) = o
      BY <1>5 DEF ParseFlag
    <2> QED  BY <2>1 DEF SameTold
  <1> QED  BY <1>2, <1>3, <1>4, <1>5

LEMMA RedirectTells ==
  ASSUME NEW o, OptFits(o), NEW l
  PROVE  OptFits(ParseRedirect(o, l)) /\ SameTold(ParseRedirect(o, l), o)
  <1>1. /\ o.redirect \cup {"audio"} \in Redirects /\ o.redirect \ {"audio"} \in Redirects
        /\ o.redirect \cup {"cups"} \in Redirects
    BY RedirectSets DEF OptFits
  <1>2. CASE l.cmd = "--audio"
    <2>1. ParseRedirect(o, l) =
            [o EXCEPT !.redirect = IF l.arg \in {"", "opus"} THEN o.redirect \cup {"audio"} ELSE o.redirect \ {"audio"}]
      BY <1>2 DEF ParseRedirect
    <2> QED  BY <1>1, <2>1 DEF OptFits, OptNames, SameTold
  <1>3. CASE l.cmd = "--printer"
    <2>1. ParseRedirect(o, l) = [o EXCEPT !.redirect = o.redirect \cup {"cups"}]
      BY <1>3 DEF ParseRedirect
    <2> QED  BY <1>1, <2>1 DEF OptFits, OptNames, SameTold
  <1>4. CASE l.cmd = "--kerberos"
    <2>1. ParseRedirect(o, l) = [o EXCEPT !.krb5 = TRUE]
      BY <1>4 DEF ParseRedirect
    <2> QED  BY <2>1 DEF OptFits, OptNames, SameTold
  <1>5. CASE l.cmd = "--pkcs11-auth"
    <2>1. ParseRedirect(o, l) = [o EXCEPT !.pkcs11 = l.arg \in {"", "lib"}]
      BY <1>5 DEF ParseRedirect
    <2> QED  BY <2>1 DEF OptFits, OptNames, SameTold
  <1>6. CASE l.cmd \notin RedirectCommands
    <2>1. ParseRedirect(o, l) = o
      BY <1>6 DEF ParseRedirect, RedirectCommands
    <2> QED  BY <2>1 DEF SameTold
  <1> QED  BY <1>2, <1>3, <1>4, <1>5, <1>6 DEF RedirectCommands

LEMMA PortFits ==
  ASSUME NEW num
  PROVE  PortOf(num) \in Ports
  <1>1. 5900 \in Ports
    BY DEF Ports
  <1> QED  BY <1>1 DEF PortOf

LEMMA ValueTells ==
  ASSUME NEW o, OptFits(o), NEW l
  PROVE  /\ OptFits(ParseValue(o, l))
         /\ ParseValue(o, l).bad = o.bad
         /\ ParseValue(o, l).port = (IF l.cmd = "--port" THEN PortOf(l.num) ELSE o.port)
         /\ ParseValue(o, l).username = (IF l.cmd = "--username" THEN l.arg ELSE o.username)
  <1> DEFINE p == ParseValue(o, l)
  <1>1. o.redirect \cup {"fuse"} \in Redirects /\ o.redirect \in Redirects
    BY RedirectSets DEF OptFits
  <1>2. PortOf(l.num) \in Ports
    BY PortFits
  <1>3. CASE l.cmd = "--password"
    <2>1. p = [o EXCEPT !.pass = l.arg]
      BY <1>3 DEF ParseValue
    <2> QED  BY <1>3, <2>1 DEF OptFits, OptNames, SameTold
  <1>4. CASE l.cmd = "--password-file"
    <2>1. p = [o EXCEPT !.passfile = l.arg]
      BY <1>4 DEF ParseValue
    <2> QED  BY <1>4, <2>1 DEF OptFits, OptNames, SameTold
  <1>5. CASE l.cmd = "--username"
    <2>1. p = [o EXCEPT !.username = l.arg]
      BY <1>5 DEF ParseValue
    <2> QED  BY <1>5, <2>1 DEF OptFits, OptNames, SameTold
  <1>6. CASE l.cmd = "--port"
    <2>1. p = [o EXCEPT !.port = PortOf(l.num)]
      BY <1>6 DEF ParseValue
    <2> QED  BY <1>2, <1>6, <2>1 DEF OptFits, OptNames, SameTold
  <1>7. CASE l.cmd = "--share-folder"
    <2>1. p = [o EXCEPT !.redirect = IF l.arg = "dir" THEN o.redirect \cup {"fuse"} ELSE o.redirect]
      BY <1>7 DEF ParseValue
    <2> QED  BY <1>1, <1>7, <2>1 DEF OptFits, OptNames, SameTold
  <1>8. CASE l.cmd \notin {"--password", "--password-file", "--username", "--port", "--share-folder"}
    <2>1. p = o
      BY <1>8 DEF ParseValue
    <2> QED  BY <1>8, <2>1
  <1> QED  BY <1>3, <1>4, <1>5, <1>6, <1>7, <1>8

\* parseCommand: a refused line is not forgotten, and one that is accepted
\* tells what it names
LEMMA ParseTells ==
  ASSUME NEW o, NEW s, NEW n \in Nat, OptFits(o), o.bad = FALSE => OptTells(o, s, n)
  PROVE  /\ OptFits(ParseCommand(o, s[n + 1]))
         /\ ParseCommand(o, s[n + 1]).bad = FALSE => OptTells(ParseCommand(o, s[n + 1]), s, n + 1)
  <1> DEFINE l == s[n + 1]
             p == ParseCommand(o, l)
             Told(q) == /\ q.bad = o.bad
                        /\ q.port = (IF l.cmd = "--port" THEN PortOf(l.num) ELSE o.port)
                        /\ q.username = (IF l.cmd = "--username" THEN l.arg ELSE o.username)
  <1> HIDE DEF l
  <1>1. o.bad = TRUE \/ o.bad = FALSE
    BY DEF OptFits
  <1>2. CASE o.bad = TRUE
    <2>1. p = o
      BY <1>2 DEF ParseCommand
    <2> QED  BY <1>2, <2>1 DEF l
  <1>3. CASE o.bad = FALSE
    <2>1. OptFits(p) /\ (p.bad = FALSE => Told(p))
      <3>1. CASE l.cmd \in {"--load", "--save"}
        <4>1. p = o
          BY <3>1 DEF ParseCommand
        <4> QED  BY <3>1, <4>1
      <3>2. CASE l.cmd \in FlagCommands
        <4>1. p = ParseFlag(o, l)
          BY <1>3, <3>2 DEF ParseCommand, FlagCommands
        <4> QED  BY <3>2, <4>1, FlagTells DEF SameTold, FlagCommands
      <3>3. CASE l.cmd \in RedirectCommands
        <4>1. p = ParseRedirect(o, l)
          BY <1>3, <3>3 DEF ParseCommand, RedirectCommands, FlagCommands
        <4> QED  BY <3>3, <4>1, RedirectTells DEF SameTold, RedirectCommands
      <3>4. CASE l.cmd \notin {"--load", "--save"} \cup FlagCommands \cup RedirectCommands
        <4>1. p = ParseValue(o, l) \/ p = [o EXCEPT !.bad = TRUE]
          BY <1>3, <3>4 DEF ParseCommand
        <4>2. [o EXCEPT !.bad = TRUE].bad = TRUE /\ OptFits([o EXCEPT !.bad = TRUE])
          BY DEF OptFits, OptNames
        <4>3. CASE p = ParseValue(o, l)
          <5>1. OptFits(ParseValue(o, l)) /\ Told(ParseValue(o, l))
            BY ValueTells
          <5> HIDE DEF p, Told
          <5> QED  BY <4>3, <5>1
        <4>4. CASE p = [o EXCEPT !.bad = TRUE]
          <5>1. p.bad = TRUE /\ OptFits(p)
            BY <4>2, <4>4
          <5> QED  BY <5>1
        <4> QED  BY <4>1, <4>3, <4>4
      <3> QED  BY <3>1, <3>2, <3>3, <3>4
    <2>2. \A cmd : LastLine(s, n + 1, cmd) = (IF l.cmd = cmd THEN {n + 1} ELSE LastLine(s, n, cmd))
      BY DEF LastLine, l
    <2> HIDE DEF p
    <2>3. OptTells(o, s, n)
      BY <1>3
    <2>4. ASSUME p.bad = FALSE PROVE OptTells(p, s, n + 1)
      <3>1. \A i \in LastLine(s, n + 1, "--port") : p.port = PortOf(s[i].num)
        BY <2>1, <2>2, <2>3, <2>4 DEF OptTells, l
      <3>2. LastLine(s, n + 1, "--port") = {} => p.port = 5900
        BY <2>1, <2>2, <2>3, <2>4 DEF OptTells
      <3>3. \A i \in LastLine(s, n + 1, "--username") : p.username = s[i].arg
        BY <2>1, <2>2, <2>3, <2>4 DEF OptTells, l
      <3> QED  BY <3>1, <3>2, <3>3 DEF OptTells
    <2> QED  BY <2>1, <2>4 DEF p, l
  <1> QED  BY <1>1, <1>2, <1>3

(* loadConfig is a recursive function of the number of lines read: it      *)
(* exists, by induction, and so it is what its equation says.              *)
LoadSteps(o, lines, N, f) ==
    f = [n \in 0..N |-> IF n = 0 THEN o ELSE ParseCommand(f[n - 1], lines[n])]

LEMMA LoadExists ==
  ASSUME NEW o, NEW lines, NEW N \in Nat
  PROVE  \E f : LoadSteps(o, lines, N, f)
  <1> DEFINE T == {n \in Nat : \E f : LoadSteps(o, lines, n, f)}
  <1>1. 0 \in T
    <2> DEFINE g == [n \in 0..0 |-> o]
    <2>1. g = [n \in 0..0 |-> IF n = 0 THEN o ELSE ParseCommand(g[n - 1], lines[n])]
      OBVIOUS
    <2> QED  BY <2>1 DEF LoadSteps
  <1>2. ASSUME NEW n \in Nat, n \in T PROVE n + 1 \in T
    <2>1. PICK f : LoadSteps(o, lines, n, f)
      BY <1>2
    <2> DEFINE g == [k \in 0..(n + 1) |-> IF k = n + 1 THEN ParseCommand(f[n], lines[k]) ELSE f[k]]
               h == [k \in 0..(n + 1) |-> IF k = 0 THEN o ELSE ParseCommand(g[k - 1], lines[k])]
    <2>2. \A k \in 0..n : f[k] = IF k = 0 THEN o ELSE ParseCommand(f[k - 1], lines[k])
      BY <2>1 DEF LoadSteps
    <2>3. ASSUME NEW k \in 0..(n + 1) PROVE g[k] = h[k]
      <3>1. CASE k = 0
        <4>1. g[k] = f[k] /\ h[k] = o
          BY <3>1
        <4> QED  BY <2>2, <3>1, <4>1
      <3>2. CASE k # 0
        <4>1. k - 1 \in 0..n /\ k - 1 # n + 1 /\ k - 1 \in 0..(n + 1)
          BY <3>2
        <4>2. h[k] = ParseCommand(f[k - 1], lines[k])
          BY <3>2, <4>1
        <4>3. CASE k = n + 1
          <5>1. k - 1 = n /\ g[k] = ParseCommand(f[n], lines[k])
            BY <4>3
          <5> QED  BY <4>2, <5>1
        <4>4. CASE k # n + 1
          <5>1. k \in 0..n /\ g[k] = f[k]
            BY <4>4
          <5> QED  BY <2>2, <3>2, <4>2, <5>1
        <4> QED  BY <4>3, <4>4
      <3> QED  BY <3>1, <3>2
    <2>4. g = h
      BY <2>3
    <2>5. LoadSteps(o, lines, n + 1, g)
      BY <2>4 DEF LoadSteps
    <2> QED  BY <2>5
  <1> HIDE DEF T
  <1>3. Nat \subseteq T
    BY <1>1, <1>2, SetInduction
  <1> QED  BY <1>3 DEF T

\* what the lines tell is what is told of all the lines read so far
LEMMA LoadTells ==
  ASSUME NEW o, NEW lines, Len(lines) \in Nat, NEW s, NEW m \in Nat,
         \A k \in 1..Len(lines) : s[m + k] = lines[k],
         OptFits(o), o.bad = FALSE => OptTells(o, s, m)
  PROVE  /\ OptFits(LoadConfig(o, lines))
         /\ LoadConfig(o, lines).bad = FALSE => OptTells(LoadConfig(o, lines), s, m + Len(lines))
  <1> DEFINE N == Len(lines)
             f == CHOOSE g : LoadSteps(o, lines, N, g)
             Told(n) == OptFits(f[n]) /\ (f[n].bad = FALSE => OptTells(f[n], s, m + n))
             T == {n \in Nat : n <= N => Told(n)}
  <1>1. LoadSteps(o, lines, N, f)
    BY LoadExists
  <1>2. LoadConfig(o, lines) = f[N]
    BY DEF LoadConfig, LoadSteps
  <1> HIDE DEF f
  <1>3. 0 \in T
    <2>1. f[0] = o /\ m + 0 = m
      BY <1>1 DEF LoadSteps
    <2> QED  BY <2>1
  <1>4. ASSUME NEW n \in Nat, n \in T PROVE n + 1 \in T
    <2>0. n + 1 \in Nat
      OBVIOUS
    <2> SUFFICES ASSUME n + 1 <= N PROVE Told(n + 1)
      BY <2>0
    <2>1. n <= N /\ n + 1 \in 0..N /\ n + 1 # 0 /\ (n + 1) - 1 = n /\ n + 1 \in 1..N
      OBVIOUS
    <2>2. OptFits(f[n]) /\ (f[n].bad = FALSE => OptTells(f[n], s, m + n))
      BY <1>4, <2>1
    <2>3. f[n + 1] = ParseCommand(f[n], lines[n + 1])
      BY <1>1, <2>1 DEF LoadSteps
    <2>4. s[(m + n) + 1] = lines[n + 1] /\ m + n \in Nat /\ (m + n) + 1 = m + (n + 1)
      BY <2>1
    <2>5. /\ OptFits(ParseCommand(f[n], s[(m + n) + 1]))
          /\ ParseCommand(f[n], s[(m + n) + 1]).bad = FALSE
               => OptTells(ParseCommand(f[n], s[(m + n) + 1]), s, (m + n) + 1)
      BY <2>2, <2>4, ParseTells
    <2> QED  BY <2>3, <2>4, <2>5
  <1> HIDE DEF T
  <1>5. N \in T
    BY <1>3, <1>4, SetInduction
  <1> QED  BY <1>2, <1>5 DEF T

LEMMA SecurityTells ==
  ASSUME NEW o, OptFits(o)
  PROVE  OptFits(UpdateSecurity(o)) /\ SameTold(UpdateSecurity(o), o)
  <1> DEFINE p == [o EXCEPT !.pkcs11 = @ /\ (o.pass = "" \/ o.username = "")]
             e == IF p.pass = "" THEN [p EXCEPT !.pass = ClEnv] ELSE p
             f == IF p.pass = "" /\ p.passfile \in DOMAIN ClFiles THEN [e EXCEPT !.pass = ClFiles[p.passfile]] ELSE e
             v == f.pass # ""
             w == IF f.krb5 THEN f.username ELSE ""
             g == [f EXCEPT !.authVnc = v]
             h == [g EXCEPT !.krb5Name = w]
  <1>1. OptFits(p) /\ SameTold(p, o)
    <2> DEFINE x == o.pkcs11 /\ (o.pass = "" \/ o.username = "")
    <2>1. p = [o EXCEPT !.pkcs11 = x]
      OBVIOUS
    <2> HIDE DEF x, p
    <2> QED  BY <2>1 DEF OptFits, OptNames, SameTold
  <1> HIDE DEF p
  <1>2. OptFits(e) /\ SameTold(e, p)
    BY <1>1 DEF OptFits, OptNames, SameTold
  <1> HIDE DEF e
  <1>3. OptFits(f) /\ SameTold(f, e)
    BY <1>2 DEF OptFits, OptNames, SameTold
  <1> HIDE DEF f, v, w
  <1>4. OptFits(g) /\ SameTold(g, f)
    BY <1>3 DEF OptFits, OptNames, SameTold
  <1> HIDE DEF g
  <1>5. OptFits(h) /\ SameTold(h, g)
    BY <1>4 DEF OptFits, OptNames, SameTold
  <1>6. UpdateSecurity(o) = h
    BY DEF UpdateSecurity, p, e, f, v, w, g
  <1> HIDE DEF h
  <1> QED  BY <1>1, <1>2, <1>3, <1>4, <1>5, <1>6 DEF SameTold

\* where each line of the files and of the command line stands
LEMMA LinesRead ==
  ASSUME NEW c \in ClConfigs
  PROVE  c.etc \in Seq(ReadLine) /\ c.user \in Seq(ReadLine) /\ c.ext \in Seq(ReadLine) /\ ClLines \subseteq Seq(ReadLine)
  <1> DEFINE L == [cmd : STRING, arg : STRING, num : Int]
  <1>1. L \subseteq ReadLine
    BY DEF ReadLine
  <1>2. c.etc \in Seq(L) /\ c.user \in Seq(L) /\ c.ext \in Seq(L)
    BY ClAssumption DEF ClLines
  <1>3. ASSUME NEW s \in Seq(L) PROVE s \in Seq(ReadLine)
    <2> HIDE DEF L
    <2>1. \A i \in 1..Len(s) : s[i] \in ReadLine
      BY <1>1, ElementOfSeq
    <2>2. s \in [1..Len(s) -> ReadLine] /\ Len(s) \in Nat
      BY <2>1, LenProperties
    <2> QED  BY <2>2, SeqDef
  <1> QED  BY <1>2, <1>3 DEF ClLines

LEMMA LinesAre ==
  ASSUME NEW c \in ClConfigs, NEW args \in Seq(ReadLine)
  PROVE  LET s == AllLines(c, args)
             x == IF HasExt(args) THEN c.ext ELSE <<>>
             m == Len(c.etc)
             n == m + Len(c.user)
             r == n + Len(args)
         IN  /\ s \in Seq(ReadLine) /\ Len(s) = r + Len(x)
             /\ c.etc \in Seq(ReadLine) /\ c.user \in Seq(ReadLine) /\ c.ext \in Seq(ReadLine) /\ x \in Seq(ReadLine)
             /\ m \in Nat /\ n \in Nat /\ r \in Nat
             /\ \A k \in 1..Len(c.etc) : s[0 + k] = c.etc[k]
             /\ \A k \in 1..Len(c.user) : s[m + k] = c.user[k]
             /\ \A k \in 1..Len(args) : s[n + k] = args[k]
             /\ \A k \in 1..Len(x) : s[r + k] = x[k]
  <1> DEFINE x == IF HasExt(args) THEN c.ext ELSE <<>>
             a == c.etc
             b == c.user
             ab == a \o b
             abc == ab \o args
             s == abc \o x
  <1>1. a \in Seq(ReadLine) /\ b \in Seq(ReadLine) /\ c.ext \in Seq(ReadLine) /\ args \in Seq(ReadLine)
    BY LinesRead
  <1>2. x \in Seq(ReadLine)
    BY <1>1
  <1> HIDE DEF x, a, b
  <1>3. /\ ab \in Seq(ReadLine) /\ Len(ab) = Len(a) + Len(b)
        /\ \A i \in 1..(Len(a) + Len(b)) : ab[i] = IF i <= Len(a) THEN a[i] ELSE b[i - Len(a)]
    BY <1>1, ConcatProperties
  <1> HIDE DEF ab
  <1>4. ab \in Seq(ReadLine)
    BY <1>3
  <1>5. /\ abc \in Seq(ReadLine) /\ Len(abc) = Len(ab) + Len(args)
        /\ \A i \in 1..(Len(ab) + Len(args)) : abc[i] = IF i <= Len(ab) THEN ab[i] ELSE args[i - Len(ab)]
    BY <1>1, <1>4, ConcatProperties
  <1> HIDE DEF abc
  <1>6. abc \in Seq(ReadLine)
    BY <1>5
  <1>7. /\ s \in Seq(ReadLine) /\ Len(s) = Len(abc) + Len(x)
        /\ \A i \in 1..(Len(abc) + Len(x)) : s[i] = IF i <= Len(abc) THEN abc[i] ELSE x[i - Len(abc)]
    BY <1>2, <1>6, ConcatProperties
  <1>8. s = AllLines(c, args)
    BY DEF AllLines, x, a, b, ab, abc
  <1> HIDE DEF s
  <1>9. Len(a) \in Nat /\ Len(b) \in Nat /\ Len(args) \in Nat /\ Len(x) \in Nat
    BY <1>1, <1>2, LenProperties
  <1>10. \A k \in 1..Len(a) : s[0 + k] = a[k]
    <2> TAKE k \in 1..Len(a)
    <2>1. s[k] = abc[k]
      BY <1>3, <1>5, <1>7, <1>9
    <2>2. abc[k] = ab[k]
      BY <1>3, <1>5, <1>9
    <2>3. ab[k] = a[k] /\ 0 + k = k
      BY <1>3, <1>9
    <2> QED  BY <2>1, <2>2, <2>3
  <1>11. \A k \in 1..Len(b) : s[Len(a) + k] = b[k]
    <2> TAKE k \in 1..Len(b)
    <2> DEFINE i == Len(a) + k
    <2>1. s[i] = abc[i]
      BY <1>3, <1>5, <1>7, <1>9
    <2>2. abc[i] = ab[i]
      BY <1>3, <1>5, <1>9
    <2>3. ab[i] = b[k]
      <3>1. ~(i <= Len(a)) /\ i - Len(a) = k /\ i \in 1..(Len(a) + Len(b))
        BY <1>9
      <3> HIDE DEF i
      <3> QED  BY <1>3, <3>1
    <2> QED  BY <2>1, <2>2, <2>3
  <1>12. \A k \in 1..Len(args) : s[(Len(a) + Len(b)) + k] = args[k]
    <2> TAKE k \in 1..Len(args)
    <2> DEFINE i == (Len(a) + Len(b)) + k
    <2>1. s[i] = abc[i]
      BY <1>3, <1>5, <1>7, <1>9
    <2>2. abc[i] = args[k]
      <3>1. ~(i <= Len(ab)) /\ i - Len(ab) = k /\ i \in 1..(Len(ab) + Len(args))
        BY <1>3, <1>9
      <3> HIDE DEF i
      <3> QED  BY <1>5, <3>1
    <2> QED  BY <2>1, <2>2
  <1>13. \A k \in 1..Len(x) : s[((Len(a) + Len(b)) + Len(args)) + k] = x[k]
    <2> TAKE k \in 1..Len(x)
    <2> DEFINE i == ((Len(a) + Len(b)) + Len(args)) + k
    <2>1. ~(i <= Len(abc)) /\ i - Len(abc) = k /\ i \in 1..(Len(abc) + Len(x))
      BY <1>3, <1>5, <1>9
    <2> HIDE DEF i
    <2>2. s[i] = x[k]
      BY <1>7, <2>1
    <2> QED  BY <2>2 DEF i
  <1>14. Len(s) = ((Len(a) + Len(b)) + Len(args)) + Len(x)
    BY <1>3, <1>5, <1>7
  <1>15. s \in Seq(ReadLine) /\ a \in Seq(ReadLine) /\ b \in Seq(ReadLine) /\ c.ext \in Seq(ReadLine) /\ x \in Seq(ReadLine)
    BY <1>1, <1>2, <1>7
  <1>16. Len(a) + Len(b) \in Nat /\ (Len(a) + Len(b)) + Len(args) \in Nat
    BY <1>9
  <1> QED  BY <1>8, <1>9, <1>10, <1>11, <1>12, <1>13, <1>14, <1>15, <1>16 DEF a, b, x

\* the options of a ClientApp
LEMMA MadeTells ==
  ASSUME NEW c \in ClConfigs, NEW args \in Seq(ReadLine)
  PROVE  LET o == MadeOpts(c, args)
             s == AllLines(c, args)
         IN  OptFits(o) /\ (o.bad = FALSE => OptTells(o, s, Len(s)))
  <1> DEFINE s == AllLines(c, args)
             x == IF HasExt(args) THEN c.ext ELSE <<>>
             m == Len(c.etc)
             n == m + Len(c.user)
             r == n + Len(args)
             o1 == LoadConfig(NoOpts, c.etc)
             o2 == LoadConfig(o1, c.user)
             o3 == LoadConfig(o2, args)
             o4 == LoadConfig(o3, x)
             Told(o, k) == OptFits(o) /\ (o.bad = FALSE => OptTells(o, s, k))
  <1>1. /\ s \in Seq(ReadLine) /\ Len(s) = r + Len(x)
        /\ Len(c.etc) \in Nat /\ Len(c.user) \in Nat /\ Len(args) \in Nat /\ Len(x) \in Nat
        /\ m \in Nat /\ n \in Nat /\ r \in Nat
        /\ \A k \in 1..Len(c.etc) : s[0 + k] = c.etc[k]
        /\ \A k \in 1..Len(c.user) : s[m + k] = c.user[k]
        /\ \A k \in 1..Len(args) : s[n + k] = args[k]
        /\ \A k \in 1..Len(x) : s[r + k] = x[k]
    BY LinesAre, LenProperties
  <1> HIDE DEF s, x, m, n, r
  <1>2. Told(NoOpts, 0)
    <2>1. 5900 \in Ports
      BY DEF Ports
    <2>2. OptFits(NoOpts) /\ NoOpts.port = 5900
      BY <2>1 DEF NoOpts, OptFits, OptNames, Redirects
    <2>3. \A cmd : LastLine(s, 0, cmd) = {}
      BY DEF LastLine
    <2> QED  BY <2>2, <2>3 DEF OptTells
  <1>3. Told(o1, 0 + m)
    BY <1>1, <1>2, LoadTells DEF m
  <1> HIDE DEF o1
  <1>4. Told(o2, n)
    <2>1. 0 + m = m
      BY <1>1
    <2> QED  BY <1>1, <1>3, <2>1, LoadTells DEF n
  <1> HIDE DEF o2
  <1>5. Told(o3, r)
    BY <1>1, <1>4, LoadTells DEF r
  <1> HIDE DEF o3
  <1>6. Told(o4, Len(s))
    <2>1. Told(o4, r + Len(x))
      BY <1>1, <1>5, LoadTells
    <2> HIDE DEF o4
    <2> QED  BY <1>1, <2>1
  <1>7. o3 = o4 \/ HasExt(args)
    <2>1. ~HasExt(args) => x = <<>>
      BY DEF x
    <2>2. LoadConfig(o3, <<>>) = o3
      <3> DEFINE f == CHOOSE g : LoadSteps(o3, <<>>, 0, g)
      <3>1. LoadSteps(o3, <<>>, 0, f)
        BY LoadExists
      <3>2. LoadConfig(o3, <<>>) = f[0]
        BY DEF LoadConfig, LoadSteps
      <3> HIDE DEF f
      <3>3. f[0] = o3
        BY <3>1 DEF LoadSteps
      <3> QED  BY <3>2, <3>3
    <2> QED  BY <2>1, <2>2
  <1>8. MadeOpts(c, args) = UpdateSecurity(o4)
    <2>1. MadeOpts(c, args) = UpdateSecurity(IF HasExt(args) THEN LoadConfig(o3, c.ext) ELSE o3)
      BY DEF MadeOpts, HasExt, o1, o2, o3
    <2>2. HasExt(args) => x = c.ext
      BY DEF x
    <2> QED  BY <1>7, <2>1, <2>2
  <1> HIDE DEF o4
  <1> DEFINE u == UpdateSecurity(o4)
  <1>9. OptFits(u) /\ SameTold(u, o4)
    BY <1>6, SecurityTells
  <1> HIDE DEF u
  <1>10. u.bad = FALSE => OptTells(u, s, Len(s))
    BY <1>6, <1>9 DEF SameTold, OptTells
  <1> QED  BY <1>8, <1>9, <1>10 DEF s, u

(* The password of a command line is hidden once it was read, and the next *)
(* ClientApp reads what is left: its other options are the same.           *)
SameLines(args, old) ==
    /\ Len(args) = Len(old)
    /\ \A i \in 1..Len(old) : /\ args[i].cmd = old[i].cmd /\ args[i].num = old[i].num
                              /\ old[i].cmd # "--password" => args[i].arg = old[i].arg

LEMMA HiddenArgs ==
  ASSUME NEW args \in Seq(ReadLine), NEW old \in Seq(ReadLine), SameLines(args, old)
  PROVE  HidePasswordArgument(args) \in Seq(ReadLine) /\ SameLines(HidePasswordArgument(args), old)
  <1> DEFINE h == HidePasswordArgument(args)
  <1>1. Len(args) \in Nat /\ \A i \in 1..Len(args) : args[i] \in ReadLine
    BY LenProperties, ElementOfSeq
  <1>2. Hidden \in STRING \cup {Hidden}
    OBVIOUS
  <1>3. \A l \in ReadLine : /\ [l EXCEPT !.arg = Hidden] \in ReadLine
                     /\ [l EXCEPT !.arg = Hidden].cmd = l.cmd /\ [l EXCEPT !.arg = Hidden].num = l.num
    BY <1>2 DEF ReadLine
  <1>4. \A i \in 1..Len(args) :
           h[i] = IF args[i].cmd = "--password" /\ args[i].arg # "" THEN [args[i] EXCEPT !.arg = Hidden] ELSE args[i]
    BY DEF HidePasswordArgument
  <1>5. h = [i \in 1..Len(args) |-> h[i]]
    BY DEF HidePasswordArgument
  <1> HIDE DEF h
  <1>6. \A i \in 1..Len(args) : h[i] \in ReadLine
    BY <1>1, <1>3, <1>4
  <1>7. h \in Seq(ReadLine) /\ Len(h) = Len(args)
    <2>1. h \in [1..Len(args) -> ReadLine]
      BY <1>5, <1>6
    <2> DEFINE k == Len(args)
    <2>2. h \in Seq(ReadLine)
      BY <1>1, <2>1, SeqDef
    <2>3. DOMAIN h = 1..k /\ DOMAIN h = 1..Len(h) /\ Len(h) \in Nat
      BY <2>1, <2>2, LenProperties
    <2> HIDE DEF k
    <2>4. Len(h) = k
      BY <1>1, <2>3 DEF k
    <2> QED  BY <2>2, <2>4 DEF k
  <1>8. \A i \in 1..Len(args) : /\ h[i].cmd = args[i].cmd /\ h[i].num = args[i].num
                                /\ args[i].cmd # "--password" => h[i].arg = args[i].arg
    BY <1>1, <1>3, <1>4
  <1>9. SameLines(h, old)
    BY <1>7, <1>8 DEF SameLines
  <1> QED  BY <1>7, <1>9 DEF h

LEMMA SameTells ==
  ASSUME NEW c \in ClConfigs, NEW args \in Seq(ReadLine), NEW old \in Seq(ReadLine), SameLines(args, old), NEW o,
         OptTells(o, AllLines(c, args), Len(AllLines(c, args)))
  PROVE  OptTells(o, AllLines(c, old), Len(AllLines(c, old)))
  <1> DEFINE s == AllLines(c, args)
             t == AllLines(c, old)
             x == IF HasExt(args) THEN c.ext ELSE <<>>
             y == IF HasExt(old) THEN c.ext ELSE <<>>
             m == Len(c.etc)
             n == m + Len(c.user)
             r == n + Len(args)
  <1>1. x = y /\ Len(args) = Len(old) /\ Len(args) \in Nat
    <2>1. Len(args) = Len(old) /\ Len(args) \in Nat
      BY LenProperties DEF SameLines
    <2>2. HasExt(args) <=> HasExt(old)
      BY <2>1 DEF HasExt, SameLines
    <2> QED  BY <2>1, <2>2
  <1>12. /\ Len(s) = r + Len(x) /\ Len(x) \in Nat /\ m \in Nat /\ n \in Nat /\ r \in Nat
         /\ Len(c.etc) \in Nat /\ Len(c.user) \in Nat
    BY LinesAre, LenProperties
  <1>2. /\ \A k \in 1..Len(c.etc) : s[0 + k] = c.etc[k]
        /\ \A k \in 1..Len(c.user) : s[m + k] = c.user[k]
        /\ \A k \in 1..Len(args) : s[n + k] = args[k]
        /\ \A k \in 1..Len(x) : s[r + k] = x[k]
    BY LinesAre
  <1>13. Len(t) = (n + Len(old)) + Len(y)
    BY LinesAre
  <1>3. /\ \A k \in 1..Len(c.etc) : t[0 + k] = c.etc[k]
        /\ \A k \in 1..Len(c.user) : t[m + k] = c.user[k]
        /\ \A k \in 1..Len(old) : t[n + k] = old[k]
        /\ \A k \in 1..Len(y) : t[(n + Len(old)) + k] = y[k]
    BY LinesAre
  <1> HIDE DEF s, t, x, y
  <1>5. m = Len(c.etc) /\ n = m + Len(c.user) /\ r = n + Len(args)
    OBVIOUS
  <1> HIDE DEF m, n, r
  <1>4. Len(s) = Len(t) /\ Len(s) = r + Len(x) /\ Len(s) \in Nat
    <2>1. n + Len(old) = r
      BY <1>1, <1>5
    <2>2. Len(t) = r + Len(y)
      BY <1>13, <2>1
    <2>3. Len(t) = r + Len(x)
      BY <1>1, <2>2
    <2>4. Len(s) = r + Len(x) /\ r \in Nat /\ Len(x) \in Nat
      BY <1>12
    <2> QED  BY <2>3, <2>4
  <1>6. \A i \in 1..Len(s) : /\ s[i].cmd = t[i].cmd /\ s[i].num = t[i].num
                             /\ t[i].cmd # "--password" => s[i].arg = t[i].arg
    <2> SUFFICES ASSUME NEW i \in 1..Len(s)
                 PROVE  /\ s[i].cmd = t[i].cmd /\ s[i].num = t[i].num
                        /\ t[i].cmd # "--password" => s[i].arg = t[i].arg
      OBVIOUS
    <2>1. CASE i <= m
      <3>1. i \in 1..Len(c.etc) /\ 0 + i = i
        BY <1>4, <1>5, <1>12, <2>1
      <3>2. s[i] = c.etc[i] /\ t[i] = c.etc[i]
        BY <1>2, <1>3, <3>1
      <3> QED  BY <3>2
    <2>2. CASE i > m /\ i <= n
      <3> DEFINE k == i - m
      <3>1. k \in 1..Len(c.user) /\ m + k = i
        <4>1. i \in Nat /\ m \in Nat /\ Len(c.user) \in Nat
          BY <1>4, <1>12
        <4>2. i <= m + Len(c.user) /\ i > m
          BY <1>5, <2>2
        <4> QED  BY <4>1, <4>2
      <3> HIDE DEF k
      <3>2. s[i] = c.user[k] /\ t[i] = c.user[k]
        BY <1>2, <1>3, <3>1
      <3> QED  BY <3>2
    <2>3. CASE i > n /\ i <= r
      <3> DEFINE k == i - n
      <3>1. k \in 1..Len(args) /\ n + k = i
        <4>1. i \in Nat /\ n \in Nat /\ Len(args) \in Nat
          BY <1>1, <1>4, <1>12
        <4>2. i <= n + Len(args) /\ i > n
          BY <1>5, <2>3
        <4> QED  BY <4>1, <4>2
      <3> HIDE DEF k
      <3>2. s[i] = args[k] /\ t[i] = old[k] /\ k \in 1..Len(old)
        BY <1>1, <1>2, <1>3, <3>1
      <3> QED  BY <3>2 DEF SameLines
    <2>4. CASE i > r
      <3> DEFINE k == i - r
      <3>1. k \in 1..Len(x) /\ r + k = i
        <4>1. i \in Nat /\ r \in Nat /\ Len(x) \in Nat
          BY <1>4, <1>12
        <4>2. i <= r + Len(x) /\ i > r
          BY <1>4, <2>4
        <4> QED  BY <4>1, <4>2
      <3> HIDE DEF k
      <3>2. s[i] = x[k] /\ t[i] = y[k]
        <4>1. n + Len(old) = r
          BY <1>1, <1>5
        <4> QED  BY <1>1, <1>2, <1>3, <3>1, <4>1
      <3> QED  BY <1>1, <3>2
    <2> QED  BY <1>4, <1>12, <2>1, <2>2, <2>3, <2>4
  <1>7. \A cmd : LastLine(s, Len(s), cmd) = LastLine(t, Len(t), cmd)
    BY <1>4, <1>6 DEF LastLine
  <1>8. \A cmd : LastLine(t, Len(t), cmd) \subseteq {i \in 1..Len(s) : t[i].cmd = cmd}
    BY <1>4 DEF LastLine
  <1>9. OptTells(o, s, Len(s))
    BY DEF s
  <1>10. \A i \in LastLine(t, Len(t), "--port") : o.port = PortOf(t[i].num)
    BY <1>6, <1>7, <1>8, <1>9 DEF OptTells
  <1>11. LastLine(t, Len(t), "--port") = {} => o.port = 5900
    BY <1>7, <1>9 DEF OptTells
  <1>14. \A i \in LastLine(t, Len(t), "--username") : o.username = t[i].arg
    BY <1>6, <1>7, <1>8, <1>9 DEF OptTells
  <1> QED  BY <1>10, <1>11, <1>14 DEF OptTells, t

(* Every ClientApp that runs was made of all the lines, and so tells what  *)
(* the last of them say.                                                   *)
ClTold ==
    /\ conf \in ClConfigs /\ argv0 \in ClArgs
    /\ argv \in Seq(ReadLine) /\ SameLines(argv, argv0)
    /\ main \in {"run", "join"} => OptTells(opts, AllLines(conf, argv0), Len(AllLines(conf, argv0)))
ClInv == ClTypeOK /\ ClTold

\* what the lines say, as the property says it
LinesSay(all, o) ==
  LET LastOf(cmd) == {i \in 1..Len(all) : /\ all[i].cmd = cmd
                                          /\ \A j \in 1..Len(all) : all[j].cmd = cmd => j <= i}
  IN  /\ \A i \in LastOf("--port") : o.port = (IF all[i].num \in Ports THEN all[i].num ELSE 5900)
      /\ LastOf("--port") = {} => o.port = 5900
      /\ \A i \in LastOf("--username") : o.username = all[i].arg

LEMMA TellsSay ==
  ASSUME NEW all, NEW o, OptTells(o, all, Len(all))
  PROVE  LinesSay(all, o)
  BY DEF OptTells, LastLine, PortOf, LinesSay

LEMMA ClInvGives == ASSUME ClInv PROVE ClOptions
  <1>1. main \in {"run", "join"} => LinesSay(AllLines(conf, argv0), opts)
    BY TellsSay DEF ClInv, ClTold
  <1>2. main \in {"run", "join"} =>
          LinesSay(conf.etc \o conf.user \o argv0
                   \o (IF \E i \in 1..Len(argv0) : argv0[i].cmd = "--load" THEN conf.ext ELSE <<>>), opts)
    BY <1>1 DEF AllLines, HasExt
  <1>3. ClLoadPriority <=> (main \in {"run", "join"} =>
          LinesSay(conf.etc \o conf.user \o argv0
                   \o (IF \E i \in 1..Len(argv0) : argv0[i].cmd = "--load" THEN conf.ext ELSE <<>>), opts))
    BY DEF ClLoadPriority, LinesSay
  <1>4. ClLoadPriority
    BY <1>2, <1>3
  <1> QED  BY <1>4 DEF ClInv, ClOptions

LEMMA ClInitEstablishes == ASSUME ClInit PROVE ClInv
  <1>1. argv \in Seq(ReadLine) /\ SameLines(argv, argv0)
    <2>1. argv0 \in ClLines /\ conf \in ClConfigs
      BY ClAssumption DEF ClInit
    <2> QED  BY <2>1, LinesRead DEF ClInit, SameLines
  <1>2. opts.port \in Ports /\ opts.redirect \subseteq {"pcsc", "audio", "cups", "fuse"} /\ ~opts.bad
    <2>1. 5900 \in Ports
      BY DEF Ports
    <2>2. NoOpts.port = 5900 /\ NoOpts.redirect = {} /\ NoOpts.bad = FALSE
      BY DEF NoOpts
    <2>3. opts = NoOpts
      BY DEF ClInit
    <2> QED  BY <2>1, <2>2, <2>3
  <1>3. 0 \in 0..ClApps /\ 0 \in 0..ClFails /\ 0 \in 0..2
    BY ClAssumption
  <1>4. ClTypeOK
    BY <1>2, <1>3, Zenon DEF ClInit, ClTypeOK
  <1>5. ClTold
    BY <1>1 DEF ClInit, ClTold
  <1> QED  BY <1>4, <1>5 DEF ClInv

LEMMA MakeAppKeeps == ASSUME ClInv, MakeApp PROVE ClInv'
  <1> DEFINE o == MadeOpts(conf, argv)
             h == HidePasswordArgument(argv)
  <1>1. opts' = o /\ conf' = conf /\ argv0' = argv0 /\ failed' = failed
    BY DEF MakeApp
  <1>2. /\ OptFits(o)
        /\ o.bad = FALSE => OptTells(o, AllLines(conf, argv), Len(AllLines(conf, argv)))
    BY MadeTells DEF ClInv, ClTold
  <1>3. argv0 \in Seq(ReadLine)
    BY ClAssumption, LinesRead DEF ClInv, ClTold
  <1>4. o.bad = FALSE => OptTells(o, AllLines(conf, argv0), Len(AllLines(conf, argv0)))
    BY <1>2, <1>3, SameTells DEF ClInv, ClTold
  <1>5. /\ o.loop \in BOOLEAN /\ (o.bad = TRUE \/ o.bad = FALSE)
        /\ o.port \in Ports /\ o.redirect \subseteq {"pcsc", "audio", "cups", "fuse"}
    BY <1>2 DEF OptFits, Redirects
  <1>6. CASE o.bad = TRUE
    <2>1. /\ main' = "returned"
          /\ UNCHANGED <<argv, restarting, apps, rfb, window, initAnswer, sdl, x11, sig, guard, stops, told>>
      BY <1>6 DEF MakeApp
    <2> HIDE DEF o
    <2>2. opts'.port \in Ports /\ opts'.redirect \subseteq {"pcsc", "audio", "cups", "fuse"}
      BY <1>1, <1>5
    <2>3. ClTypeOK'
      BY <1>1, <2>1, <2>2 DEF ClInv, ClTypeOK
    <2>4. ClTold'
      BY <1>1, <2>1 DEF ClInv, ClTold
    <2> QED  BY <2>3, <2>4 DEF ClInv
  <1>7. CASE o.bad = FALSE
    <2>1. /\ main' = "run" /\ argv' = h /\ restarting' = o.loop /\ apps' = apps + 1
          /\ rfb' = "connect" /\ window' = FALSE /\ initAnswer' = "none"
          /\ sdl' = "none" /\ x11' = "none" /\ sig' = "none" /\ guard' = TRUE /\ stops' = 0
          /\ apps < ClApps
      BY <1>7 DEF MakeApp
    <2>2. h \in Seq(ReadLine) /\ SameLines(h, argv0)
      BY <1>3, HiddenArgs DEF ClInv, ClTold
    <2> HIDE DEF o, h
    <2>3. apps' \in 0..ClApps /\ failed' \in 0..ClFails
      BY <1>1, <2>1, ClAssumption DEF ClInv, ClTypeOK
    <2>4. Len(argv') = Len(argv0')
      BY <1>1, <2>1, <2>2 DEF SameLines
    <2>5. opts'.port \in Ports /\ opts'.redirect \subseteq {"pcsc", "audio", "cups", "fuse"} /\ ~opts'.bad
      BY <1>1, <1>5, <1>7
    <2>6. restarting' \in BOOLEAN
      BY <1>5, <2>1
    <2>7. ClTypeOK'
      <3>1. stops' \in 0..2
        BY <2>1
      <3>2. main' = "run" /\ rfb' = "connect" /\ window' = FALSE /\ initAnswer' = "none"
            /\ sdl' = "none" /\ x11' = "none" /\ sig' = "none" /\ guard' = TRUE
        BY <2>1
      <3> QED  BY <2>3, <2>4, <2>5, <2>6, <3>1, <3>2, Zenon DEF ClTypeOK
    <2>8. OptTells(opts', AllLines(conf, argv0), Len(AllLines(conf, argv0)))
      BY <1>1, <1>4, <1>7
    <2>9. ClTold'
      BY <1>1, <2>1, <2>2, <2>8 DEF ClInv, ClTold
    <2> QED  BY <2>7, <2>9 DEF ClInv
  <1> QED  BY <1>5, <1>6, <1>7

\* the other steps leave the options and what they were made of alone, and
\* never begin a ClientApp
LEMMA ClSteps ==
  ASSUME ClInv, ClNext, ~MakeApp
  PROVE  ClTypeOK' /\ UNCHANGED <<conf, argv0, argv, opts>> /\ (main' \in {"run", "join"} => main \in {"run", "join"})
  <1> USE DEF ClInv
  <1> USE ClAssumption DEF ClTypeOK
  <1>1. CASE RfbSteps
    BY <1>1 DEF RfbSteps, RfbConnect, RfbAuthenticate, RecvPixelFormatEvent, RfbHandshakeEnds, RfbUnchanged,
                PostStop, Posted
  <1>2. CASE Aborts
    <2>1. CASE \E res \in {"error", "aborted"} : rfb = "cancel" /\ RfbMessagesEnd(res)
      BY <2>1 DEF RfbMessagesEnd, RfbUnchanged, PostStop, Posted
    <2>2. CASE SdlLoopAborted
      BY <2>2 DEF SdlLoopAborted
    <2>3. CASE X11LoopEnds("aborted")
      BY <2>3 DEF X11LoopEnds, RfbUnchanged, PostStop, Posted
    <2>4. CASE StopApp
      <3>1. stops' \in 0..2 /\ guard' = FALSE
        BY <2>4 DEF StopApp
      <3>2. /\ rfb' = Cancelled(rfb) /\ sdl' = Cancelled(sdl) /\ x11' = Cancelled(x11)
            /\ sig' = (IF sig = "wait" THEN "done" ELSE sig)
            /\ UNCHANGED <<conf, argv0, argv, opts, main, restarting, apps, failed, window, initAnswer, told>>
        BY <2>4 DEF StopApp
      <3> QED  BY <3>1, <3>2 DEF Cancelled
    <2>5. CASE SignalsWait
      BY <2>5 DEF SignalsWait, RfbUnchanged
    <2> QED  BY <1>2, <2>1, <2>2, <2>3, <2>4, <2>5 DEF Aborts
  <1>3. CASE MainSteps
    <2>1. ASSUME NEW res \in {"ok", "format", "throws"}, SdlWindowInit(res)
          PROVE  /\ ClTypeOK' /\ UNCHANGED <<conf, argv0, argv, opts>>
                 /\ main' \in {"run", "join"} => main \in {"run", "join"}
      <3>1. window' = (res # "throws") /\ initAnswer' = res /\ sdl' = (IF res = "ok" THEN "run" ELSE sdl)
            /\ UNCHANGED <<conf, argv0, argv, opts, main, restarting, apps, failed, rfb, x11, sig, guard, stops, told>>
        BY <2>1 DEF SdlWindowInit
      <3>2. window' \in BOOLEAN
        BY <3>1
      <3> QED  BY <3>1, <3>2
    <2>2. CASE SdlContextEnds
      BY <2>2 DEF SdlContextEnds, appVars
    <2>3. CASE PoolJoined
      BY <2>3 DEF PoolJoined, appVars
    <2> QED  BY <1>3, <2>1, <2>2, <2>3 DEF MainSteps
  <1>4. CASE MakeAppThrows
    BY <1>4 DEF MakeAppThrows, appVars
  <1>5. CASE RfbMessagesEnd("error")
    BY <1>5 DEF RfbMessagesEnd, RfbUnchanged, PostStop, Posted
  <1>6. CASE SendClientVariables
    BY <1>6 DEF SendClientVariables
  <1>7. CASE \E ends \in BOOLEAN : SdlEventStops(ends)
    BY <1>7 DEF SdlEventStops, PostStop, Posted
  <1>8. CASE X11LoopEnds("error")
    BY <1>8 DEF X11LoopEnds, RfbUnchanged, PostStop, Posted
  <1>9. CASE SignalArrives
    BY <1>9 DEF SignalArrives, RfbUnchanged, PostStop, Posted
  <1> QED  BY <1>1, <1>2, <1>3, <1>4, <1>5, <1>6, <1>7, <1>8, <1>9 DEF ClNext

(* The port and the name of every ClientApp are the last ones along the    *)
(* priority list of printHelp, whatever the files and the command line     *)
(* hold, however often the connection ends and however often --loop makes  *)
(* a new ClientApp of a command line that has been overwritten.            *)
THEOREM OptionsByPriority == ClSpec => []ClOptions
  <1>1. ClInit => ClInv
    BY ClInitEstablishes
  <1>2. ClInv /\ [ClNext]_clVars => ClInv'
    <2> SUFFICES ASSUME ClInv, [ClNext]_clVars PROVE ClInv'
      OBVIOUS
    <2>1. CASE MakeApp
      BY <2>1, MakeAppKeeps
    <2>2. CASE ClNext /\ ~MakeApp
      BY <2>2, ClSteps DEF ClInv, ClTold
    <2>3. CASE UNCHANGED clVars
      BY <2>3 DEF clVars, ClInv, ClTypeOK, ClTold
    <2> QED  BY <2>1, <2>2, <2>3
  <1>3. ClInv => ClOptions
    BY ClInvGives
  <1> QED  BY <1>1, <1>2, <1>3, PTL DEF ClSpec
-----------------------------------------------------------------------------
(* The connector of an RDP client.  Whatever has been drawn and not shown  *)
(* is owed to the client by somebody: an event that waits for the poll,    *)
(* the region that is damaged, the picture that is being sent, or the      *)
(* activation that will damage the whole screen.                           *)
RdNow == [display |-> rdConn, screen |-> rdScreen[rdConn], prims |-> rdPrim]
RdOwed ==
    \/ rdEvents # <<>> \/ rdPending # "none"
    \/ rdMain = "send" /\ rdGrab = RdNow
    \/ rdMain # "send" /\ (rdDamage = TRUE \/ rdShown = RdNow)
RdEventsFit(q) == q \in Seq({"damage", "resize"})
RdInv ==
    /\ RdTypeOK
    /\ RdEventsFit(rdEvents)
    /\ rdMain = "send" => rdDamage = TRUE
    /\ rdXcb = TRUE /\ rdConn \in RdDisplays /\ rdLost = FALSE => RdOwed
    /\ rdLogin # "none" => rdPending # "capabilities"
    /\ rdLogin = "reconnect" => rdConn = -1

\* what a handler adds to the events is there
LEMMA QueuedFits ==
  ASSUME NEW q, RdEventsFit(q), NEW e \in {"damage", "resize"}
  PROVE  RdEventsFit(RdQueued(q, e)) /\ RdQueued(q, e) # <<>>
  <1>1. CASE Len(q) > 0 /\ q[Len(q)] = e
    <2>1. q # <<>>
      BY <1>1
    <2> QED  BY <1>1, <2>1 DEF RdQueued
  <1>2. CASE ~(Len(q) > 0 /\ q[Len(q)] = e)
    <2>1. RdQueued(q, e) = Append(q, e)
      BY <1>2 DEF RdQueued
    <2>2. Append(q, e) \in Seq({"damage", "resize"}) /\ Append(q, e) # <<>>
      BY DEF RdEventsFit
    <2> QED  BY <2>1, <2>2 DEF RdEventsFit
  <1> QED  BY <1>1, <1>2

LEMMA DamageFits ==
  ASSUME RdEventsFit(rdEvents)
  PROVE  /\ RdEventsFit(RdAddDamage(rdEvents))
         /\ rdConn \in RdDisplays => RdAddDamage(rdEvents) # <<>>
         /\ RdEventsFit(RdServerScreenUpdateRequest(rdEvents))
         /\ rdXcb = TRUE /\ rdConn \in RdDisplays => RdServerScreenUpdateRequest(rdEvents) # <<>>
  BY QueuedFits DEF RdAddDamage, RdServerScreenUpdateRequest

LEMMA ResizeFits ==
  ASSUME RdInv, NEW d, NEW size \in RdSizes, SetRandrScreenSize(d, size)
  PROVE  /\ rdSize' \in [RdDisplays -> RdSizes] /\ RdEventsFit(rdEvents') /\ rdLost' \in {TRUE, FALSE}
         /\ rdLost' = TRUE \/ (rdEvents' # <<>> /\ rdLost' = rdLost)
  <1>1. RdEventsFit(RdQueued(rdEvents, "resize")) /\ RdQueued(rdEvents, "resize") # <<>>
    BY QueuedFits DEF RdInv
  <1> QED  BY <1>1 DEF RdInv, RdTypeOK, SetRandrScreenSize

\* the type invariant: the threads' places, the flags, and what belongs to the session
RdPlaces ==
    /\ rdMain \in {"init", "loop", "poll", "send", "proxy", "stop", "join", "exit", "exited", "crashed"}
    /\ rdPeer \in {"none", "loop", "closing", "ended"} /\ rdStop \in {"none", "open", "set", "freed", "null"}
    /\ rdProxy \in {"none", "run", "ended", "closed"} /\ rdRemote \in {"on", "gone"}
    /\ rdTimer \in {"none", "armed", "off"}
    /\ rdLogin \in {"none", "wait", "reconnect", "connected", "failed", "done"}
    /\ rdPending \in {"capabilities", "post", "activate", "none", "refused"}
    /\ rdPeer = "ended" => rdStop = "null"
RdFlags ==
    /\ rdFlag \in {TRUE, FALSE} /\ rdStopped \in {TRUE, FALSE} /\ rdXcb \in {TRUE, FALSE} /\ rdActive \in {TRUE, FALSE}
    /\ rdPart \in {TRUE, FALSE} /\ rdDamage \in {TRUE, FALSE} /\ rdLost \in {TRUE, FALSE} /\ rdDropped \in {TRUE, FALSE}
RdData ==
    /\ rdDisplay \in {0} \cup RdDisplays /\ rdConn \in {-1, 0} \cup RdDisplays
    /\ rdDesk \in RdSizes /\ rdSize \in [RdDisplays -> RdSizes]
    /\ rdHeld \subseteq DOMAIN RdKeymap /\ rdKeys \subseteq UNION {RdKeymap[k] : k \in DOMAIN RdKeymap}

\* what is owed, and what the login has reached
RdOwes ==
    /\ RdEventsFit(rdEvents)
    /\ rdMain = "send" => rdDamage = TRUE
    /\ rdXcb = TRUE /\ rdConn \in RdDisplays /\ rdLost = FALSE => RdOwed
    /\ rdLogin # "none" => rdPending # "capabilities"
    /\ rdLogin = "reconnect" => rdConn = -1

LEMMA RdInvIs ==
  /\ RdInv <=> RdPlaces /\ RdFlags /\ RdData /\ RdOwes
  /\ RdInv' <=> RdPlaces' /\ RdFlags' /\ RdData' /\ RdOwes'
  <1>1. \A x : x \in BOOLEAN <=> x \in {TRUE, FALSE}
    OBVIOUS
  <1>2. RdTypeOK <=> RdPlaces /\ RdFlags /\ RdData
    BY <1>1 DEF RdTypeOK, RdPlaces, RdFlags, RdData
  <1>3. RdTypeOK' <=> RdPlaces' /\ RdFlags' /\ RdData'
    BY <1>1 DEF RdTypeOK, RdPlaces, RdFlags, RdData
  <1> QED  BY <1>2, <1>3 DEF RdInv, RdOwes

\* the threads that end the connector, and the timer, show nothing and drop nothing
RdSteady == UNCHANGED <<rdConn, rdLost, rdEvents, rdPending, rdGrab, rdScreen, rdPrim, rdDamage, rdShown, rdLogin>>
RdSteadyData == UNCHANGED <<rdActive, rdPart, rdDropped, rdDisplay, rdDesk, rdSize, rdHeld, rdKeys>>

LEMMA SteadyOwes ==
  ASSUME RdInv, RdSteady, RdSteadyData, rdMain' = "send" => rdMain = "send", rdXcb' \in {rdXcb, FALSE},
         rdFlag' \in {TRUE, FALSE}, rdStopped' \in {TRUE, FALSE}, RdPlaces'
  PROVE  RdInv'
  <1>0. RdPlaces /\ RdFlags /\ RdData /\ RdOwes
    BY RdInvIs
  <1>1. RdEventsFit(rdEvents') /\ (rdMain' = "send" => rdDamage' = TRUE)
    BY <1>0 DEF RdOwes, RdSteady
  <1>2. ASSUME rdXcb' = TRUE, rdConn' \in RdDisplays, rdLost' = FALSE PROVE RdOwed'
    <2>1. RdOwed /\ RdNow' = RdNow
      BY <1>0, <1>2 DEF RdOwes, RdSteady, RdNow
    <2> QED  BY <2>1 DEF RdInv, RdSteady, RdOwed
  <1>3. RdOwes'
    BY <1>0, <1>1, <1>2 DEF RdOwes, RdSteady
  <1>4. RdData'
    BY <1>0 DEF RdData, RdSteady, RdSteadyData
  <1>5. RdFlags'
    <2>1. rdXcb' \in {TRUE, FALSE}
      BY <1>0 DEF RdFlags
    <2>2. rdActive' \in {TRUE, FALSE} /\ rdPart' \in {TRUE, FALSE} /\ rdDropped' \in {TRUE, FALSE}
      BY <1>0 DEF RdFlags, RdSteadyData
    <2>3. rdDamage' \in {TRUE, FALSE} /\ rdLost' \in {TRUE, FALSE}
      BY <1>0 DEF RdFlags, RdSteady
    <2>4. rdFlag' \in {TRUE, FALSE} /\ rdStopped' \in {TRUE, FALSE}
      OBVIOUS
    <2> QED  BY <2>1, <2>2, <2>3, <2>4 DEF RdFlags
  <1> QED  BY <1>3, <1>4, <1>5, RdInvIs

LEMMA RdEnding ==
  ASSUME RdInv,
         \/ RdCommunication \/ LoopCheck \/ PollTorn \/ ProxyShutdown \/ MainStops \/ MainJoins \/ RdTerminated
         \/ TimerNotActivated \/ RdHangUp \/ TransmitDataIteration \/ PeerLeaves \/ PeerEnds \/ OnShutdownConnector
         \/ UNCHANGED rdVars
  PROVE  RdInv'
  <1>0. RdPlaces /\ RdFlags /\ RdData
    BY RdInvIs
  <1> USE <1>0 DEF rdThreads, rdLink, rdPicture, rdInput, RdMainTo, StopEventLoop, RdSteady, RdSteadyData
  <1>1. CASE RdCommunication
    <2>1. RdSteady /\ RdSteadyData /\ (rdMain' = "send" => rdMain = "send") /\ rdXcb' \in {rdXcb, FALSE}
      BY <1>1 DEF RdCommunication, FreeRdpCallbackMade
    <2>2. rdFlag' \in {TRUE, FALSE} /\ rdStopped' \in {TRUE, FALSE}
      BY <1>1 DEF RdCommunication, FreeRdpCallbackMade, RdFlags
    <2>3. RdPlaces'
      BY <1>1 DEF RdCommunication, FreeRdpCallbackMade, RdPlaces
    <2> QED  BY <2>1, <2>2, <2>3, SteadyOwes
  <1>2. CASE LoopCheck
    <2>1. RdSteady /\ RdSteadyData /\ (rdMain' = "send" => rdMain = "send") /\ rdXcb' \in {rdXcb, FALSE}
      BY <1>2 DEF LoopCheck
    <2>2. rdFlag' \in {TRUE, FALSE} /\ rdStopped' \in {TRUE, FALSE}
      BY <1>2 DEF LoopCheck, RdFlags
    <2>3. RdPlaces'
      BY <1>2 DEF LoopCheck, RdPlaces
    <2> QED  BY <2>1, <2>2, <2>3, SteadyOwes
  <1>3. CASE PollTorn
    <2>1. RdSteady /\ RdSteadyData /\ (rdMain' = "send" => rdMain = "send") /\ rdXcb' \in {rdXcb, FALSE}
      BY <1>3 DEF PollTorn
    <2>2. rdFlag' \in {TRUE, FALSE} /\ rdStopped' \in {TRUE, FALSE}
      BY <1>3 DEF PollTorn, RdFlags
    <2>3. RdPlaces'
      BY <1>3 DEF PollTorn, RdPlaces
    <2> QED  BY <2>1, <2>2, <2>3, SteadyOwes
  <1>4. CASE ProxyShutdown
    <2>1. RdSteady /\ RdSteadyData /\ (rdMain' = "send" => rdMain = "send") /\ rdXcb' \in {rdXcb, FALSE}
      BY <1>4 DEF ProxyShutdown
    <2>2. rdFlag' \in {TRUE, FALSE} /\ rdStopped' \in {TRUE, FALSE}
      BY <1>4 DEF ProxyShutdown, RdFlags
    <2>3. RdPlaces'
      BY <1>4 DEF ProxyShutdown, RdPlaces
    <2> QED  BY <2>1, <2>2, <2>3, SteadyOwes
  <1>5. CASE MainStops
    <2>1. RdSteady /\ RdSteadyData /\ (rdMain' = "send" => rdMain = "send") /\ rdXcb' \in {rdXcb, FALSE}
      BY <1>5 DEF MainStops
    <2>2. rdFlag' \in {TRUE, FALSE} /\ rdStopped' \in {TRUE, FALSE}
      BY <1>5 DEF MainStops, RdFlags
    <2>3. RdPlaces'
      BY <1>5 DEF MainStops, RdPlaces
    <2> QED  BY <2>1, <2>2, <2>3, SteadyOwes
  <1>6. CASE MainJoins
    <2>1. RdSteady /\ RdSteadyData /\ (rdMain' = "send" => rdMain = "send") /\ rdXcb' \in {rdXcb, FALSE}
      BY <1>6 DEF MainJoins
    <2>2. rdFlag' \in {TRUE, FALSE} /\ rdStopped' \in {TRUE, FALSE}
      BY <1>6 DEF MainJoins, RdFlags
    <2>3. RdPlaces'
      BY <1>6 DEF MainJoins, RdPlaces
    <2> QED  BY <2>1, <2>2, <2>3, SteadyOwes
  <1>7. CASE RdTerminated
    <2>1. RdSteady /\ RdSteadyData /\ (rdMain' = "send" => rdMain = "send") /\ rdXcb' \in {rdXcb, FALSE}
      BY <1>7 DEF RdTerminated
    <2>2. rdFlag' \in {TRUE, FALSE} /\ rdStopped' \in {TRUE, FALSE}
      BY <1>7 DEF RdTerminated, RdFlags
    <2>3. RdPlaces'
      BY <1>7 DEF RdTerminated, RdPlaces
    <2> QED  BY <2>1, <2>2, <2>3, SteadyOwes
  <1>8. CASE TimerNotActivated
    <2>1. RdSteady /\ RdSteadyData /\ (rdMain' = "send" => rdMain = "send") /\ rdXcb' \in {rdXcb, FALSE}
      BY <1>8 DEF TimerNotActivated
    <2>2. rdFlag' \in {TRUE, FALSE} /\ rdStopped' \in {TRUE, FALSE}
      BY <1>8 DEF TimerNotActivated, RdFlags
    <2>3. RdPlaces'
      BY <1>8 DEF TimerNotActivated, RdPlaces
    <2> QED  BY <2>1, <2>2, <2>3, SteadyOwes
  <1>9. CASE RdHangUp
    <2>1. RdSteady /\ RdSteadyData /\ (rdMain' = "send" => rdMain = "send") /\ rdXcb' \in {rdXcb, FALSE}
      BY <1>9 DEF RdHangUp
    <2>2. rdFlag' \in {TRUE, FALSE} /\ rdStopped' \in {TRUE, FALSE}
      BY <1>9 DEF RdHangUp, RdFlags
    <2>3. RdPlaces'
      BY <1>9 DEF RdHangUp, RdPlaces
    <2> QED  BY <2>1, <2>2, <2>3, SteadyOwes
  <1>10. CASE TransmitDataIteration
    <2>1. RdSteady /\ RdSteadyData /\ (rdMain' = "send" => rdMain = "send") /\ rdXcb' \in {rdXcb, FALSE}
      BY <1>10 DEF TransmitDataIteration
    <2>2. rdFlag' \in {TRUE, FALSE} /\ rdStopped' \in {TRUE, FALSE}
      BY <1>10 DEF TransmitDataIteration, RdFlags
    <2>3. RdPlaces'
      BY <1>10 DEF TransmitDataIteration, RdPlaces
    <2> QED  BY <2>1, <2>2, <2>3, SteadyOwes
  <1>11. CASE PeerLeaves
    <2>1. RdSteady /\ RdSteadyData /\ (rdMain' = "send" => rdMain = "send") /\ rdXcb' \in {rdXcb, FALSE}
      BY <1>11 DEF PeerLeaves
    <2>2. rdFlag' \in {TRUE, FALSE} /\ rdStopped' \in {TRUE, FALSE}
      BY <1>11 DEF PeerLeaves, RdFlags
    <2>3. RdPlaces'
      BY <1>11 DEF PeerLeaves, RdPlaces
    <2> QED  BY <2>1, <2>2, <2>3, SteadyOwes
  <1>12. CASE PeerEnds
    <2>1. RdSteady /\ RdSteadyData /\ (rdMain' = "send" => rdMain = "send") /\ rdXcb' \in {rdXcb, FALSE}
      BY <1>12 DEF PeerEnds
    <2>2. rdFlag' \in {TRUE, FALSE} /\ rdStopped' \in {TRUE, FALSE}
      BY <1>12 DEF PeerEnds, RdFlags
    <2>3. RdPlaces'
      BY <1>12 DEF PeerEnds, RdPlaces
    <2> QED  BY <2>1, <2>2, <2>3, SteadyOwes
  <1>13. CASE OnShutdownConnector
    <2>1. RdSteady /\ RdSteadyData /\ (rdMain' = "send" => rdMain = "send") /\ rdXcb' \in {rdXcb, FALSE}
      BY <1>13 DEF OnShutdownConnector
    <2>2. rdFlag' \in {TRUE, FALSE} /\ rdStopped' \in {TRUE, FALSE}
      BY <1>13 DEF OnShutdownConnector, RdFlags
    <2>3. RdPlaces'
      BY <1>13 DEF OnShutdownConnector, RdPlaces
    <2> QED  BY <2>1, <2>2, <2>3, SteadyOwes
  <1>14. CASE UNCHANGED rdVars
    <2>1. RdSteady /\ RdSteadyData /\ (rdMain' = "send" => rdMain = "send") /\ rdXcb' \in {rdXcb, FALSE}
      BY <1>14 DEF rdVars
    <2>2. rdFlag' \in {TRUE, FALSE} /\ rdStopped' \in {TRUE, FALSE}
      BY <1>14 DEF rdVars, RdFlags
    <2>3. RdPlaces'
      BY <1>14 DEF rdVars, RdPlaces
    <2> QED  BY <2>1, <2>2, <2>3, SteadyOwes
  <1> QED  BY <1>1, <1>2, <1>3, <1>4, <1>5, <1>6, <1>7, <1>8, <1>9, <1>10, <1>11, <1>12, <1>13, <1>14


\* the polling thread
LEMMA RdPolls ==
  ASSUME RdInv, XcbPollEvent \/ XcbEventLoopAsync \/ SendUpdate
  PROVE  RdInv'
  <1>0. RdPlaces /\ RdFlags /\ RdData /\ RdOwes
    BY RdInvIs
  <1> USE <1>0 DEF rdThreads, rdLink, rdPicture, rdInput, RdMainTo
  <1>1. CASE XcbPollEvent
    <2>1. PICK e \in {"damage", "resize"} : e = Head(rdEvents)
      BY <1>1 DEF XcbPollEvent, RdOwes, RdEventsFit
    <2>2. RdEventsFit(rdEvents')
      BY <1>1 DEF XcbPollEvent, RdOwes, RdEventsFit
    <2>3. rdMain' = "poll" /\ rdLogin' = rdLogin /\ rdConn' = rdConn /\ rdConn \in RdDisplays /\ rdLost' = rdLost
      BY <1>1 DEF XcbPollEvent
    <2>4. CASE e = "damage"
      <3>1. rdDamage' = TRUE /\ UNCHANGED <<rdActive, rdDesk, rdPending>>
        BY <1>1, <2>1, <2>4 DEF XcbPollEvent
      <3>2. RdOwes'
        BY <2>2, <2>3, <3>1 DEF RdOwes, RdOwed
      <3>3. RdPlaces'
        BY <1>1, <3>1 DEF XcbPollEvent, RdPlaces
      <3>4. RdFlags'
        BY <1>1, <3>1 DEF XcbPollEvent, RdFlags
      <3>5. RdData'
        BY <1>1, <3>1 DEF XcbPollEvent, RdData
      <3> QED  BY <3>2, <3>3, <3>4, <3>5, RdInvIs
    <2>5. CASE e = "resize"
      <3>1. DesktopResizeEvent(rdSize[rdConn])
        BY <1>1, <2>1, <2>5 DEF XcbPollEvent
      <3>2. rdPending' \in {"capabilities", "post", "activate", "refused"} /\ (rdPending' = "capabilities" => rdPending = "capabilities")
        BY <3>1 DEF DesktopResizeEvent, RdPlaces
      <3>3. RdOwes'
        BY <2>2, <2>3, <3>2 DEF RdOwes, RdOwed
      <3>4. RdPlaces'
        BY <1>1, <3>2 DEF XcbPollEvent, RdPlaces
      <3>5. RdFlags'
        BY <1>1, <3>1 DEF XcbPollEvent, RdFlags, DesktopResizeEvent
      <3>6. rdDesk' \in RdSizes
        BY <2>3, <3>1 DEF DesktopResizeEvent, RdData
      <3>7. RdData'
        BY <1>1, <3>6 DEF XcbPollEvent, RdData
      <3> QED  BY <3>3, <3>4, <3>5, <3>7, RdInvIs
    <2> QED  BY <2>4, <2>5
  <1>2. CASE XcbEventLoopAsync
    <2>1. UNCHANGED <<rdConn, rdScreen, rdPrim, rdEvents, rdPending, rdDamage, rdShown, rdLost, rdXcb, rdLogin>>
      BY <1>2 DEF XcbEventLoopAsync
    <2>2. \/ rdMain' = "send" /\ rdGrab' = RdNow /\ rdDamage = TRUE
          \/ rdMain' = "loop"
      BY <1>2 DEF XcbEventLoopAsync, RdNow
    <2>3. RdNow' = RdNow
      BY <2>1 DEF RdNow
    <2>4. rdMain = "poll"
      BY <1>2 DEF XcbEventLoopAsync
    <2>5. ASSUME rdXcb' = TRUE, rdConn' \in RdDisplays, rdLost' = FALSE PROVE RdOwed'
      <3>1. RdOwed
        BY <2>1, <2>5 DEF RdOwes
      <3> QED  BY <2>1, <2>2, <2>3, <2>4, <3>1 DEF RdOwed
    <2>6. RdOwes'
      BY <2>1, <2>2, <2>5 DEF RdOwes
    <2>7. RdPlaces' /\ RdData'
      BY <1>2, <2>2 DEF XcbEventLoopAsync, RdPlaces, RdData
    <2>8. RdFlags'
      BY <1>2 DEF XcbEventLoopAsync, RdFlags
    <2> QED  BY <2>6, <2>7, <2>8, RdInvIs
  <1>3. CASE SendUpdate
    <2>1. UNCHANGED <<rdConn, rdScreen, rdPrim, rdEvents, rdPending, rdLost, rdXcb, rdLogin>> /\ rdMain = "send" /\ rdMain' = "loop"
      BY <1>3 DEF SendUpdate
    <2>2. \/ rdShown' = rdGrab /\ rdDamage' = FALSE /\ rdPart' = FALSE /\ rdFlag' = rdFlag
          \/ rdFlag' = TRUE /\ rdShown' = rdShown /\ rdDamage' = rdDamage /\ rdPart' = rdPart
      BY <1>3 DEF SendUpdate
    <2>3. RdNow' = RdNow
      BY <2>1 DEF RdNow
    <2>4. ASSUME rdXcb' = TRUE, rdConn' \in RdDisplays, rdLost' = FALSE PROVE RdOwed'
      <3>1. RdOwed /\ rdDamage = TRUE
        BY <2>1, <2>4 DEF RdOwes
      <3> QED  BY <2>1, <2>2, <2>3, <3>1 DEF RdOwed
    <2>5. RdOwes'
      BY <2>1, <2>4 DEF RdOwes
    <2>6. RdPlaces' /\ RdData'
      BY <1>3, <2>1 DEF SendUpdate, RdPlaces, RdData
    <2>7. rdDamage' \in {TRUE, FALSE} /\ rdPart' \in {TRUE, FALSE} /\ rdFlag' \in {TRUE, FALSE}
      BY <2>2 DEF RdFlags
    <2>8. UNCHANGED <<rdStopped, rdActive, rdDropped>>
      BY <1>3 DEF SendUpdate
    <2>9. RdFlags'
      BY <2>1, <2>7, <2>8 DEF RdFlags
    <2> QED  BY <2>5, <2>6, <2>9, RdInvIs
  <1> QED  BY <1>1, <1>2, <1>3

\* the thread of freerdp: the display's connection, what is asked of it, and keys
LEMMA RdPeerCalls ==
  ASSUME RdInv, CbServerCapabilities \/ CbServerPostConnect \/ CbServerActivate \/ CbServerRefreshRect
  PROVE  RdInv'
  <1>0. RdPlaces /\ RdFlags /\ RdData /\ RdOwes
    BY RdInvIs
  <1> USE <1>0 DEF rdThreads, rdLink, rdPicture, rdInput
  <1>1. CASE CbServerCapabilities
    <2>1. rdLogin' = "none" /\ rdMain' = rdMain /\ rdDamage' = rdDamage /\ rdPending' \in {"post", "refused"}
      BY <1>1 DEF CbServerCapabilities, RdOwes
    <2>2. rdEvents' = <<"damage">> \/ rdEvents' = rdEvents
      BY <1>1 DEF CbServerCapabilities, XcbConnected
    <2>3. <<"damage">> \in Seq({"damage", "resize"})
      OBVIOUS
    <2>4. RdEventsFit(rdEvents')
      BY <2>2, <2>3 DEF RdOwes, RdEventsFit
    <2>5. RdOwes'
      BY <2>1, <2>4 DEF RdOwes, RdOwed
    <2>6. RdPlaces' /\ RdFlags'
      <3>1. UNCHANGED <<rdPeer, rdStop, rdProxy, rdRemote, rdTimer, rdLogin>>
        BY <1>1 DEF CbServerCapabilities
      <3>2. UNCHANGED <<rdFlag, rdStopped, rdXcb, rdActive, rdPart, rdDamage, rdLost, rdDropped>>
        BY <1>1 DEF CbServerCapabilities
      <3>3. RdPlaces'
        BY <2>1, <3>1 DEF RdPlaces
      <3>4. RdFlags'
        BY <3>2 DEF RdFlags
      <3> QED  BY <3>3, <3>4
    <2>7. rdDisplay' \in {0} \cup RdDisplays /\ rdConn' \in {-1, 0} \cup RdDisplays /\ rdSize' \in [RdDisplays -> RdSizes]
      BY <1>1 DEF CbServerCapabilities, XcbConnected, RdData, RdDisplays
    <2>8. RdData'
      BY <1>1, <2>7 DEF CbServerCapabilities, RdData
    <2> QED  BY <2>5, <2>6, <2>8, RdInvIs
  <1>2. CASE CbServerPostConnect
    <2>1. rdDesk \in RdSizes
      BY DEF RdData
    <2>2. rdSize' \in [RdDisplays -> RdSizes] /\ RdEventsFit(rdEvents') /\ rdLost' \in {TRUE, FALSE}
      <3>1. CASE rdSize[1] # rdDesk
        BY <1>2, <2>1, <3>1, ResizeFits DEF CbServerPostConnect
      <3>2. CASE ~(rdSize[1] # rdDesk)
        BY <1>2, <3>2 DEF CbServerPostConnect, RdData, RdFlags, RdOwes
      <3> QED  BY <3>1, <3>2
    <2>3. rdPending' = "activate" /\ rdLogin' = rdLogin /\ rdMain' = rdMain /\ rdDamage' = rdDamage /\ rdConn' = rdConn
      BY <1>2 DEF CbServerPostConnect
    <2>4. RdOwes'
      BY <2>2, <2>3 DEF RdOwes, RdOwed
    <2>5. RdPlaces' /\ RdData'
      BY <1>2, <2>2 DEF CbServerPostConnect, RdPlaces, RdData
    <2>6. RdFlags'
      BY <1>2, <2>2 DEF CbServerPostConnect, RdFlags
    <2> QED  BY <2>4, <2>5, <2>6, RdInvIs
  <1>3. CASE CbServerActivate
    <2>1. RdEventsFit(rdEvents') /\ (rdConn \in RdDisplays => rdEvents' # <<>>)
      BY <1>3, DamageFits DEF CbServerActivate, RdOwes
    <2>2. rdPending' = "none" /\ rdLogin' = rdLogin /\ rdMain' = rdMain /\ rdDamage' = rdDamage /\ rdConn' = rdConn
      BY <1>3 DEF CbServerActivate
    <2>3. RdOwes'
      BY <2>1, <2>2 DEF RdOwes, RdOwed
    <2>4. RdPlaces' /\ RdData'
      BY <1>3 DEF CbServerActivate, RdPlaces, RdData
    <2>5. RdFlags'
      BY <1>3 DEF CbServerActivate, RdFlags
    <2> QED  BY <2>3, <2>4, <2>5, RdInvIs
  <1>4. CASE CbServerRefreshRect
    <2>1. RdEventsFit(rdEvents') /\ (rdConn \in RdDisplays => rdEvents' # <<>>)
      BY <1>4, DamageFits DEF CbServerRefreshRect, RdOwes
    <2>2. rdPending' = rdPending /\ rdLogin' = rdLogin /\ rdMain' = rdMain /\ rdDamage' = rdDamage /\ rdConn' = rdConn
      BY <1>4 DEF CbServerRefreshRect
    <2>3. RdOwes'
      BY <2>1, <2>2 DEF RdOwes, RdOwed
    <2>4. RdPlaces' /\ RdData'
      BY <1>4 DEF CbServerRefreshRect, RdPlaces, RdData
    <2>5. RdFlags'
      BY <1>4 DEF CbServerRefreshRect, RdFlags
    <2> QED  BY <2>3, <2>4, <2>5, RdInvIs
  <1> QED  BY <1>1, <1>2, <1>3, <1>4

\* output suppressed and allowed again
LEMMA RdSuppress ==
  ASSUME RdInv, NEW allow \in BOOLEAN, CbServerSuppressOutput(allow)
  PROVE  RdInv'
  <1>0. RdPlaces /\ RdFlags /\ RdData /\ RdOwes
    BY RdInvIs
  <1> USE <1>0 DEF rdThreads, rdLink, rdPicture, rdInput
  <1>1. UNCHANGED <<rdPending, rdLogin, rdMain, rdDamage, rdConn>> /\ rdXcb' = allow /\ allow \in {TRUE, FALSE}
    BY DEF CbServerSuppressOutput
  <1>2. RdEventsFit(rdEvents') /\ (allow = TRUE /\ rdConn \in RdDisplays => rdEvents' # <<>>)
    BY <1>1, DamageFits DEF CbServerSuppressOutput, RdOwes
  <1>3. RdOwes'
    BY <1>1, <1>2 DEF RdOwes, RdOwed
  <1>4. RdPlaces' /\ RdData'
    BY DEF CbServerSuppressOutput, RdPlaces, RdData
  <1>5. UNCHANGED <<rdFlag, rdStopped, rdActive, rdPart, rdDamage, rdLost, rdDropped>>
    BY DEF CbServerSuppressOutput
  <1>6. RdFlags'
    BY <1>1, <1>5 DEF RdFlags
  <1> QED  BY <1>3, <1>4, <1>6, RdInvIs

LEMMA RdTypes ==
  ASSUME RdInv, NEW k \in DOMAIN RdKeymap, NEW down \in BOOLEAN, CbServerKeyboardEvent(k, down)
  PROVE  RdInv'
  <1>0. RdPlaces /\ RdFlags /\ RdData /\ RdOwes
    BY RdInvIs
  <1> USE <1>0 DEF rdThreads, rdLink, rdPicture, rdInput
  <1>1. UNCHANGED <<rdEvents, rdLogin, rdMain, rdDamage, rdConn, rdLost, rdXcb, rdGrab, rdShown, rdScreen, rdPrim>>
    BY DEF CbServerKeyboardEvent
  <1>2. rdPending = "none" /\ rdPending' \in {"none", "refused"}
    BY DEF CbServerKeyboardEvent
  <1>3. RdNow' = RdNow
    BY <1>1 DEF RdNow
  <1>4. ASSUME rdXcb' = TRUE, rdConn' \in RdDisplays, rdLost' = FALSE PROVE RdOwed'
    <2>1. RdOwed
      BY <1>1, <1>4 DEF RdOwes
    <2> QED  BY <1>1, <1>2, <1>3, <2>1 DEF RdOwed
  <1>5. RdOwes'
    BY <1>1, <1>2, <1>4 DEF RdOwes
  <1>6. RdPlaces'
    BY <1>2 DEF CbServerKeyboardEvent, RdPlaces
  <1>7. rdDropped' \in {TRUE, FALSE}
    BY DEF CbServerKeyboardEvent, RdFlags
  <1>8. UNCHANGED <<rdFlag, rdStopped, rdActive, rdPart>>
    BY DEF CbServerKeyboardEvent
  <1>9. RdFlags'
    BY <1>1, <1>7, <1>8 DEF RdFlags
  <1>10. rdHeld' \subseteq DOMAIN RdKeymap
    BY DEF CbServerKeyboardEvent, RdData
  <1>11. rdKeys' \subseteq UNION {RdKeymap[m] : m \in DOMAIN RdKeymap}
    <2>1. RdKeymap[k] \subseteq UNION {RdKeymap[m] : m \in DOMAIN RdKeymap}
      OBVIOUS
    <2>2. rdKeys' = rdKeys \cup RdKeymap[k] \/ rdKeys' = rdKeys \ RdKeymap[k] \/ rdKeys' = rdKeys
      BY DEF CbServerKeyboardEvent, RdKeycodes
    <2> QED  BY <2>1, <2>2 DEF RdData
  <1>12. UNCHANGED <<rdDisplay, rdDesk, rdSize>>
    BY DEF CbServerKeyboardEvent
  <1>13. RdData'
    BY <1>1, <1>10, <1>11, <1>12 DEF RdData
  <1> QED  BY <1>5, <1>6, <1>9, <1>13, RdInvIs


\* the thread of dbus: the greeter's primitives and the change to the user's session
LEMMA RdCalls ==
  ASSUME RdInv, OnAddRender \/ OnClearRenderPrimitives \/ OnLoginSuccess \/ StartUserSession
  PROVE  RdInv'
  <1>0. RdPlaces /\ RdFlags /\ RdData /\ RdOwes
    BY RdInvIs
  <1> USE <1>0 DEF rdThreads, rdLink, rdPicture, rdInput
  <1>1. CASE OnAddRender \/ OnClearRenderPrimitives
    <2>1. UNCHANGED <<rdPending, rdLogin, rdMain, rdDamage, rdConn, rdXcb, rdLost>>
      BY <1>1 DEF OnAddRender, OnClearRenderPrimitives
    <2>2. RdEventsFit(rdEvents') /\ (rdXcb = TRUE /\ rdConn \in RdDisplays => rdEvents' # <<>>)
      BY <1>1, DamageFits DEF OnAddRender, OnClearRenderPrimitives, RdOwes
    <2>3. RdOwes'
      BY <2>1, <2>2 DEF RdOwes, RdOwed
    <2>4. RdPlaces' /\ RdData'
      BY <1>1 DEF OnAddRender, OnClearRenderPrimitives, RdPlaces, RdData
    <2>5. UNCHANGED <<rdFlag, rdStopped, rdActive, rdPart, rdDropped>>
      BY <1>1 DEF OnAddRender, OnClearRenderPrimitives
    <2>6. RdFlags'
      BY <2>1, <2>5 DEF RdFlags
    <2> QED  BY <2>3, <2>4, <2>6, RdInvIs
  <1>2. CASE OnLoginSuccess
    <2>1. UNCHANGED <<rdPending, rdMain, rdDamage, rdConn, rdLost, rdEvents>>
      BY <1>2 DEF OnLoginSuccess
    <2>2. rdXcb' = FALSE /\ rdLogin' = "wait" /\ rdPending # "capabilities"
      BY <1>2 DEF OnLoginSuccess
    <2>3. RdOwes'
      BY <2>1, <2>2 DEF RdOwes
    <2>4. RdPlaces' /\ RdData'
      BY <1>2 DEF OnLoginSuccess, RdPlaces, RdData
    <2>5. UNCHANGED <<rdFlag, rdStopped, rdActive, rdPart, rdDropped>>
      BY <1>2 DEF OnLoginSuccess
    <2>6. RdFlags'
      BY <2>1, <2>2, <2>5 DEF RdFlags
    <2> QED  BY <2>3, <2>4, <2>6, RdInvIs
  <1>3. CASE StartUserSession
    <2>1. UNCHANGED <<rdPending, rdMain, rdDamage, rdXcb, rdLost, rdEvents, rdGrab, rdShown, rdScreen, rdPrim>> /\ rdLogin = "wait"
      BY <1>3 DEF StartUserSession
    <2>2. \/ rdLogin' \in {"failed", "connected"} /\ rdConn' = rdConn
          \/ rdLogin' = "reconnect" /\ rdConn' = -1
      BY <1>3 DEF StartUserSession
    <2>3. ASSUME rdXcb' = TRUE, rdConn' \in RdDisplays, rdLost' = FALSE PROVE RdOwed'
      <3>1. rdConn' = rdConn
        BY <2>2, <2>3 DEF RdDisplays
      <3>2. RdOwed
        BY <2>1, <2>3, <3>1 DEF RdOwes
      <3>3. RdNow' = RdNow
        BY <2>1, <3>1 DEF RdNow
      <3> QED  BY <2>1, <3>2, <3>3 DEF RdOwed
    <2>4. RdOwes'
      BY <2>1, <2>2, <2>3 DEF RdOwes
    <2>5. RdPlaces' /\ RdData'
      BY <1>3, <2>2 DEF StartUserSession, RdPlaces, RdData
    <2>6. UNCHANGED <<rdFlag, rdStopped, rdActive, rdPart, rdDropped>>
      BY <1>3 DEF StartUserSession
    <2>7. RdFlags'
      BY <2>1, <2>6 DEF RdFlags
    <2> QED  BY <2>4, <2>5, <2>7, RdInvIs
  <1> QED  BY <1>1, <1>2, <1>3

LEMMA RdSwitches ==
  ASSUME RdInv, DisplayConnected \/ LoginShown \/ RdDraw
  PROVE  RdInv'
  <1>0. RdPlaces /\ RdFlags /\ RdData /\ RdOwes
    BY RdInvIs
  <1> USE <1>0 DEF rdThreads, rdLink, rdPicture, rdInput
  <1>1. CASE DisplayConnected
    <2>1. UNCHANGED <<rdPending, rdMain, rdDamage, rdLost, rdXcb>> /\ rdLogin' = "connected" /\ rdConn = -1
          /\ rdPending # "capabilities"
      BY <1>1 DEF DisplayConnected, RdOwes
    <2>2. \/ rdConn' = 2 /\ rdDisplay' = 2 /\ rdEvents' = <<"damage">>
          \/ rdConn' = -1 /\ rdDisplay' = 2 /\ rdEvents' = <<>>
      BY <1>1, <2>1 DEF DisplayConnected, XcbConnected
    <2>3. <<"damage">> \in Seq({"damage", "resize"}) /\ <<>> \in Seq({"damage", "resize"})
      OBVIOUS
    <2>4. RdEventsFit(rdEvents') /\ (rdConn' \in RdDisplays => rdEvents' # <<>>)
      <3>1. RdEventsFit(<<"damage">>) /\ RdEventsFit(<<>>) /\ <<"damage">> # <<>> /\ -1 \notin RdDisplays
        BY <2>3 DEF RdEventsFit, RdDisplays
      <3> QED  BY <2>2, <3>1
    <2>5. RdOwes'
      BY <2>1, <2>4 DEF RdOwes, RdOwed
    <2>6. UNCHANGED <<rdPeer, rdStop, rdProxy, rdRemote, rdTimer>>
      BY <1>1 DEF DisplayConnected
    <2>7. RdPlaces'
      BY <2>1, <2>6 DEF RdPlaces
    <2>8. rdSize' \in [RdDisplays -> RdSizes]
      BY <1>1 DEF DisplayConnected, XcbConnected, RdData
    <2>9. rdKeys' = {} /\ UNCHANGED <<rdHeld, rdDesk>>
      BY <1>1 DEF DisplayConnected
    <2>10. RdData'
      BY <2>2, <2>8, <2>9 DEF RdData, RdDisplays
    <2>11. rdDropped' \in {TRUE, FALSE}
      BY <1>1 DEF DisplayConnected, RdFlags
    <2>12. UNCHANGED <<rdFlag, rdStopped, rdActive, rdPart>>
      BY <1>1 DEF DisplayConnected
    <2>13. RdFlags'
      BY <2>1, <2>11, <2>12 DEF RdFlags
    <2> QED  BY <2>5, <2>7, <2>10, <2>13, RdInvIs
  <1>2. CASE LoginShown
    <2>1. UNCHANGED <<rdPending, rdMain, rdDamage, rdConn>> /\ rdLogin' = "done" /\ rdXcb' = TRUE /\ rdPending # "capabilities"
      BY <1>2 DEF LoginShown, RdOwes
    <2>2. rdDesk \in RdSizes
      BY DEF RdData
    <2>3. /\ rdSize' \in [RdDisplays -> RdSizes] /\ RdEventsFit(rdEvents') /\ rdLost' \in {TRUE, FALSE}
          /\ rdLost' = TRUE \/ (rdConn \in RdDisplays => rdEvents' # <<>>)
      <3>1. CASE rdSize[rdDisplay] # rdDesk
        BY <1>2, <2>2, <3>1, ResizeFits DEF LoginShown
      <3>2. CASE ~(rdSize[rdDisplay] # rdDesk)
        <4>1. rdEvents' = RdAddDamage(rdEvents) /\ rdSize' = rdSize /\ rdLost' = rdLost
          BY <1>2, <3>2 DEF LoginShown
        <4> QED  BY <4>1, DamageFits DEF RdData, RdFlags, RdOwes
      <3> QED  BY <3>1, <3>2
    <2>4. RdOwes'
      BY <2>1, <2>3 DEF RdOwes, RdOwed
    <2>5. UNCHANGED <<rdPeer, rdStop, rdProxy, rdRemote, rdTimer, rdDisplay, rdDesk, rdHeld, rdKeys>>
      BY <1>2 DEF LoginShown
    <2>6. RdPlaces' /\ RdData'
      BY <2>1, <2>3, <2>5 DEF RdPlaces, RdData
    <2>7. UNCHANGED <<rdFlag, rdStopped, rdActive, rdPart, rdDropped>>
      BY <1>2 DEF LoginShown
    <2>8. RdFlags'
      BY <2>1, <2>3, <2>7 DEF RdFlags
    <2> QED  BY <2>4, <2>6, <2>8, RdInvIs
  <1>3. CASE RdDraw
    <2>1. UNCHANGED <<rdPending, rdLogin, rdMain, rdDamage, rdConn, rdXcb, rdLost>>
      BY <1>3 DEF RdDraw
    <2>2. RdEventsFit(rdEvents') /\ rdEvents' # <<>>
      BY <1>3, DamageFits DEF RdDraw, RdOwes
    <2>3. RdOwes'
      BY <2>1, <2>2 DEF RdOwes, RdOwed
    <2>4. RdPlaces' /\ RdData'
      BY <1>3 DEF RdDraw, RdPlaces, RdData
    <2>5. UNCHANGED <<rdFlag, rdStopped, rdActive, rdPart, rdDropped>>
      BY <1>3 DEF RdDraw
    <2>6. RdFlags'
      BY <2>1, <2>5 DEF RdFlags
    <2> QED  BY <2>3, <2>4, <2>6, RdInvIs
  <1> QED  BY <1>1, <1>2, <1>3

\* Every step of the connector's four threads, of its client, of the service and of the sessions
\* keeps what is owed.
LEMMA RdStep ==
  ASSUME RdInv, [RdNext]_rdVars
  PROVE  RdInv'
  <1>1. CASE RdNext
    <2>1. CASE RdMainNext \/ RdPeerNext \/ RdLoginNext
      BY <2>1, RdEnding, RdPolls, RdCalls, RdSwitches DEF RdMainNext, RdPeerNext, RdLoginNext
    <2>2. CASE \E allow \in BOOLEAN : CbServerSuppressOutput(allow)
      BY <2>2, RdSuppress
    <2>3. CASE \E k \in DOMAIN RdKeymap, down \in BOOLEAN : CbServerKeyboardEvent(k, down)
      BY <2>3, RdTypes
    <2>4. CASE CbServerCapabilities \/ CbServerPostConnect \/ CbServerActivate \/ CbServerRefreshRect
      BY <2>4, RdPeerCalls
    <2>5. CASE OnAddRender \/ OnClearRenderPrimitives \/ OnLoginSuccess
      BY <2>5, RdCalls
    <2>6. CASE TransmitDataIteration \/ TimerNotActivated \/ OnShutdownConnector \/ RdHangUp
      BY <2>6, RdEnding
    <2>7. CASE RdDraw
      BY <2>7, RdSwitches
    <2> QED  BY <1>1, <2>1, <2>2, <2>3, <2>4, <2>5, <2>6, <2>7 DEF RdNext
  <1>2. CASE UNCHANGED rdVars
    BY <1>2, RdEnding
  <1> QED  BY <1>1, <1>2

LEMMA RdStarts ==
  ASSUME RdInit
  PROVE  RdInv
  <1>1. RdPlaces /\ RdFlags
    BY DEF RdInit, RdPlaces, RdFlags
  <1>2. RdData
    BY RdAssumption DEF RdInit, RdData
  <1>3. <<>> \in Seq({"damage", "resize"})
    OBVIOUS
  <1>4. RdOwes
    BY <1>3 DEF RdInit, RdOwes, RdEventsFit
  <1> QED  BY <1>1, <1>2, <1>4, RdInvIs

\* In every run of the connector, an active client to whom nothing is owed looks at what its display
\* shows: no damage is lost between the threads that poll, activate, log in and draw.
THEOREM ScreenKept == RdSpec => []RdScreenKept
  <1>1. RdInit => RdInv
    BY RdStarts
  <1>2. RdInv /\ [RdNext]_rdVars => RdInv'
    BY RdStep
  <1>3. RdInv => RdScreenKept
    <2> SUFFICES ASSUME RdInv PROVE RdScreenKept
      OBVIOUS
    <2>1. RdShowsDisplay
      <3> SUFFICES ASSUME rdMain = "loop" /\ rdXcb /\ rdActive /\ rdEvents = <<>> /\ ~rdDamage
                          /\ rdPending = "none" /\ ~rdLost /\ rdConn \in RdDisplays
                   PROVE  rdShown = RdNow
        BY DEF RdShowsDisplay, RdNow
      <3>1. RdPlaces /\ RdFlags /\ RdOwes
        BY RdInvIs
      <3>2. rdXcb = TRUE /\ rdLost = FALSE /\ rdDamage = FALSE
        BY <3>1 DEF RdFlags
      <3>3. RdOwed
        BY <3>1, <3>2 DEF RdOwes
      <3> QED  BY <3>2, <3>3 DEF RdOwed
    <2> QED  BY <2>1 DEF RdScreenKept, RdInv
  <1> QED  BY <1>1, <1>2, <1>3, PTL DEF RdSpec

=============================================================================
