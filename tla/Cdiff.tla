-------------------------------- MODULE Cdiff --------------------------------
(***************************************************************************)
(* src/bin/cdiff: it reads two router configurations, line by line, and    *)
(* shows what is in one and not in the other.  A line is a record of its   *)
(* kind, its text (without the space in front of a sub-command), and how   *)
(* often it contains ^C.  The order of the output is left out.             *)
(***************************************************************************)
EXTENDS Integers, Sequences

VARIABLES
  configs,      (* the two files                                           *)
  reading,      (* the file that is read, 1 or 2                           *)
  unread,       (* its lines from $line on                                 *)
  router,       (* of each file: the pairs of a level and a line in it     *)
  level, lastline,
  foundbeginning, inbanner,
  removed, added,    (* the lines shown with - and with +, and their level *)
  cdpc          (* "read", "diff", "done", or "die"                        *)

reader == <<level, lastline, foundbeginning, inbanner>>
cdVars == <<configs, reading, unread, router, reader, removed, added, cdpc>>

FreshReader ==
  level = "MAIN" /\ lastline = "" /\ foundbeginning = FALSE /\ inbanner = FALSE

CdInit ==
  /\ reading = 1 /\ unread = configs[1]
  /\ router = <<{}, {}>>
  /\ FreshReader
  /\ removed = {} /\ added = {} /\ cdpc = "read"

-----------------------------------------------------------------------------
(* readconfig                                                              *)

This == Head(unread)
CdLine == cdpc = "read" /\ unread # <<>> /\ unread' = Tail(unread)

(* A line of the configuration proper; "end" in a banner is one of them.   *)
Within == CdLine /\ foundbeginning /\ ~ (This.kind = "end" /\ ~ inbanner)

BeforeBeginning ==
  /\ CdLine /\ ~ foundbeginning
  /\ foundbeginning' = (This.kind = "!")
  /\ UNCHANGED <<configs, reading, router, level, lastline, inbanner, removed, added, cdpc>>

(* Empty lines, comments, and the clock that changes all the time.         *)
Ignored == This.kind \in {"", "!", " !", "ntp clock-period"}

SkipIgnored ==
  /\ Within /\ Ignored
  /\ UNCHANGED <<configs, reading, router, reader, removed, added, cdpc>>

(* A banner or a menu that is not ended on its own line.                   *)
Banner ==
  /\ Within /\ This.kind = "banner"
  /\ inbanner' = (This.carets \notin {0, 2})
  /\ UNCHANGED <<configs, reading, router, level, lastline, foundbeginning, removed, added, cdpc>>

InBanner ==
  /\ Within /\ ~ Ignored /\ This.kind # "banner" /\ inbanner
  /\ inbanner' = (This.carets = 0)
  /\ UNCHANGED <<configs, reading, router, level, lastline, foundbeginning, removed, added, cdpc>>

(* Mutant of Level: a command does not end the commands below another.     *)
LevelStays ==
  IF This.kind = "sub" /\ level = "MAIN" THEN lastline ELSE level

(* The level of this line: of a sub-command, the last command at MAIN.     *)
Level ==
  IF This.kind # "sub" THEN "MAIN" ELSE IF level = "MAIN" THEN lastline ELSE level

Command ==
  /\ Within /\ ~ Ignored /\ This.kind # "banner" /\ ~ inbanner
  /\ level' = Level
  /\ router' = [router EXCEPT ![reading] = @ \cup {<<level', This.text>>}]
  /\ lastline' = This.text
  /\ UNCHANGED <<configs, reading, foundbeginning, inbanner, removed, added, cdpc>>

(* "end": the other file is read from its beginning, or both are compared. *)
EndOfConfig ==
  /\ cdpc = "read" /\ unread # <<>>
  /\ foundbeginning /\ This.kind = "end" /\ ~ inbanner
  /\ IF reading = 1
       THEN /\ reading' = 2 /\ unread' = configs[2]
            /\ level' = "MAIN" /\ lastline' = "" /\ foundbeginning' = FALSE
            /\ UNCHANGED <<inbanner, cdpc>>
       ELSE cdpc' = "diff" /\ unread' = <<>> /\ UNCHANGED <<reading, reader>>
  /\ UNCHANGED <<configs, router, removed, added>>

(* The file has no beginning, or no end.                                   *)
BailOut ==
  /\ cdpc = "read" /\ unread = <<>>
  /\ cdpc' = "die"
  /\ UNCHANGED <<configs, reading, unread, router, reader, removed, added>>

-----------------------------------------------------------------------------
(* What diff shows of a, because it is not in b: commands with what is     *)
(* below them, and sub-commands of levels that both have.                  *)
Missing(a, b) ==
  LET commands == {c \in a : c[1] = "MAIN" /\ c \notin b}
  IN  commands
      \cup {c \in a : <<"MAIN", c[1]>> \in commands}
      \cup {c \in a : c[1] # "MAIN" /\ (\E d \in b : d[1] = c[1]) /\ c \notin b}

Diff ==
  /\ cdpc = "diff"
  /\ removed' = Missing(router[1], router[2])
  /\ added' = Missing(router[2], router[1])
  /\ cdpc' = "done"
  /\ UNCHANGED <<configs, reading, unread, router, reader>>

CdNext ==
  \/ BeforeBeginning \/ SkipIgnored \/ Banner \/ InBanner \/ Command
  \/ EndOfConfig \/ BailOut \/ Diff

CdSpec == CdInit /\ [][CdNext]_cdVars

-----------------------------------------------------------------------------
(* What a file says, taken from the whole of it.  The configuration begins *)
(* at the first comment.  A banner that is not ended on its own line goes  *)
(* on until the next line with a ^C, ignored lines aside.                  *)

SaysNothing == {"", "!", " !", "ntp clock-period"}

Begun(text, n) == \E b \in 1..n-1 : text[b].kind = "!"

GoesOn(line) == line.kind # "banner" /\ (line.kind \in SaysNothing \/ line.carets = 0)

InsideBanner(text, n) ==
  \E a \in 1..n-1 :
    /\ text[a].kind = "banner" /\ text[a].carets \notin {0, 2} /\ Begun(text, a)
    /\ \A m \in a+1..n-1 : GoesOn(text[m])

Ends(text) ==
  {n \in DOMAIN text : text[n].kind = "end" /\ Begun(text, n) /\ ~ InsideBanner(text, n)}

Says(text) ==
  {n \in DOMAIN text :
     /\ text[n].kind \notin SaysNothing \cup {"banner", "end"}
     /\ Begun(text, n) /\ ~ InsideBanner(text, n)
     /\ \A e \in Ends(text) : n < e}

Mains(text) == {n \in Says(text) : text[n].kind # "sub"}

(* Line n is below the command in line m.                                  *)
Below(text, m, n) == m < n /\ \A k \in Mains(text) : ~ (m < k /\ k < n)

(* The commands in the first n lines, each with the command it is below.   *)
CommandsUpto(text, n) ==
  LET mains == Mains(text)
      subs == Says(text) \ mains
  IN       {<<"MAIN", text[m].text>> : m \in {k \in mains : k <= n}}
      \cup UNION {{<<text[m].text, text[k].text>> : m \in {i \in mains : Below(text, i, k)}} :
                   k \in {i \in subs : i <= n}}

CommandsIn(text) == CommandsUpto(text, Len(text))

(* What is asked of a configuration: that what is below a command has one  *)
(* above it, and that no command is called as cdiff calls the top level.   *)
Orderly(text) ==
  /\ \A m \in Mains(text) : text[m].text # "MAIN"
  /\ \A k \in Says(text) \ Mains(text) : \E m \in Mains(text) : m < k

(* A command that both have, but with others below it in only one of them. *)
OneSided(c, one, two) ==
  /\ <<"MAIN", c>> \in one /\ <<"MAIN", c>> \in two
  /\ (\E d \in one : d[1] = c) # (\E d \in two : d[1] = c)

(* cdiff shows exactly the commands that one router has and the other has  *)
(* not, each under the command it belongs to, and says nothing of banners, *)
(* comments and the clock; only, what is below a command in one router is  *)
(* not shown when the other has nothing below that command.                *)
DifferencesShown ==
  cdpc = "done" =>
    LET one == CommandsIn(configs[1])
        two == CommandsIn(configs[2])
    IN  /\ removed = {c \in one \ two : ~ OneSided(c[1], one, two)}
        /\ added = {c \in two \ one : ~ OneSided(c[1], one, two)}
=============================================================================
