------------------------------- MODULE Listing -------------------------------
(***************************************************************************)
(* The parsers of file_system.go, as operators: the lines of MLST, MLSD    *)
(* and LIST answers, and the quoted directory names of PWD and MKD.        *)
(*                                                                         *)
(* A text is a sequence of tokens; the tokens that the parsers look for    *)
(* are in it by themselves: a slash, a quote, a percent sign, "blank" for  *)
(* a blank, "->" for an arrow with its blanks, "semicolon" for a semicolon *)
(* with its blank.  A line is a record of the fields that its format has;  *)
(* which regular expression it matches is its form, and its text is what   *)
(* the server wrote after the field before the name and one blank.  A date *)
(* is a number of months.  Permission bits, sizes and the time within a    *)
(* month are left out.                                                     *)
(***************************************************************************)
EXTENDS Integers, Sequences, FiniteSets, SequencesExt

Positions(text, token) == {i \in DOMAIN text : text[i] = token}

(* filepath.Base on a text without a trailing slash, or on the root. *)
Base(text) ==
  IF text = <<"/">> \/ ~Contains(text, "/") THEN text
  ELSE SubSeq(text, Max(Positions(text, "/")) + 1, Len(text))

NonBlank(text) == {i \in DOMAIN text : text[i] # "blank"}

(* What the last group of lsRegex takes of the text: the blanks before it  *)
(* match with the one that ends the field before.                          *)
TrimLeft(text) == SubSeq(text, Min(NonBlank(text)), Len(text))

(* The same for dosListRegex, which leaves out the blanks at the end, too. *)
Trim(text) == SubSeq(text, Min(NonBlank(text)), Max(NonBlank(text)))

(* What a parser returns: an error, nothing (the line is not an entry), or *)
(* an os.FileInfo, whose Sys() is the line.                                *)
ParseError == [is |-> "error"]

NotEntry == [is |-> "nothing"]

FileInfo(name, kind, mtime, line) ==
  [is |-> "info", name |-> name, kind |-> kind, mtime |-> mtime, raw |-> line]

-----------------------------------------------------------------------------
(* parseMLST.  Too few facts are an error; a name with "; " in it splits   *)
(* the line in too many parts.                                             *)
parseMLST(line, skipSelfParent) ==
  IF line.form = "blank" THEN NotEntry
  ELSE IF line.form # "facts" \/ Contains(line.text, "semicolon") THEN ParseError
  ELSE IF skipSelfParent /\ line.type \in {"cdir", "pdir", ".", ".."} THEN NotEntry
  ELSE IF ~line.complete THEN ParseError
  ELSE FileInfo(Base(line.text),
                CASE line.type \in {"dir", "cdir", "pdir"} -> "dir"
                  [] line.type \in {"os.unix=slink", "os.unix=symlink"} -> "link"
                  [] OTHER -> "file",
                line.mtime, line)

(* ls gives the time of day instead of the year of a recent file. *)
NoYear == -1

(* Faulty: takes this month of last year. *)
YearStrict(month, now) == IF month >= now % 12 THEN (now \div 12) - 1 ELSE now \div 12

(* The year of a line that has none: a month still to come is last year's. *)
Year(month, now) == IF month > now % 12 THEN (now \div 12) - 1 ELSE now \div 12

(* Faulty: takes the whole field for the name of a link. *)
LinkFieldWhole(text) == text

(* The name of a link ends at the first arrow. *)
LinkName(text) ==
  IF Contains(text, "->") THEN SubSeq(text, 1, Min(Positions(text, "->")) - 1)
  ELSE text

parseDOSLIST(line) ==
  FileInfo(Trim(line.text), IF line.type = "<DIR>" THEN "dir" ELSE "file", line.mtime, line)

parseLIST(line, now, skipSelfParent) ==
  IF line.form = "total" THEN NotEntry
  ELSE IF line.form = "dos" THEN parseDOSLIST(line)
  ELSE IF line.form # "ls" THEN ParseError
  ELSE IF skipSelfParent /\ TrimLeft(line.text) \in {<<".">>, <<"..">>} THEN NotEntry
  ELSE LET name == TrimLeft(line.text)
           year == IF line.year = NoYear THEN Year(line.month, now) ELSE line.year
       IN FileInfo(Base(IF line.type = "l" THEN LinkName(name) ELSE name),
                   CASE line.type = "d" -> "dir"
                     [] line.type = "l" -> "link"
                     [] OTHER -> "file",
                   12 * year + line.month, line)

-----------------------------------------------------------------------------
(* The number of such tokens that end at i without a gap. *)
Run(text, token, i) == Cardinality({j \in 1..i : \A k \in j..i : text[k] = token})

(* Two of these tokens become one: of a run of them every second one goes, *)
(* and what is kept stays in order.                                        *)
Kept(text, token) == {i \in DOMAIN text : text[i] # token \/ Run(text, token, i) % 2 = 1}

Halved(text, token) ==
  [n \in 1..Cardinality(Kept(text, token)) |->
     text[CHOOSE i \in Kept(text, token) :
            Cardinality({j \in Kept(text, token) : j <= i}) = n]]

(* extractDirName finds a name: there are an opening and a closing quote.  *)
(* (A quote is written ' here.)                                            *)
HasDirName(msg) == Cardinality(Positions(msg, "'")) >= 2

(* Faulty: the name ends at the second quote. *)
extractDirNameShort(msg) ==
  LET quotes == Positions(msg, "'")
      open == Min(quotes)
      closed == Min(quotes \ {open})
  IN Halved(SubSeq(msg, open + 1, closed - 1), "'")

(* extractDirName: what is between the first and the last quote, with its  *)
(* own quotes undoubled.                                                   *)
extractDirName(msg) ==
  LET quotes == Positions(msg, "'")
  IN Halved(SubSeq(msg, Min(quotes) + 1, Max(quotes) - 1), "'")

-----------------------------------------------------------------------------
(* A percent sign without a second one after it starts a verb. *)
Verb(text) ==
  \E i \in DOMAIN text :
    /\ text[i] = "%" /\ Run(text, "%", i) % 2 = 1
    /\ i = Len(text) \/ text[i + 1] # "%"

(* What Sprintf makes of a text that it is given as a format, without      *)
(* arguments: two percent signs are one, and a verb becomes a complaint    *)
(* like "%!a(MISSING)", for which the empty text stands.                   *)
Formatted(text) == IF Verb(text) THEN <<>> ELSE Halved(text, "%")
=============================================================================
