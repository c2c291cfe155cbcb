----------------------------- MODULE CityImport -----------------------------
(***************************************************************************)
(* The import of the cities (cmd/geonames-import) while users are served:  *)
(* it filters a dump, looks up Russian names in a second file, and writes  *)
(* the rows one statement after the other, in no transaction.  It may die  *)
(* anywhere and is then run again, perhaps with a newer dump.              *)
(***************************************************************************)
EXTENDS Geo, Sequences, FiniteSets

CONSTANTS
    Dumps,      \* the pairs of files an import is run with
    AltFiles,   \* bounded inputs: files the choice of names is checked on
    Keep,       \* flag -country, as the set of countrySet; {} keeps all
    MinPop,     \* flag -min-pop
    NoName,     \* the empty name
    MaxImports  \* bound: runs of the command

(* A line of the cities dump, its feature class and code as one flag, and  *)
(* of alternateNamesV2.                                                    *)
CityLine == [place : Places, settlement : BOOLEAN, country : STRING,
             population : Nat, at : Points]
AltLine == [place : Places, lang : STRING, name : Names \cup {NoName},
            preferred : BOOLEAN, historic : BOOLEAN]

ASSUME ImportAssumption ==
    /\ Dumps \subseteq [cities : Seq(CityLine), alt : Seq(AltLine)]
    /\ AltFiles \subseteq Seq(AltLine)
    /\ MinPop \in Nat /\ MaxImports \in Nat
    /\ NoName \notin Names \cup {None}

VARIABLE imp        \* the command, or the last one that ended

(* done: the dump a run has finished with.                                 *)
NotRun == [pc |-> "idle", truncate |-> FALSE, dump |-> None, next |-> 1,
           done |-> FALSE, runs |-> 0]

-----------------------------------------------------------------------------
(* The files.                                                              *)

Kept(line) ==
    /\ line.settlement
    /\ Keep # {} => line.country \in Keep
    /\ line.population >= MinPop

parseCities(lines) ==
    LET out[n \in 0 .. Len(lines)] ==
            IF n = 0 THEN <<>>
            ELSE IF Kept(lines[n]) THEN Append(out[n - 1], lines[n]) ELSE out[n - 1]
    IN out[Len(lines)]

(* The scan of the alternate names: the first name there is, until a       *)
(* preferred one replaces it, and any later preferred one that.            *)
Skipped(line, ids) == line.lang # "ru" \/ line.place \notin ids \/ line.historic

MutFirstStays(found, line) == found.set
KeepsName(found, line) ==
    ~line.preferred /\ (found.preferred \/ found.set)

Scan(found, line) ==
    IF KeepsName(found[line.place], line) THEN found
    ELSE [found EXCEPT ![line.place] =
            [set |-> TRUE, name |-> line.name,
             preferred |-> @.preferred \/ line.preferred]]

parseRuNames(lines, ids) ==
    LET none == [p \in ids |-> [set |-> FALSE, name |-> NoName, preferred |-> FALSE]]
        res[n \in 0 .. Len(lines)] ==
            IF n = 0 THEN none
            ELSE IF Skipped(lines[n], ids) THEN res[n - 1] ELSE Scan(res[n - 1], lines[n])
    IN res[Len(lines)]

MutKeepsEmpty(name) == name
nullable(name) == IF name = NoName THEN None ELSE name

PlacesIn(lines) == {lines[i].place : i \in DOMAIN lines}

-----------------------------------------------------------------------------
(* The command.                                                            *)

ImportInit == Init /\ imp = NotRun

StartImport ==
    /\ imp.pc = "idle" /\ imp.runs < MaxImports
    /\ \E d \in Dumps, truncate \in BOOLEAN :
         imp' = [pc |-> IF truncate THEN "truncate" ELSE "upsert", truncate |-> truncate,
                 dump |-> d, next |-> 1, done |-> FALSE, runs |-> imp.runs + 1]
    /\ UNCHANGED vars

TruncateCities ==
    /\ imp.pc = "truncate"
    /\ Truncate
    /\ imp' = [imp EXCEPT !.pc = "upsert"]

Parsed == parseCities(imp.dump.cities)
RuNames == parseRuNames(imp.dump.alt, PlacesIn(Parsed))

UpsertCity ==
    /\ imp.pc = "upsert" /\ imp.next =< Len(Parsed)
    /\ LET line == Parsed[imp.next] IN
         Upsert(line.place, line.at, nullable(RuNames[line.place].name))
    /\ imp' = [imp EXCEPT !.next = @ + 1]

FinishImport ==
    /\ imp.pc = "upsert" /\ imp.next > Len(Parsed)
    /\ imp' = [imp EXCEPT !.pc = "idle", !.done = TRUE]
    /\ UNCHANGED vars

(* A file does not parse, a statement errors, or the process dies.         *)
FailImport ==
    /\ imp.pc # "idle"
    /\ imp' = [NotRun EXCEPT !.runs = imp.runs]
    /\ UNCHANGED vars

ImportNext ==
    \/ StartImport \/ TruncateCities \/ UpsertCity \/ FinishImport \/ FailImport
    \/ (Tick \/ \E r \in Requests : Endpoint(r)) /\ UNCHANGED imp

ImportSpec == ImportInit /\ [][ImportNext]_<<vars, imp>>

-----------------------------------------------------------------------------
(* Properties.                                                             *)

(* What the module Geo says may happen to the table and to a user's row is *)
(* all that a running import does: what holds of Geo holds beside it.      *)
ImplementsGeo == Spec

(* What a name is meant to be: the last preferred one, or else the first.  *)
RuName(lines, place) ==
    LET fit == {i \in DOMAIN lines : ~Skipped(lines[i], {place})}
        best == {i \in fit : lines[i].preferred}
    IN CASE best # {} -> lines[CHOOSE i \in best : \A j \in best : j =< i].name
         [] best = {} /\ fit # {} -> lines[CHOOSE i \in fit : \A j \in fit : i =< j].name
         [] OTHER -> NoName

(* The one-pass scan finds that name.                                      *)
NamesMatch ==
    \A lines \in AltFiles, place \in Places :
        parseRuNames(lines, {place})[place].name = RuName(lines, place)

(* An import that has finished leaves the table as its dump says, however  *)
(* many before it died half way or brought other data, and however often   *)
(* the dump names a place: one row for every place that is kept, with the  *)
(* location of its last line and its Russian name, and after a truncation  *)
(* no other row.                                                           *)
ImportConverges ==
    /\ NamesMatch
    /\ \A place \in Places : Cardinality(Of(place)) =< 1
    /\ imp.pc = "idle" /\ imp.done =>
         LET lines == imp.dump.cities
             fit(place) == {i \in DOMAIN lines : lines[i].place = place /\ Kept(lines[i])}
             last(place) == CHOOSE i \in fit(place) : \A j \in fit(place) : j =< i
             kept == {place \in Places : fit(place) # {}}
         IN /\ \A place \in kept : \E c \in Of(place) :
                 /\ cities[c].at = lines[last(place)].at
                 /\ cities[c].name = nullable(RuName(imp.dump.alt, place))
            /\ imp.truncate => {cities[c].place : c \in Known} = kept
=============================================================================
