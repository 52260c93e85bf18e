------------------------------- MODULE CsvStore -------------------------------
(***************************************************************************)
(* shared/csv_reader.cpp and .hpp: a map of keys to values kept in a file, *)
(* read by the constructor and written anew by every operation that        *)
(* changes the map.  The process may die at any point and start again.     *)
(*                                                                         *)
(* A line of the file is a pair.  The operations hold m_access_mutex from  *)
(* beginning to end, so one of them is under way at a time.                *)
(***************************************************************************)
EXTENDS Integers, FiniteSets, Functions

CONSTANTS
  Keys,        (* plain keys                                                *)
  HashKeys,    (* keys that begin with '#'                                  *)
  Vals,        (* plain values, the empty one among them                    *)
  CommaVals,   (* values with a comma in them                               *)
  EMPTY,       (* the value ""                                              *)
  PREFIX,      (* a value that is what others begin with: what comes        *)
               (* before the comma of one, or is left of one that is cut    *)
  MAX_OPS      (* bound: operations, failures and deaths of a process       *)

ASSUME CsvAssumption ==
  /\ Keys \cap HashKeys = {} /\ Vals \cap CommaVals = {} /\ {EMPTY, PREFIX} \subseteq Vals
  /\ MAX_OPS \in Nat

VARIABLES
  wpc,       (* "down", "ready", "pairs": in write_out_hash_to_file         *)
  m_map,     (* the map                                                     *)
  left,      (* the pairs still to be written, in the map's order: any      *)
  file,      (* the pairs in the file, a set: each key is there once        *)
  cutline,   (* external: the last line was left incomplete by a death      *)
  ops,       (* operations, failures and deaths (bounded)                   *)
  saved,     (* history: the map as last passed to write_out_hash_to_file   *)
  torn       (* history: that writing failed or was cut off                 *)

csvVars == <<wpc, m_map, left, file, cutline, ops, saved, torn>>

AnyKey == Keys \cup HashKeys
AnyVal == Vals \cup CommaVals
NoMap  == [k \in {} |-> EMPTY]

CsvInit ==
  /\ wpc = "down" /\ m_map = NoMap /\ left = {} /\ file = {} /\ cutline = {}
  /\ ops = 0 /\ saved = NoMap /\ torn = FALSE

Pairs(map) == {<<k, map[k]>> : k \in DOMAIN map}
MapOf(pairs) == [k \in {p[1] : p \in pairs} |-> (CHOOSE p \in pairs : p[1] = k)[2]]

-----------------------------------------------------------------------------
(* The constructor.                                                          *)

\* What getline reads of a value: up to its comma.
Cut(v) == IF v \in CommaVals THEN PREFIX ELSE v

\* Lines that begin with '#' are skipped, the header line among them, and a
\* value ends at its comma.
Read(pairs) == {<<p[1], Cut(p[2])>> : p \in {q \in pairs : q[1] \in Keys}}

\* parse_csv_file(): a line without a comma, or with nothing after it, ends it,
\* and what was read stays; one cut off within its value is one more pair.
ParseCsvFile ==
  /\ wpc = "down" /\ wpc' = "ready"
  /\ m_map' = MapOf(Read(file) \cup cutline)
  /\ UNCHANGED <<left, file, cutline, ops, saved, torn>>

-----------------------------------------------------------------------------
(* The operations.                                                           *)

\* write_out_hash_to_file() up to its loop: fopen(.., "w") empties the file, or
\* fails, and nobody looks at what the writing returned.
Begin(map) ==
  /\ m_map' = map
  /\ \/ /\ wpc' = "pairs" /\ left' = Pairs(map)
        /\ file' = {} /\ cutline' = {}
        /\ saved' = map /\ torn' = FALSE
     \/ UNCHANGED <<wpc, left, file, cutline, saved, torn>>
  /\ ops' = ops + 1

AddKeyValuePair ==
  /\ wpc = "ready" /\ ops < MAX_OPS
  /\ \E k \in AnyKey, v \in AnyVal :
       Begin([j \in DOMAIN m_map \cup {k} |-> IF j = k THEN v ELSE m_map[j]])

\* A key that is not there is a warning.
RemoveKey ==
  /\ wpc = "ready" /\ ops < MAX_OPS
  /\ \E k \in DOMAIN m_map : Begin(Restrict(m_map, DOMAIN m_map \ {k}))

\* m_map[key] makes an entry, which only the next writing puts in the file.
GetKeyValue ==
  /\ wpc = "ready" /\ ops < MAX_OPS
  /\ \E k \in AnyKey :
       m_map' = [j \in DOMAIN m_map \cup {k} |-> IF j \in DOMAIN m_map THEN m_map[j] ELSE EMPTY]
  /\ ops' = ops + 1
  /\ UNCHANGED <<wpc, left, file, cutline, saved, torn>>

\* remove_csv_file(): the map stays.
RemoveCsvFile ==
  /\ wpc = "ready" /\ ops < MAX_OPS
  /\ file' = {} /\ cutline' = {} /\ saved' = NoMap /\ torn' = FALSE
  /\ ops' = ops + 1
  /\ UNCHANGED <<wpc, m_map, left>>

-----------------------------------------------------------------------------
(* write_out_hash_to_file().                                                 *)

WritePair ==
  /\ wpc = "pairs" /\ left # {}
  /\ \E p \in left : file' = file \cup {p} /\ left' = left \ {p}
  /\ UNCHANGED <<wpc, m_map, cutline, ops, saved, torn>>

\* Mutant: the loop ends one pair early.
WriteEndsEarly ==
  /\ wpc = "pairs" /\ Cardinality(left) <= 1
  /\ wpc' = "ready" /\ left' = {}
  /\ UNCHANGED <<m_map, file, cutline, ops, saved, torn>>

WriteEnds ==
  /\ wpc = "pairs" /\ left = {}
  /\ wpc' = "ready"
  /\ UNCHANGED <<m_map, left, file, cutline, ops, saved, torn>>

\* fwrite or the fclose after it fails.
WriteFails ==
  /\ wpc = "pairs" /\ ops < MAX_OPS
  /\ wpc' = "ready" /\ left' = {} /\ torn' = TRUE /\ ops' = ops + 1
  /\ file' \in SUBSET file
  /\ UNCHANGED <<m_map, cutline, saved>>

\* The process ends, and the map with it.  In a writing, what stdio has passed
\* on is in the file: all pairs so far or fewer, and maybe half a line.
CsvDies ==
  /\ wpc # "down" /\ ops < MAX_OPS
  /\ wpc' = "down" /\ m_map' = NoMap /\ left' = {} /\ ops' = ops + 1
  /\ torn' = (torn \/ wpc # "ready")
  /\ IF wpc = "ready" THEN UNCHANGED <<file, cutline>>
     ELSE /\ file' \in SUBSET file
          /\ cutline' \in {{}} \cup {{<<p[1], PREFIX>>} :
               p \in {q \in file \ file' : q[1] \in Keys /\ q[2] \notin {EMPTY, PREFIX}}}
  /\ UNCHANGED saved

CsvNext ==
  \/ ParseCsvFile \/ AddKeyValuePair \/ RemoveKey \/ GetKeyValue \/ RemoveCsvFile
  \/ WritePair \/ WriteEnds \/ WriteFails \/ CsvDies

CsvSpec == CsvInit /\ [][CsvNext]_csvVars

-----------------------------------------------------------------------------
CsvTypeOK ==
  /\ wpc \in {"down", "ready", "pairs"}
  /\ \A p \in file \cup left : p \in AnyKey \X AnyVal
  /\ DOMAIN m_map \subseteq AnyKey /\ torn \in BOOLEAN

\* A process that starts finds the map as it was last written, but for keys
\* taken for comments and values cut at a comma; after a failed writing or a
\* death in one, every key it finds had been passed to that writing, and at
\* most one of them has lost its end.
RestartReadsBack ==
  [][ParseCsvFile =>
       LET good == Read(Pairs(saved)) IN
       /\ ~torn => Pairs(m_map') = good
       /\ torn => /\ DOMAIN m_map' \subseteq DOMAIN saved
                  /\ Cardinality(Pairs(m_map') \ good) <= 1]_csvVars
=============================================================================
