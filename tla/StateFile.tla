----------------------------- MODULE StateFile -----------------------------
(***************************************************************************)
(* The JSON file of a network (lib/state-file.ts), deployed-<network>.json. *)
(* It is what the deployment scripts know: every step reads it, calls the   *)
(* chain, and writes the addresses it obtained back.                        *)
(*                                                                          *)
(* An entry is a pair <<key, field>> ("burner", "address"), ("app:lido",    *)
(* "proxy").  A contract is named after the entry that is to hold its       *)
(* address, so an entry that holds another contract is a visible mistake.   *)
(* The value of an entry is the contract, the deployment it was created in  *)
(* (0: it was there before) and whether the entry also records the source   *)
(* path and the constructor arguments.  Parameters that are no addresses    *)
(* are left out, save the deployer and the gas used so far.                 *)
(***************************************************************************)
EXTENDS Naturals, Sequences, FiniteSets, TLC

Nothing == <<"none", "none">>

EmptyFile == [deployer |-> FALSE, gas |-> 0, entries |-> <<>>]

(* A field of the JSON object that is set (not null, not absent). *)
Has(file, key, field) == <<key, field>> \in DOMAIN file.entries

(* Reading a field: undefined when it is absent. *)
Addr(file, key, field) ==
  IF Has(file, key, field) THEN file.entries[<<key, field>>].of ELSE Nothing

(* What a script hands to the store: entry, contract, and whether path and  *)
(* constructor arguments come with it.                                      *)
Put(entry, contract, described) ==
  [entry |-> entry, of |-> contract, described |-> described]

(* The spread { ...state[key], ...supplement }: the fields named by the     *)
(* puts are replaced, the others survive.                                   *)
Merge(file, puts, deployment) ==
  LET puttingAt(entry) == CHOOSE p \in puts : p.entry = entry
      new == [entry \in {p.entry : p \in puts} |->
                [of |-> puttingAt(entry).of, at |-> deployment,
                 described |-> puttingAt(entry).described]]
  IN [file EXCEPT !.entries = new @@ @]

(* readNetworkState refuses a file written for another deployer. *)
Readable(file, deployerGiven) == deployerGiven => file.deployer

(* incrementGasUsed: one read-modify-write of the whole file. *)
IncrementGasUsed(file) == [file EXCEPT !.gas = @ + 1]

(* The template of the defaults, copied over whatever was there. *)
ResetStateFile(defaults) == [EmptyFile EXCEPT !.entries = defaults]

=============================================================================
