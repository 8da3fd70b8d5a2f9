------------------------------ MODULE MCServer ------------------------------
(* Instances of Server, with the requests of Catalog, for TLC. *)
EXTENDS Server

Entry(name, content) == [name |-> name, content |-> content]

(* Two dictionaries and a setting, as after a seed run. *)
SeedRows ==
  [dictionary |-> <<Entry("user_status", <<"active", "disabled">>),
                    Entry("yes_no", <<"yes">>)>>,
   setting |-> <<Entry("site.name", <<"gov2">>)>>]

Values == {"gov2", "other", "{}"}

Asking(op, kind, id, name, content) ==
  [op |-> op, kind |-> kind, target |-> id, name |-> name, content |-> content]

(* Every operation on both kinds, with the inputs that reach each answer,    *)
(* and writes of different requests to the same records and names.           *)
CatalogCalls ==
  {Asking("create", "dictionary", 0, "color", <<"red", "blue">>),
   Asking("create", "dictionary", 0, "color", <<>>),
   Asking("create", "dictionary", 0, "", <<>>),
   Asking("create", "dictionary", 0, "size", <<"s", "s">>),
   Asking("update", "dictionary", 1, "color", <<"active", "barred">>),
   Asking("update", "dictionary", 1, "user_status", <<"on", "">>),
   Asking("update", "dictionary", 2, "user_status", <<"no", "yes">>),
   Asking("delete", "dictionary", 1, "", <<>>),
   Asking("delete", "dictionary", 2, "", <<>>),
   Asking("get", "dictionary", 0, "user_status", <<>>),
   Asking("get", "dictionary", 0, "color", <<>>),
   Asking("list", "dictionary", 0, "", <<>>),
   Asking("create", "setting", 0, "site.logo", <<"">>),
   Asking("create", "setting", 0, "site.logo", <<"malformed">>),
   Asking("update", "setting", 1, "site.logo", <<"other">>),
   Asking("delete", "setting", 1, "", <<"">>),
   Asking("list", "setting", 0, "", <<"">>)}
============================================================================
