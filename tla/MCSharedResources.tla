-------------------------- MODULE MCSharedResources --------------------------
(* An instance of SharedResources for TLC: three steps on one server of      *)
(* PostgreSQL, one of them by the default configuration and one orphaned,    *)
(* one on MySQL and one on a database of a type that has no client; two      *)
(* scripts that exchange files, one of them orphaned.                        *)
EXTENDS SharedResources

Own(key) == [own |-> TRUE, default |-> FALSE, key |-> key]
ToDefault == [own |-> FALSE, default |-> FALSE, key |-> NoKey]
AsDefault(key) == [own |-> TRUE, default |-> TRUE, key |-> key]
Configs ==
  [q1 |-> [e |-> Own("k1")], q2 |-> [e |-> ToDefault, f |-> AsDefault("k1")],
   q3 |-> [e |-> Own("k1")], q4 |-> [e |-> Own("k2")], q5 |-> [e |-> Own("k3")],
   q6 |-> [e |-> ToDefault]]
Where == [q1 |-> "e", q2 |-> "e", q3 |-> "e", q4 |-> "e", q5 |-> "e", q6 |-> "f"]
Kinds == [q1 |-> "pgsql", q2 |-> "pgsql", q3 |-> "pgsql", q4 |-> "mysql", q5 |-> "other",
          q6 |-> "pgsql"]

Load(name, cover) == [do |-> "load", name |-> name, cover |-> cover, bytes |-> FALSE]
LoadBytes == [do |-> "load", name |-> "sheet", cover |-> FALSE, bytes |-> TRUE]
Save == [do |-> "save"]
Book(cover) == [do |-> "excel save", cover |-> cover]
Done ==
  [q1 |-> {<<>>},
   s1 |-> {<<Load("sheet", FALSE), Book(TRUE), Save>>, <<Load("sheet", TRUE), Save>>,
           <<Save, Book(FALSE)>>},
   s2 |-> {<<Load("sh", FALSE), Save, Book(FALSE)>>, <<LoadBytes>>, <<Load("lost", FALSE)>>, <<>>}]
SystemFiles == <<"my sheet", "sheet">>
Hits == [sheet |-> {"sheet", "my sheet"}, sh |-> {"sheet", "my sheet"}, lost |-> {}]
SideBySide == { {"q1", "q2", "q3", "q4"}, {"q1", "q3", "q5", "q6"}, {"q1", "s1", "s2"} }
=============================================================================
