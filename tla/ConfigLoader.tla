---------------------------- MODULE ConfigLoader ----------------------------
(***************************************************************************)
(* pkg/config: Loader.Load layers .env files under the process environment *)
(* and the getters read the result.  The keys do not interact, so the      *)
(* model follows one key through the search paths, the three layers and a  *)
(* service that needs it as a secret to start.                             *)
(*                                                                         *)
(* A value is named by where it comes from; a file may be missing, be      *)
(* there but unreadable, not mention the key, mention it with no value     *)
(* (KEY=) or give it one.                                                  *)
(***************************************************************************)
EXTENDS Integers, Sequences

CONSTANTS
    Dirs,       \* the loader's search paths, in order
    Boxed       \* contents the files may have

\* Load's layers, in the order it reads them.
Layers == <<".env.global", ".env.example", ".env">>

Names == {".env.global", ".env.example", ".env"}

Contents == {"missing", "unreadable", "silent", "empty", "value"}

ASSUME InputsAssumption == Dirs \in Seq(STRING) /\ Boxed \subseteq Contents

Unset == <<"unset">>
Empty == <<"empty">>
FromEnv == <<"env">>
FromFile(dir, name) == <<dir, name>>

VARIABLES
    files,      \* contents of each file of the tree
    env0,       \* the key in the environment the process was started with
    env,        \* the key in the process environment
    layer,      \* the layer Load is at
    status      \* "loading", "loaded", "error", "started" or "refused"

loadVars == <<files, env0, env, layer, status>>

LoadInit ==
    /\ files \in [{Dirs[i] : i \in DOMAIN Dirs} \X Names -> Boxed]
    /\ env0 \in {Unset, Empty, FromEnv}
    /\ env = env0
    /\ layer = 1
    /\ status = "loading"

-----------------------------------------------------------------------------
\* What os.Stat and os.ReadFile find at a search path.
Content(i, name) == files[<<Dirs[i], name>>]

Present(i, name) == Content(i, name) # "missing"

\* findFile going on to the last search path.
FindFileLast(name) ==
    IF \E i \in DOMAIN Dirs : Present(i, name)
    THEN CHOOSE i \in DOMAIN Dirs : Present(i, name) /\ \A j \in DOMAIN Dirs : j > i => ~ Present(j, name)
    ELSE 0

\* findFile: the first search path that has the file, 0 if none has.
FindFile(name) ==
    IF \E i \in DOMAIN Dirs : Present(i, name)
    THEN CHOOSE i \in DOMAIN Dirs : Present(i, name) /\ \A j \in 1 .. i - 1 : ~ Present(j, name)
    ELSE 0

\* The value loadDotEnv parses for the key out of a file that mentions it.
Parsed(i, name) == IF Content(i, name) = "empty" THEN Empty ELSE FromFile(Dirs[i], name)

\* loadDotEnv's loop for one key: a variable that exists, even empty, stays.
Merge(old, new) == IF old = Unset THEN new ELSE old

\* Load reads one layer.
LoadLayer ==
    /\ status = "loading"
    /\ layer <= Len(Layers)
    /\ LET name == Layers[layer]
           i == FindFile(name)
       IN  IF i # 0 /\ Content(i, name) = "unreadable"
           THEN status' = "error" /\ UNCHANGED <<env, layer>>
           ELSE /\ layer' = layer + 1
                /\ env' = IF i # 0 /\ Content(i, name) \in {"empty", "value"}
                          THEN Merge(env, Parsed(i, name)) ELSE env
                /\ UNCHANGED status
    /\ UNCHANGED <<files, env0>>

\* Load returns nil.
Loaded ==
    /\ status = "loading"
    /\ layer > Len(Layers)
    /\ status' = "loaded"
    /\ UNCHANGED <<files, env0, env, layer>>

\* os.Getenv: an unset variable reads as the empty string.
Getenv == IF env = Unset THEN Empty ELSE env

\* The check on existence only.
MustGetSecretLookup ==
    /\ status = "loaded"
    /\ status' = IF env = Unset THEN "refused" ELSE "started"
    /\ UNCHANGED <<files, env0, env, layer>>

\* MustGetSecret: the service starts with a value or panics.
MustGetSecret ==
    /\ status = "loaded"
    /\ status' = IF Getenv = Empty THEN "refused" ELSE "started"
    /\ UNCHANGED <<files, env0, env, layer>>

LoadNext == LoadLayer \/ Loaded \/ MustGetSecret

LoadSpec == LoadInit /\ [][LoadNext]_loadVars

-----------------------------------------------------------------------------
\* What file `name` contributes when the search paths are read as documented.
Provides(name) ==
    LET i == FindFile(name)
    IN  IF i # 0 /\ Content(i, name) \in {"empty", "value"} THEN Parsed(i, name) ELSE Unset

\* A successful Load has passed over no broken layer, leaves no key unset that
\* some layer mentions, and takes every value from the nearest file of its
\* layer.
NothingMissed ==
    status \in {"loaded", "started", "refused"} =>
        /\ \A n \in Names : FindFile(n) # 0 => Content(FindFile(n), n) # "unreadable"
        /\ env = Unset => \A n \in Names : Provides(n) = Unset
        /\ \A n \in Names, j \in DOMAIN Dirs :
              env = FromFile(Dirs[j], n) =>
                  \E i \in DOMAIN Dirs : Dirs[i] = Dirs[j] /\ \A k \in 1 .. i - 1 : ~ Present(k, n)

\* The sources of the key, in the order the comment of Load (loader.go:47) and
\* docs/secrets.md give them precedence.
Sources == <<env0, Provides(".env"), Provides(".env.global"), Provides(".env.example")>>

\* What the code and its documents agree on, whichever file goes first: the
\* deployment's own variable, empty or not, decides alone; a service that
\* started did so with a value some source gives; and one that refused to start
\* has no source that mentions the key, or one that says KEY=, which hides what
\* the sources after it say.
SecretDecision ==
    status \in {"started", "refused"} =>
        /\ env0 # Unset => (status = "started" <=> env0 # Empty) /\ env = env0
        /\ status = "started" => \E k \in DOMAIN Sources : Sources[k] \notin {Unset, Empty}
        /\ status = "refused" => \/ \A k \in DOMAIN Sources : Sources[k] = Unset
                                 \/ \E k \in DOMAIN Sources : Sources[k] = Empty

\* "Priority: env vars > service .env > global .env.global > .env.example >
\* defaults": a loaded key has the value of the first of these sources that
\* mentions it.
DocumentedPriority ==
    status = "loaded" =>
        \A k \in DOMAIN Sources :
            Sources[k] # Unset /\ (\A j \in 1 .. k - 1 : Sources[j] = Unset) => env = Sources[k]

=============================================================================
