------------------------------ MODULE Settings ------------------------------
(***************************************************************************)
(* Settings.from_sources() and validate(), for the settings that decide    *)
(* where jobs are kept and how recordings are cut: which files are read,   *)
(* which source wins, and against which directory a path is resolved.      *)
(*                                                                         *)
(* A source is a function from the settings it names to their values.  The *)
(* path of a data directory is the directory itself, or Relative.          *)
(***************************************************************************)
EXTENDS Integers, TLC

CONSTANTS
  Dirs,            \* directories: to work in, with a .env and a server.toml
  Relative,        \* a relative path
  DefaultWindow,   \* batch_window_seconds, if nobody sets it
  DefaultOverlap   \* batch_window_overlap_seconds, if nobody sets it

ASSUME SettingsAssumption ==
  /\ Relative \notin Dirs
  /\ DefaultWindow \in Nat /\ DefaultOverlap \in Nat

Nothing == [name \in {} |-> 0]

Defaults == [window |-> DefaultWindow, overlap |-> DefaultOverlap, data |-> Relative]

Sets(source, name) == name \in DOMAIN source

\* What the upper source leaves open, the lower one decides.
Over(upper, lower) ==
  [name \in DOMAIN upper \cup DOMAIN lower |->
     IF Sets(upper, name) THEN upper[name] ELSE lower[name]]

\* _resolve_path
Resolved(source, place) ==
  IF Sets(source, "data") /\ source.data = Relative
    THEN [source EXCEPT !.data = place]
    ELSE source

\* Mutant of EnvDir: the .env of the working directory is always read.
EnvDirHere(environ, cwd) == cwd

\* --config, or NOTA_CONFIG_FILE of the process, decides which .env is read;
\* the .env of the working directory may name a server.toml as well.
EnvDir(environ, cwd) == IF Sets(environ, "config") THEN environ.config ELSE cwd

ConfigSource(environ, dotenv, toml, cwd) ==
  LET env == dotenv[EnvDir(environ, cwd)]
  IN IF Sets(environ, "config") THEN Resolved(toml[environ.config], environ.config)
     ELSE IF Sets(env, "config") THEN Resolved(toml[env.config], env.config)
     ELSE Nothing

\* The process environment goes before .env, .env before server.toml, and a
\* default is relative to where the server works.
FromSources(environ, dotenv, toml, cwd) ==
  LET place == EnvDir(environ, cwd)
      config == ConfigSource(environ, dotenv, toml, cwd)
      all == Over(Resolved(environ, cwd),
                  Over(Resolved(dotenv[place], place), Over(config, Resolved(Defaults, cwd))))
  IN [window |-> all.window, overlap |-> all.overlap, data |-> all.data]

Valid(s) == s.window > 0 /\ 0 <= s.overlap /\ s.overlap < s.window
=============================================================================
