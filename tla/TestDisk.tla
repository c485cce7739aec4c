------------------------------ MODULE TestDisk ------------------------------
(***************************************************************************)
(* scripts/build_test_disk.py: the files of a manifest on an ext2 and on a *)
(* FAT32 image, and the self test that reads both back.                    *)
(*                                                                         *)
(* A path is a sequence of names, a name a sequence of the words between   *)
(* its underscores.  mkfs, debugfs and the mtools are external: debugfs    *)
(* goes on after a command that fails, mmd and mcopy end the script.       *)
(***************************************************************************)
EXTENDS Integers, Sequences
LOCAL Seqs == INSTANCE SequencesExt

CONSTANTS
    Manifests,    \* sequences of entries, each a path and its contents
    Upper(_)      \* the upper-case form of a word

VARIABLES
    manifest,     \* the manifest
    fs,           \* what is at work: "ext2", "debugfs", "fat32", "both" at the end
    entry,        \* the entry the loop is at, or the command debugfs is at
    createdDirs,  \* created_dirs
    staged,       \* the host files, by name
    cmds,         \* the commands for debugfs
    ext2, fat,    \* the images: directories, files, and if the script got there
    selfTest      \* what self_test returns, -1 while it was not run

diskVars == <<manifest, fs, entry, createdDirs, staged, cmds, ext2, fat, selfTest>>

Blank == [dirs |-> {<<>>}, files |-> <<>>, failed |-> FALSE]

DiskStart(S) ==
    /\ manifest \in S /\ fs = "ext2" /\ entry = 1 /\ createdDirs = {}
    /\ staged = <<>> /\ cmds = <<>> /\ ext2 = Blank /\ fat = Blank /\ selfTest = -1
DiskInit == DiskStart(Manifests)

(* disk_path.replace("/", "_"): where the path was split is forgotten.     *)
HostName(path) == Seqs!FlattenSeq(path)
Dirname(path) == SubSeq(path, 1, Len(path) - 1)
UpperPath(path) == [i \in DOMAIN path |-> [j \in DOMAIN path[i] |-> Upper(path[i][j])]]
Put(f, x, y) == [z \in DOMAIN f \cup {x} |-> IF z = x THEN y ELSE f[z]]

(* mkdir and write; neither works without the directory above, nor mkdir   *)
(* on a path that exists.                                                  *)
Exists(img, path) == path \in img.dirs \/ path \in DOMAIN img.files
CanMkdir(img, path) == Dirname(path) \in img.dirs /\ ~Exists(img, path)
Mkdir(img, path) == [img EXCEPT !.dirs = @ \cup {path}]
CanWrite(img, path) == Dirname(path) \in img.dirs /\ path \notin img.dirs
Write(img, path, bytes) == [img EXCEPT !.files = Put(@, path, bytes)]
----------------------------------------------------------------------------
\* Mutant: the directory of every entry is made.
AnyParent(path) == Dirname(path) # <<>>

(* build_ext2: one entry of the loop stages the host file and queues its   *)
(* commands, debugfs runs all of them at the end, one after the other; it  *)
(* writes no second file to a path.                                        *)
NewParent(path) == Dirname(path) # <<>> /\ Dirname(path) \notin createdDirs
StageExt2 ==
    LET e == manifest[entry] IN
    /\ fs = "ext2" /\ entry <= Len(manifest)
    /\ entry' = entry + 1
    /\ createdDirs' = IF NewParent(e.path) THEN createdDirs \cup {Dirname(e.path)}
                      ELSE createdDirs
    /\ staged' = Put(staged, HostName(e.path), e.bytes)
    /\ cmds' = cmds \o (IF NewParent(e.path)
                        THEN <<[do |-> "mkdir", path |-> Dirname(e.path)]>> ELSE <<>>)
                    \o <<[do |-> "write", path |-> e.path]>>
    /\ UNCHANGED <<manifest, fs, ext2, fat, selfTest>>

Debugfs(img, c) ==
    CASE c.do = "mkdir" /\ CanMkdir(img, c.path) -> Mkdir(img, c.path)
      [] c.do = "write" /\ CanWrite(img, c.path) /\ ~Exists(img, c.path) ->
            Write(img, c.path, staged[HostName(c.path)])
      [] OTHER -> img
StartDebugfs ==
    /\ fs = "ext2" /\ entry > Len(manifest)
    /\ fs' = "debugfs" /\ entry' = 1
    /\ UNCHANGED <<manifest, createdDirs, staged, cmds, ext2, fat, selfTest>>
RunDebugfs ==
    /\ fs = "debugfs" /\ entry <= Len(cmds)
    /\ ext2' = Debugfs(ext2, cmds[entry]) /\ entry' = entry + 1
    /\ UNCHANGED <<manifest, fs, createdDirs, staged, cmds, fat, selfTest>>
EndExt2 ==
    /\ fs = "debugfs" /\ entry > Len(cmds)
    /\ fs' = "fat32" /\ entry' = 1 /\ createdDirs' = {} /\ staged' = <<>> /\ cmds' = <<>>
    /\ UNCHANGED <<manifest, ext2, fat, selfTest>>

(* build_fat32: directory, host file and copy of an entry at once, in      *)
(* upper case; a second copy of a path takes the place of the first.       *)
CopyFat32 ==
    LET path == UpperPath(manifest[entry].path)
        made == IF NewParent(path) THEN Mkdir(fat, Dirname(path)) ELSE fat
    IN /\ fs = "fat32" /\ entry <= Len(manifest) /\ ~fat.failed
       /\ entry' = entry + 1
       /\ IF (NewParent(path) => CanMkdir(fat, Dirname(path))) /\ CanWrite(made, path)
          THEN /\ createdDirs' = createdDirs \cup ({Dirname(path)} \ {<<>>})
               /\ staged' = Put(staged, HostName(path), manifest[entry].bytes)
               /\ fat' = Write(made, path, staged'[HostName(path)])
          ELSE /\ fat' = [fat EXCEPT !.failed = TRUE]
               /\ UNCHANGED <<createdDirs, staged>>
       /\ UNCHANGED <<manifest, fs, cmds, ext2, selfTest>>

(* self_test: every entry on ext2, and on FAT32 the last of those with     *)
(* the same path.                                                          *)
Holds(img, path, bytes) == path \in DOMAIN img.files /\ img.files[path] = bytes
Expected(i) == \A j \in i + 1 .. Len(manifest) :
                  UpperPath(manifest[j].path) # UpperPath(manifest[i].path)
RunSelfTest ==
    /\ fs = "fat32" /\ (fat.failed \/ entry > Len(manifest))
    /\ fs' = "both"
    /\ selfTest' =
         IF /\ ~fat.failed
            /\ \A i \in DOMAIN manifest :
                  LET e == manifest[i] IN
                  /\ Holds(ext2, e.path, e.bytes)
                  /\ Expected(i) => Holds(fat, UpperPath(e.path), e.bytes)
         THEN 0 ELSE 1
    /\ UNCHANGED <<manifest, entry, createdDirs, staged, cmds, ext2, fat>>

DiskNext == StageExt2 \/ StartDebugfs \/ RunDebugfs \/ EndExt2 \/ CopyFat32 \/ RunSelfTest
DiskSpec == DiskInit /\ [][DiskNext]_diskVars
----------------------------------------------------------------------------
(* A manifest as the repository's: no directory within a directory, and no *)
(* two entries that only case, or only where a "/" stands for a "_", keeps *)
(* apart.                                                                  *)
Apart == \A i, j \in DOMAIN manifest : i # j =>
            /\ HostName(manifest[i].path) # HostName(manifest[j].path)
            /\ UpperPath(manifest[i].path) # UpperPath(manifest[j].path)
            /\ UpperPath(manifest[i].path) # UpperPath(Dirname(manifest[j].path))
Flat == \A i \in DOMAIN manifest : Len(manifest[i].path) <= 2

(* Of such a manifest both images hold every file with its contents and    *)
(* nothing else, in whatever order the entries come and directories        *)
(* repeat; the self test says so, and never passes for another manifest    *)
(* with a file that is missing or has the contents of another.             *)
ImagesAgree ==
    fs = "both" =>
        LET paths == {manifest[i].path : i \in DOMAIN manifest} IN
        /\ Apart /\ Flat =>
              /\ selfTest = 0
              /\ DOMAIN ext2.files = paths
              /\ DOMAIN fat.files = {UpperPath(p) : p \in paths}
        /\ selfTest = 0 => \A i \in DOMAIN manifest :
                              ext2.files[manifest[i].path] = manifest[i].bytes
=============================================================================
