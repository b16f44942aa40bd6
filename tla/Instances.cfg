CHECK_DEADLOCK FALSE
CONSTANTS
  States = {song, scan}
  Nobody = Nobody
SPECIFICATION Spec
INVARIANT OwnSong
