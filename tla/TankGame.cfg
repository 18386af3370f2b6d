SPECIFICATION Spec
CONSTANTS
    Threads = {t1, t2}
    Players = {player1, player2}
    Health = 2
    Lives = 2
    MaxAnimations = 3
    MaxUnseen = 1
SYMMETRY Symmetric
INVARIANTS
    ScoreMatchesLives
    DamageOnlyByOverlap
