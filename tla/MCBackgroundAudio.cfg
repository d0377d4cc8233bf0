SPECIFICATION FairAudioSpec
CONSTANTS
  Stations = {s1, s2}
  FirstStation = s1
  BootStation = s2
  Voicings = {idle}
  DefaultVoicing = idle
  FailThreshold = 1
  SilenceThreshold = 2
  RecoverThreshold = 2
  SwapCooldown = 2
  MaxProbeSkip = 2
  MaxGen = 2
  MaxAudioFaults = 1
CONSTRAINT Undrifted

  
PROPERTIES
  AudioRecovers
