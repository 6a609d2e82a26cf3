SPECIFICATION Spec
CONSTANTS
  Settings <- SomeSettings
  Minute = 2
  Width = 16
  MaxInterval = 2
  MaxLag = 2
INVARIANTS TypeOK SettingsTakeEffect
PROPERTIES NoBurst WorkGoesOn
